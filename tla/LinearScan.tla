------------------------------ MODULE LinearScan ------------------------------
(***************************************************************************)
(* The linear scan register allocator (src/src/LinearScan.cpp), used when  *)
(* the compiler does not optimise: no virtual register then lives across   *)
(* a block boundary, so a function is a list of instructions, and an       *)
(* interval goes from a definition to the last use it reaches.             *)
(*                                                                         *)
(* allocateRegisters repeats: compute the intervals, scan them, and either *)
(* give every operand its register or put the intervals marked for spilling *)
(* into memory and try again with the code that results.                   *)
(***************************************************************************)
EXTENDS Integers, SequencesExt

CONSTANTS
  IntReg,     \* the integer registers, 4 .. 10 in the code
  FloatReg,   \* the float registers, 21 .. 47 in the code
  MaxVreg,    \* bound on the number of virtual registers
  NearSlots,  \* so many stack slots can be addressed without a register
  Programs    \* the functions to consider: records [code, fpu]

None == 0
Vreg == 1 .. MaxVreg
Slot == Nat \ {0}
Reg  == IntReg \cup FloatReg

(* An instruction defines at most one virtual register and uses some, a    *)
(* list; a store or a load of a stack slot names the slot.                 *)
Op(d, u)      == [def |-> d, use |-> u, slot |-> None]
Load(d, s, u) == [def |-> d, use |-> u, slot |-> s]
Store(s, u)   == [def |-> None, use |-> u, slot |-> s]

ASSUME RegAssumption == IntReg \subseteq Nat \ {0} /\ FloatReg \subseteq Nat \ {0} /\ IntReg \cap FloatReg = {}
ASSUME BoundAssumption == MaxVreg \in Nat /\ NearSlots \in Nat

VARIABLES
  program,    \* what the allocator was given, constant
  code,       \* the instructions; their positions are their numbers
  fpu,        \* the float virtual registers
  nvregs,     \* how many virtual registers there are (getLabel)
  nslots,     \* how many stack slots there are (AllocSpace)
  pool,       \* register -> how often it is in regs or fpregs
  end,        \* interval -> its end
  active,     \* the active intervals
  rreg,       \* interval -> its register
  spill,      \* the intervals marked for spilling
  success,
  cur,        \* the position the scan has come to
  pc

vars == <<program, code, fpu, nvregs, nslots, end, pool, active, rreg, spill, success, cur, pc>>

Position == 1 .. Len(code)

(* An interval is named by the position of its definition, its start.      *)
Interval == {k \in Position : code[k].def # None}

(* The uses the definition at k reaches: <<position, operand number>>.     *)
UsesOf(k) ==
  {u \in Position \X (1 .. 3) :
     /\ u[1] > k /\ u[2] =< Len(code[u[1]].use) /\ code[u[1]].use[u[2]] = code[k].def
     /\ \A l \in k + 1 .. u[1] - 1 : code[l].def # code[k].def}

(* Bug: the first use instead of the last. *)
EndFirst(k) == IF UsesOf(k) = {} THEN -1 ELSE Min({u[1] : u \in UsesOf(k)})

(* The last use; a dead definition ends before it starts. *)
End(k) == IF UsesOf(k) = {} THEN -1 ELSE Max({u[1] : u \in UsesOf(k)})

IsFloat(k) == code[k].def \in fpu
ClassOf(k) == IF IsFloat(k) THEN FloatReg ELSE IntReg

Full == [r \in Reg |-> 1]

Init ==
  /\ program \in Programs
  /\ code = program.code
  /\ fpu = program.fpu
  /\ nvregs = Len(program.code)
  /\ nslots = 0
  /\ pool = Full
  /\ end = <<>>
  /\ active = {}
  /\ rreg = <<>>
  /\ spill = {}
  /\ success = TRUE
  /\ cur = 1
  /\ pc = "intervals"

(* Bug: a failure is remembered in the next round. *)
KeepSuccess == success' = success

ResetSuccess == success' = TRUE

(* computeLiveIntervals, and the start of linearScanRegisterAllocation.    *)
ComputeLiveIntervals ==
  /\ pc = "intervals"
  /\ end' = [k \in Interval |-> End(k)]
  /\ rreg' = [k \in Interval |-> None]
  /\ spill' = {}
  /\ ResetSuccess
  /\ active' = {}
  /\ pool' = Full
  /\ cur' = 1
  /\ pc' = "expire"
  /\ UNCHANGED <<program, code, fpu, nvregs, nslots>>

-----------------------------------------------------------------------------
(* linearScanRegisterAllocation                                            *)

SkipPosition ==
  /\ pc = "expire"
  /\ cur \in Position \ Interval
  /\ cur' = cur + 1
  /\ UNCHANGED <<program, code, fpu, nvregs, nslots, end, pool, active, rreg, spill, success, pc>>

(* Bug: an interval that ends where this one starts is over. *)
ExpiredHere(a) == end[a] =< cur

Expired(a) == end[a] < cur

(* expireOldIntervals: active is sorted by end, so the first one that has  *)
(* not ended stops the walk.  A register goes back to the list of its own  *)
(* number, whatever the class of the interval that had it.                 *)
ExpireOldInterval ==
  /\ pc = "expire"
  /\ cur \in Interval
  /\ \E a \in active :
       /\ Expired(a)
       /\ \A b \in active : end[a] =< end[b]
       /\ active' = active \ {a}
       /\ pool' = [pool EXCEPT ![rreg[a]] = @ + 1]
  /\ UNCHANGED <<program, code, fpu, nvregs, nslots, end, rreg, spill, success, cur, pc>>

Expiry == \E a \in active : Expired(a)
Free   == {r \in ClassOf(cur) : pool[r] > 0}

(* Bug: the register stays in the list. *)
TakeLeaving(r) == pool' = pool

Take(r) == pool' = [pool EXCEPT ![r] = @ - 1]

AllocateFront ==
  /\ pc = "expire"
  /\ cur \in Interval
  /\ ~Expiry
  /\ Free # {}
  /\ rreg' = [rreg EXCEPT ![cur] = Min(Free)]
  /\ Take(Min(Free))
  /\ active' = active \cup {cur}
  /\ cur' = cur + 1
  /\ UNCHANGED <<program, code, fpu, nvregs, nslots, end, spill, success, pc>>

(* spillAtInterval: the active interval that ends last, whatever its       *)
(* class, is marked and gives up its register if it ends after the new     *)
(* one; it stays active.  Otherwise the new one is marked.                 *)
SpillActive(last) ==
  /\ end[last] > end[cur]
  /\ spill' = spill \cup {last}
  /\ rreg' = [rreg EXCEPT ![cur] = rreg[last]]
  /\ active' = active \cup {cur}

SpillItself(last) ==
  /\ end[last] =< end[cur]
  /\ spill' = spill \cup {cur}
  /\ UNCHANGED <<rreg, active>>

SpillAtInterval ==
  /\ pc = "expire"
  /\ cur \in Interval
  /\ ~Expiry
  /\ Free = {}
  /\ \E last \in active :
       /\ \A b \in active : end[b] =< end[last]
       /\ SpillActive(last) \/ SpillItself(last)
  /\ success' = FALSE
  /\ cur' = cur + 1
  /\ UNCHANGED <<program, code, fpu, nvregs, nslots, end, pool, pc>>

ScanEnd ==
  /\ pc = "expire"
  /\ cur \notin Position
  /\ pc' = IF success THEN "modify" ELSE "spill"
  /\ UNCHANGED <<program, code, fpu, nvregs, nslots, end, pool, active, rreg, spill, success, cur>>

-----------------------------------------------------------------------------
(* genSpillCode                                                            *)

(* The marked intervals in the order of their starts: the slot of each,    *)
(* and, for every load and store of a far slot, new virtual registers.     *)
SlotOf(k) == nslots + Cardinality({s \in spill : s =< k})
Far(k)    == SlotOf(k) > NearSlots
PerAccess(k) == IF ~Far(k) THEN 0 ELSE IF IsFloat(k) THEN 2 ELSE 1

(* The accesses an interval needs: its definition and its uses.            *)
Accesses  == UNION {{<<k, k, 0>>} \cup {<<k, u[1], u[2]>> : u \in UsesOf(k)} : k \in spill}
Before(a, b) == a[1] < b[1] \/ (a[1] = b[1] /\ (a[2] < b[2] \/ (a[2] = b[2] /\ a[3] < b[3])))
FirstVreg(a) ==
  nvregs + 1 + FoldSet(LAMBDA b, n : n + PerAccess(b[1]), 0, {b \in Accesses : Before(b, a)})

(* Addressing a far slot takes its offset from memory, and for a float the *)
(* sum of it and the frame pointer.                                        *)
Address(a) ==
  LET v == FirstVreg(a) IN
    CASE PerAccess(a[1]) = 0 -> <<>>
      [] PerAccess(a[1]) = 1 -> <<Op(v, <<>>)>>
      [] PerAccess(a[1]) = 2 -> <<Op(v, <<>>), Op(v + 1, <<v>>)>>
AddressReg(a) ==
  IF PerAccess(a[1]) = 0 THEN <<>> ELSE <<FirstVreg(a) + PerAccess(a[1]) - 1>>

LoadFor(a)  == Address(a) \o <<Load(code[a[1]].def, SlotOf(a[1]), AddressReg(a))>>
StoreFor(a) == Address(a) \o <<Store(SlotOf(a[1]), <<code[a[1]].def>> \o AddressReg(a))>>

(* The instruction at m with a load before it for every spilled operand    *)
(* and a store after it if its result is spilled.                          *)
Rewritten(m) ==
  LET uses == SetToSortSeq({a \in Accesses : a[2] = m /\ a[3] # 0}, Before)
      def  == SetToSortSeq({a \in Accesses : a[2] = m /\ a[3] = 0}, Before)
  IN  FlattenSeq([n \in 1 .. Len(uses) |-> LoadFor(uses[n])]) \o <<code[m]>>
        \o FlattenSeq([n \in 1 .. Len(def) |-> StoreFor(def[n])])

(* Bug: the frame does not grow. *)
AllocSpaceNone == nslots' = nslots

AllocSpace == nslots' = nslots + Cardinality(spill)

NewVregs == FoldSet(LAMBDA a, n : n + PerAccess(a[1]), 0, Accesses)

GenSpillCode ==
  /\ pc = "spill"
  /\ code' = FlattenSeq([m \in Position |-> Rewritten(m)])
  /\ nvregs' = nvregs + NewVregs
  /\ nvregs' =< MaxVreg
  /\ AllocSpace
  /\ pc' = "intervals"
  /\ UNCHANGED <<program, fpu, end, pool, active, rreg, spill, success, cur>>

(* modifyCode: rreg is what the operands get. *)
ModifyCode ==
  /\ pc = "modify"
  /\ pc' = "done"
  /\ UNCHANGED <<program, code, fpu, nvregs, nslots, end, pool, active, rreg, spill, success, cur>>

Next ==
  \/ ComputeLiveIntervals
  \/ SkipPosition
  \/ ExpireOldInterval
  \/ AllocateFront
  \/ SpillAtInterval
  \/ ScanEnd
  \/ GenSpillCode
  \/ ModifyCode

Spec == Init /\ [][Next]_vars

(* The allocator is sequential code. *)
FairSpec == Spec /\ WF_vars(Next)

-----------------------------------------------------------------------------
Held(r) == Cardinality({a \in active : rreg[a] = r})

(* No register is ever lost, and until the scan fails each is either free  *)
(* or held by one active interval.  (After that a register can be in the   *)
(* list twice, but the result of the scan is thrown away.)                 *)
NoRegisterLost ==
  pc = "expire" =>
    \A r \in Reg : /\ pool[r] + Held(r) >= 1
                   /\ success => pool[r] + Held(r) = 1

(* In a scan that has not failed every interval has a register of its      *)
(* class, and a register is given again only when the interval that had it *)
(* has ended, before the next definition.                                  *)
Scanned == {k \in Interval : k < cur}

RegisterReuse ==
  pc \in {"expire", "modify", "done"} /\ success =>
    \A k \in Scanned : /\ rreg[k] \in ClassOf(k)
                       /\ \A l \in Scanned : k < l /\ rreg[k] = rreg[l] => end[k] < l

(* The registers of the finished code, checked by running it.  Every       *)
(* definition in the program given produces a value of its own, named by   *)
(* the virtual register; the state says what the registers and the stack   *)
(* slots hold, and whether every operand read so far held its value.       *)
RegOfUse(m, n) == rreg[Max({k \in 1 .. m - 1 : code[k].def = code[m].use[n]})]

Execute(st, m) ==
  LET ins  == code[m]
      held == [n \in 1 .. Len(ins.use) |-> st.reg[RegOfUse(m, n)]]
      read == st.right /\ \A n \in 1 .. Len(ins.use) : held[n] = ins.use[n]
  IN  IF ins.def # None
      THEN [st EXCEPT !.reg[rreg[m]] = ins.def,
                      !.right = read /\ (ins.slot # None => st.mem[ins.slot] = ins.def)
                                  /\ rreg[m] \in ClassOf(m)]
      ELSE IF ins.slot # None
      THEN [st EXCEPT !.mem[ins.slot] = held[1], !.right = read]
      ELSE [st EXCEPT !.right = read]

StateAfter[m \in 0 .. Len(code)] ==
  IF m = 0
  THEN [reg |-> [r \in Reg |-> None], mem |-> [s \in 1 .. MaxVreg |-> None], right |-> TRUE]
  ELSE LET before == StateAfter[m - 1] IN Execute(before, m)

(* Every instruction of the result reads in each operand the value the     *)
(* virtual register had, through spills and reloads, from a register of    *)
(* the right class.                                                        *)
ReadsItsValue == pc = "done" => StateAfter[Len(code)].right

(* Spilling goes on until every virtual register fits.                     *)
Terminates == <>(pc = "done")

-----------------------------------------------------------------------------
(* The inductive invariant behind NoRegisterLost and RegisterReuse. *)

(* What the scan keeps: the active intervals are among those it has seen,  *)
(* and each has a register, even if it has been marked for spilling.       *)
ScanInv ==
  /\ cur \in Nat \ {0}
  /\ success \in BOOLEAN
  /\ pc = "expire" =>
       /\ pool \in [Reg -> Nat]
       /\ active \subseteq Scanned
       /\ \A a \in active : rreg[a] \in Reg
  /\ pc \in {"expire", "modify", "done"} => rreg = [k \in Interval |-> rreg[k]]
  /\ pc \in {"modify", "done"} => success /\ cur \notin Position

(* The ends are numbers, and until the scan fails whoever has not ended is *)
(* active.                                                                 *)
EndInv ==
  pc \in {"expire", "modify", "done"} =>
    /\ \A k \in Interval : end[k] \in Int
    /\ pc = "expire" /\ success => \A k \in Scanned \ active : end[k] < cur

IInv == ScanInv /\ NoRegisterLost /\ (Len(code) \in Nat => EndInv /\ RegisterReuse)
==============================================================================

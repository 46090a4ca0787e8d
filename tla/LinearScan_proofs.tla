--------------------------- MODULE LinearScan_proofs ---------------------------
(***************************************************************************)
(* Proofs about the linear scan, for every set of integer and float        *)
(* registers and every program: no register is lost in any round, and in   *)
(* the round that succeeds a register is given again only after the        *)
(* interval that had it has ended.                                         *)
(***************************************************************************)
EXTENDS LinearScan, FiniteSetTheorems, WellFoundedInduction, TLAPS

(* A nonempty set of numbers has a least one, which Min finds. *)
LEMMA MinOfNumbers ==
  ASSUME NEW S \in SUBSET Nat, S # {}
  PROVE  Min(S) \in S /\ \A n \in S : Min(S) =< n
<1> DEFINE R == {p \in Nat \X Nat : p[1] < p[2]}
<1>1. IsWellFoundedOn(R, Nat)
  BY NatLessThanWellFounded DEF OpToRel
<1>2. ASSUME NEW m \in Nat, NEW n \in Nat, ~(<<n, m>> \in R) PROVE m =< n
  BY <1>2
<1> HIDE DEF R
<1>3. \E m \in S : \A n \in S : ~(<<n, m>> \in R)
  BY <1>1, WFMin
<1>4. \E m \in S : \A n \in S : m =< n
  BY <1>2, <1>3
<1> QED
  BY <1>4 DEF Min

(* A nonempty set of numbers up to a bound has a greatest one. *)
LEMMA MaxOfNumbers ==
  ASSUME NEW b \in Nat, NEW S \in SUBSET (1 .. b), S # {}
  PROVE  Max(S) \in S
<1> DEFINE D == {b - x : x \in S}
<1>0. \A x \in S : x \in Nat /\ b - x \in Nat
  OBVIOUS
<1>1. D \in SUBSET Nat /\ D # {}
  BY <1>0
<1> HIDE DEF D
<1>2. Min(D) \in D /\ \A n \in D : Min(D) =< n
  BY <1>1, MinOfNumbers
<1>3. PICK m \in S : Min(D) = b - m
  BY <1>2 DEF D
<1>4. \A x \in S : b - m =< b - x
  BY <1>2, <1>3 DEF D
<1>5. \E x \in S : \A y \in S : x >= y
  BY <1>4
<1> QED
  BY <1>5 DEF Max

(* An interval ends at a number. *)
LEMMA EndType ==
  ASSUME Len(code) \in Nat, NEW k
  PROVE  End(k) \in Int
<1> DEFINE S == {u[1] : u \in UsesOf(k)}
           b == Len(code)
<1>1. S \in SUBSET (1 .. Len(code))
  BY DEF UsesOf, Position
<1>2. (UsesOf(k) # {} => S # {}) /\ b \in Nat /\ S \in SUBSET (1 .. b)
  BY <1>1
<1> HIDE DEF S, b
<1>3. UsesOf(k) # {} => Max(S) \in S
  BY <1>2, MaxOfNumbers
<1>4. S \subseteq Int
  BY <1>2
<1>5. UsesOf(k) # {} => Max(S) \in Int
  BY <1>3, <1>4
<1> QED
  BY <1>5 DEF End, S

(* The free registers, and the first of them.                              *)
LEMMA FirstFree ==
  ASSUME ScanInv, pc = "expire", Free # {}
  PROVE  Min(Free) \in ClassOf(cur) /\ Min(Free) \in Reg /\ pool[Min(Free)] > 0
<1>1. Free \subseteq ClassOf(cur) /\ ClassOf(cur) \subseteq Reg /\ Reg \subseteq Nat
  BY RegAssumption DEF Free, ClassOf, Reg
<1>2. Min(Free) \in Free
  BY <1>1, MinOfNumbers
<1> QED
  BY <1>1, <1>2 DEF Free

-----------------------------------------------------------------------------
(* Counting the holders of a register.                                     *)
Holders(A, f, r) == {a \in A : f[a] = r}

(* What the scan has seen is finite. *)
LEMMA ScannedFinite ==
  ASSUME cur \in Nat \ {0}, NEW A \in SUBSET Scanned
  PROVE  IsFiniteSet(A)
<1>1. Scanned \subseteq 1 .. cur
  BY DEF Scanned, Interval, Position
<1>2. IsFiniteSet(1 .. cur)
  BY FS_Interval
<1> QED
  BY <1>1, <1>2, FS_Subset

(* One more holder, or none.                                               *)
LEMMA OneMore ==
  ASSUME NEW A, IsFiniteSet(A), NEW c, c \notin A, NEW H \in SUBSET A, NEW K,
         K = H \/ K = H \cup {c}
  PROVE  /\ Cardinality(H) \in Nat
         /\ K = H => Cardinality(K) = Cardinality(H)
         /\ K = H \cup {c} => Cardinality(K) = Cardinality(H) + 1
<1>1. IsFiniteSet(H) /\ c \notin H
  BY FS_Subset
<1> QED
  BY <1>1, FS_AddElement, FS_CardinalityType

-----------------------------------------------------------------------------
(* Interval and class are those of the code.                               *)
LEMMA CodeKept ==
  ASSUME code' = code, fpu' = fpu
  PROVE  /\ Position' = Position /\ Interval' = Interval
         /\ \A k : ClassOf(k)' = ClassOf(k) /\ End(k)' = End(k)
  BY DEF Position, Interval, ClassOf, IsFloat, End, UsesOf

(* At first every register is free. *)
LEMMA InvInit == Init => IInv
<1> SUFFICES ASSUME Init PROVE IInv
  OBVIOUS
<1>1. pc = "intervals" /\ cur = 1 /\ success = TRUE
  BY DEF Init
<1> QED
  BY <1>1 DEF IInv, ScanInv, NoRegisterLost, EndInv, RegisterReuse

(* A scan begins with every register in its list once.                     *)
LEMMA StartStep ==
  ASSUME ComputeLiveIntervals
  PROVE  IInv'
<1>1. /\ end' = [k \in Interval |-> End(k)] /\ rreg' = [k \in Interval |-> None]
      /\ success' = TRUE /\ active' = {} /\ pool' = [r \in Reg |-> 1] /\ cur' = 1 /\ pc' = "expire"
      /\ code' = code /\ fpu' = fpu
  BY DEF ComputeLiveIntervals, ResetSuccess, Full
<1>2. Interval' = Interval /\ Position' = Position
  BY <1>1, CodeKept
<1>3. Interval \subseteq Int /\ \A k \in Interval : ~(k < 1)
  BY DEF Interval, Position
<1>4. Scanned' = {}
  BY <1>1, <1>2, <1>3 DEF Scanned
<1>5. ScanInv'
  BY <1>1, <1>2, <1>4 DEF ScanInv
<1>6. NoRegisterLost'
  <2>1. \A r \in Reg : Held(r)' = 0
    BY <1>1, FS_EmptySet DEF Held
  <2> QED
    BY <1>1, <2>1 DEF NoRegisterLost
<1>7. Len(code)' \in Nat => EndInv'
  BY <1>1, <1>2, <1>4, EndType DEF EndInv
<1>8. RegisterReuse'
  BY <1>1, <1>4 DEF RegisterReuse
<1> QED
  BY <1>5, <1>6, <1>7, <1>8 DEF IInv

(* A register comes back only when its interval has ended. *)
LEMMA ExpireStep ==
  ASSUME IInv, ExpireOldInterval
  PROVE  IInv'
<1>1. PICK a \in active :
        /\ Expired(a) /\ active' = active \ {a} /\ pool' = [pool EXCEPT ![rreg[a]] = @ + 1]
  BY DEF ExpireOldInterval
<1>2. /\ pc = "expire" /\ pc' = "expire" /\ code' = code /\ fpu' = fpu /\ end' = end /\ rreg' = rreg
      /\ success' = success /\ cur' = cur /\ cur \in Interval
  BY DEF ExpireOldInterval
<1>3. /\ Interval' = Interval /\ Position' = Position /\ \A k : ClassOf(k)' = ClassOf(k)
      /\ Scanned' = Scanned
  BY <1>2, CodeKept DEF Scanned
<1>4. /\ pool \in [Reg -> Nat] /\ active \subseteq Scanned /\ rreg[a] \in Reg /\ cur \in Nat \ {0}
      /\ IsFiniteSet(active)
  BY <1>2, ScannedFinite DEF IInv, ScanInv
<1>5. ScanInv'
  BY <1>1, <1>2, <1>3, <1>4 DEF IInv, ScanInv
<1>6. ASSUME NEW r \in Reg PROVE pool'[r] + Held(r)' = pool[r] + Held(r) 
  <2> DEFINE A == active \ {a}
             H == Holders(A, rreg, r)
             K == Holders(active, rreg, r)
  <2>1. /\ IsFiniteSet(A) /\ a \notin A /\ H \in SUBSET A
        /\ K = IF rreg[a] = r THEN H \cup {a} ELSE H
    BY <1>4, FS_Subset DEF Holders
  <2>3. Held(r)' = Cardinality(H) /\ Held(r) = Cardinality(K)
    BY <1>1, <1>2 DEF Held, Holders
  <2> HIDE DEF A, H, K
  <2>2. /\ Cardinality(H) \in Nat
        /\ Cardinality(K) = IF rreg[a] = r THEN Cardinality(H) + 1 ELSE Cardinality(H)
    BY <2>1, OneMore
  <2>4. pool'[r] = IF rreg[a] = r THEN pool[r] + 1 ELSE pool[r]
    BY <1>1, <1>4
  <2> QED
    BY <2>1, <2>2, <2>3, <2>4, <1>4
<1>7. NoRegisterLost'
  BY <1>2, <1>6 DEF IInv, NoRegisterLost
<1>8. Len(code)' \in Nat => EndInv' /\ RegisterReuse'
  BY <1>1, <1>2, <1>3 DEF IInv, EndInv, RegisterReuse, Expired
<1> QED
  BY <1>5, <1>7, <1>8 DEF IInv

(* What the scan has seen after one more position.                         *)
LEMMA ScannedNext ==
  ASSUME cur \in Nat \ {0}, code' = code, fpu' = fpu, cur' = cur + 1
  PROVE  /\ Scanned' = IF cur \in Interval THEN Scanned \cup {cur} ELSE Scanned
         /\ cur \notin Scanned
         /\ \A k \in Scanned : k \in Int /\ k < cur
<1>1. Interval' = Interval /\ Interval \subseteq Int
  BY CodeKept DEF Interval, Position
<1>2. Scanned' = {k \in Interval : k < cur + 1}
  BY <1>1 DEF Scanned
<1>3. \A k \in Interval : k < cur + 1 <=> k < cur \/ k = cur
  BY <1>1
<1>4. Scanned' = {k \in Interval : k < cur \/ k = cur}
  BY <1>2, <1>3
<1> QED
  BY <1>1, <1>4 DEF Scanned

(* The next interval takes the first free register of its class. *)
LEMMA AllocateStep ==
  ASSUME IInv, AllocateFront
  PROVE  IInv'
<1> DEFINE f == Min(Free)
<1>1. /\ pc = "expire" /\ pc' = "expire" /\ code' = code /\ fpu' = fpu /\ end' = end
      /\ success' = success /\ cur' = cur + 1 /\ cur \in Interval /\ ~Expiry
      /\ rreg' = [rreg EXCEPT ![cur] = f] /\ pool' = [pool EXCEPT ![f] = @ - 1]
      /\ active' = active \cup {cur}
  BY DEF AllocateFront, Take
<1>2. f \in ClassOf(cur) /\ f \in Reg /\ pool[f] > 0
  BY FirstFree DEF IInv, AllocateFront
<1> HIDE DEF f
<1>3. /\ Interval' = Interval /\ Position' = Position /\ \A k : ClassOf(k)' = ClassOf(k)
  BY <1>1, CodeKept
<1>4. /\ cur \in Nat \ {0} /\ pool \in [Reg -> Nat] /\ active \subseteq Scanned
      /\ rreg = [k \in Interval |-> rreg[k]] /\ IsFiniteSet(active)
      /\ \A a \in active : rreg[a] \in Reg
  BY <1>1, ScannedFinite DEF IInv, ScanInv
<1>5. /\ Scanned' = Scanned \cup {cur} /\ cur \notin Scanned
      /\ \A k \in Scanned : k \in Int /\ k < cur /\ k \in Interval
  BY <1>1, <1>4, ScannedNext DEF Scanned
<1>6. rreg' = [k \in Interval |-> IF k = cur THEN f ELSE rreg[k]]
  BY <1>1, <1>4
<1>7. pool' \in [Reg -> Nat]
  BY <1>1, <1>2, <1>4
<1>8. ScanInv'
  <2>1. rreg' = [k \in Interval' |-> rreg'[k]]
    BY <1>3, <1>6
  <2>2. \A a \in active' : rreg'[a] \in Reg
    BY <1>1, <1>2, <1>4, <1>5, <1>6
  <2> QED
    BY <1>1, <1>4, <1>5, <1>7, <2>1, <2>2 DEF IInv, ScanInv
<1>9. ASSUME NEW r \in Reg
      PROVE  /\ Held(r) \in Nat /\ Held(r)' = Held(r) + (IF r = f THEN 1 ELSE 0)
             /\ pool'[r] = pool[r] - (IF r = f THEN 1 ELSE 0)
  <2>1. \A a \in active : rreg'[a] = rreg[a]
    BY <1>4, <1>5, <1>6
  <2>2. rreg'[cur] = f
    BY <1>1, <1>6
  <2> DEFINE A == active
             g == rreg'
             c == cur
             H == Holders(A, rreg, r)
             K == Holders(A \cup {c}, g, r)
  <2>3. /\ c \notin A /\ IsFiniteSet(A) /\ H \in SUBSET A
        /\ K = IF g[c] = r THEN H \cup {c} ELSE H
    BY <1>4, <1>5, <2>1 DEF Holders
  <2>4. Held(r)' = Cardinality(K) /\ Held(r) = Cardinality(H)
    BY <1>1 DEF Held, Holders
  <2> HIDE DEF A, g, c, H, K
  <2>5. /\ Cardinality(H) \in Nat
        /\ Cardinality(K) = IF g[c] = r THEN Cardinality(H) + 1 ELSE Cardinality(H)
    BY <2>3, OneMore
  <2>6. pool'[r] = pool[r] - (IF r = f THEN 1 ELSE 0)
    BY <1>1, <1>4
  <2> QED
    BY <2>2, <2>4, <2>5, <2>6 DEF g, c
<1>10. NoRegisterLost'
  BY <1>1, <1>4, <1>9 DEF IInv, NoRegisterLost
<1>11. success => \A a \in active : rreg[a] # f
  <2> SUFFICES ASSUME success, NEW a \in active, rreg[a] = f PROVE FALSE
    OBVIOUS
  <2>1. pool[f] + Held(f) = 1 /\ Held(f) \in Nat /\ pool[f] \in Nat
    BY <1>1, <1>2, <1>4, <1>9 DEF IInv, NoRegisterLost
  <2>2. Held(f) = 0
    BY <2>1, <1>2
  <2>3. IsFiniteSet(Holders(active, rreg, f)) /\ a \in Holders(active, rreg, f)
    BY <1>4, FS_Subset DEF Holders
  <2>4. Held(f) = Cardinality(Holders(active, rreg, f))
    BY DEF Held, Holders
  <2> QED
    BY <2>2, <2>3, <2>4, FS_EmptySet
<1>12. ASSUME Len(code) \in Nat PROVE EndInv' /\ RegisterReuse'
  <2>1. /\ \A k \in Interval : end[k] \in Int
        /\ success => \A k \in Scanned \ active : end[k] < cur
        /\ success => \A k \in Scanned : /\ rreg[k] \in ClassOf(k)
                                         /\ \A l \in Scanned : k < l /\ rreg[k] = rreg[l] => end[k] < l
    BY <1>1, <1>12 DEF IInv, EndInv, RegisterReuse
  <2>2. EndInv'
    BY <1>1, <1>3, <1>4, <1>5, <2>1 DEF EndInv
  <2>3. ASSUME success, NEW k \in Scanned, rreg[k] = f PROVE end[k] < cur
    BY <2>1, <2>3, <1>11
  <2>4. \A k \in Scanned : rreg'[k] = rreg[k] /\ ~(cur < k)
    BY <1>4, <1>5, <1>6
  <2>5. rreg'[cur] = f
    BY <1>1, <1>6
  <2>6. success => \A k \in Scanned' : rreg'[k] \in ClassOf(k)
    BY <1>2, <1>5, <2>1, <2>4, <2>5
  <2>7. ASSUME success, NEW k \in Scanned', NEW l \in Scanned', k < l, rreg'[k] = rreg'[l]
        PROVE  end[k] < l
    <3>1. CASE k = cur
      BY <3>1, <2>4, <2>7, <1>4, <1>5
    <3>2. CASE k \in Scanned /\ l = cur
      BY <3>2, <2>3, <2>4, <2>5, <2>7
    <3>3. CASE k \in Scanned /\ l \in Scanned
      BY <3>3, <2>1, <2>4, <2>7
    <3> QED
      BY <3>1, <3>2, <3>3, <1>5
  <2>8. RegisterReuse'
    BY <1>1, <1>3, <2>6, <2>7 DEF RegisterReuse
  <2> QED
    BY <2>2, <2>8
<1> QED
  BY <1>1, <1>8, <1>10, <1>12 DEF IInv

(* With no register free the scan fails.  An interval that gives up its    *)
(* register stays active, but every active one still has a register.       *)
LEMMA SpillStep ==
  ASSUME IInv, SpillAtInterval
  PROVE  IInv'
<1>1. PICK last \in active : SpillActive(last) \/ SpillItself(last)
  BY DEF SpillAtInterval
<1>2. /\ pc = "expire" /\ pc' = "expire" /\ code' = code /\ fpu' = fpu /\ end' = end /\ pool' = pool
      /\ success' = FALSE /\ cur' = cur + 1 /\ cur \in Interval
  BY DEF SpillAtInterval
<1>3. Interval' = Interval /\ Position' = Position
  BY <1>2, CodeKept
<1>4. /\ cur \in Nat \ {0} /\ pool \in [Reg -> Nat] /\ active \subseteq Scanned
      /\ rreg = [k \in Interval |-> rreg[k]] /\ IsFiniteSet(active)
      /\ \A a \in active : rreg[a] \in Reg
  BY <1>2, ScannedFinite DEF IInv, ScanInv
<1>5. /\ Scanned' = Scanned \cup {cur} /\ cur \notin Scanned
      /\ \A k \in Scanned : k \in Interval
  BY <1>2, <1>4, ScannedNext DEF Scanned
<1>6. CASE SpillItself(last)
  <2>1. rreg' = rreg /\ active' = active
    BY <1>6 DEF SpillItself
  <2>2. \A r : Held(r)' = Held(r)
    BY <2>1 DEF Held
  <2>3. ScanInv'
    <3>1. rreg' = [k \in Interval' |-> rreg'[k]]
      BY <1>3, <1>4, <2>1
    <3>2. active' \subseteq Scanned' /\ \A a \in active' : rreg'[a] \in Reg
      BY <1>4, <1>5, <2>1
    <3>3. cur' \in Nat \ {0} /\ pool' \in [Reg -> Nat]
      BY <1>2, <1>4
    <3>4. success' \in BOOLEAN
      BY <1>2, Zenon
    <3> QED
      BY <1>2, <3>1, <3>2, <3>3, <3>4 DEF ScanInv
  <2>4. NoRegisterLost'
    BY <1>2, <2>2 DEF IInv, NoRegisterLost
  <2>5. Len(code)' \in Nat => EndInv' /\ RegisterReuse'
    BY <1>2, <1>3 DEF IInv, EndInv, RegisterReuse
  <2> QED
    BY <2>3, <2>4, <2>5 DEF IInv
<1>7. CASE SpillActive(last)
  <2>1. rreg' = [k \in Interval |-> IF k = cur THEN rreg[last] ELSE rreg[k]] /\ active' = active \cup {cur}
    BY <1>2, <1>4, <1>7 DEF SpillActive
  <2>2. rreg'[cur] \in Reg /\ \A a \in active : rreg'[a] = rreg[a]
    BY <1>2, <1>4, <1>5, <2>1
  <2>3. ScanInv'
    <3>1. rreg' = [k \in Interval' |-> rreg'[k]]
      BY <1>3, <2>1
    <3>2. active' \subseteq Scanned' /\ \A a \in active' : rreg'[a] \in Reg
      BY <1>4, <1>5, <2>1, <2>2
    <3>3. cur' \in Nat \ {0} /\ pool' \in [Reg -> Nat]
      BY <1>2, <1>4
    <3>4. success' \in BOOLEAN
      BY <1>2, Zenon
    <3> QED
      BY <1>2, <3>1, <3>2, <3>3, <3>4 DEF ScanInv
  <2>4. ASSUME NEW r \in Reg
        PROVE  Held(r) \in Nat /\ Held(r)' \in {Held(r), Held(r) + 1}
    <3> DEFINE A == active
               g == rreg'
               c == cur
               H == Holders(A, rreg, r)
               K == Holders(A \cup {c}, g, r)
    <3>1. /\ c \notin A /\ IsFiniteSet(A) /\ H \in SUBSET A
          /\ K = IF g[c] = r THEN H \cup {c} ELSE H
      BY <1>4, <1>5, <2>2 DEF Holders
    <3>2. Held(r)' = Cardinality(K) /\ Held(r) = Cardinality(H)
      BY <2>1 DEF Held, Holders
    <3> HIDE DEF A, g, c, H, K
    <3>3. /\ Cardinality(H) \in Nat
          /\ Cardinality(K) = IF g[c] = r THEN Cardinality(H) + 1 ELSE Cardinality(H)
      BY <3>1, OneMore
    <3> QED
      BY <3>2, <3>3
  <2>5. NoRegisterLost'
    BY <1>2, <1>4, <2>4 DEF IInv, NoRegisterLost
  <2>6. Len(code)' \in Nat => EndInv' /\ RegisterReuse'
    BY <1>2, <1>3 DEF IInv, EndInv, RegisterReuse
  <2> QED
    BY <2>3, <2>5, <2>6 DEF IInv
<1> QED
  BY <1>1, <1>6, <1>7

(* The other steps of the scan touch no register.                          *)
LEMMA OtherStep ==
  ASSUME IInv, SkipPosition \/ ScanEnd \/ GenSpillCode \/ ModifyCode \/ UNCHANGED vars
  PROVE  IInv'
<1>1. CASE GenSpillCode
  <2>1. pc' = "intervals" /\ cur' = cur /\ success' = success
    BY <1>1 DEF GenSpillCode
  <2> QED
    BY <2>1 DEF IInv, ScanInv, NoRegisterLost, EndInv, RegisterReuse
<1>2. CASE SkipPosition
  <2>1. /\ pc = "expire" /\ pc' = "expire" /\ code' = code /\ fpu' = fpu /\ end' = end /\ pool' = pool
        /\ success' = success /\ cur' = cur + 1 /\ cur \notin Interval /\ active' = active /\ rreg' = rreg
    BY <1>2 DEF SkipPosition
  <2>2. Interval' = Interval /\ Position' = Position /\ \A k : ClassOf(k)' = ClassOf(k)
    BY <2>1, CodeKept
  <2>3. cur \in Nat \ {0}
    BY DEF IInv, ScanInv
  <2>4. Scanned' = Scanned /\ Scanned \subseteq Interval
    BY <2>1, <2>3, ScannedNext DEF Scanned
  <2>5. ScanInv'
    BY <2>1, <2>2, <2>3, <2>4 DEF IInv, ScanInv
  <2>6. NoRegisterLost'
    <3>1. \A r : Held(r)' = Held(r)
      BY <2>1 DEF Held
    <3> QED
      BY <2>1, <3>1 DEF IInv, NoRegisterLost
  <2>7. Len(code)' \in Nat => EndInv' /\ RegisterReuse'
    BY <2>1, <2>2, <2>3, <2>4 DEF IInv, EndInv, RegisterReuse
  <2> QED
    BY <2>5, <2>6, <2>7 DEF IInv
<1>3. CASE ScanEnd \/ ModifyCode \/ UNCHANGED vars
  <2>1. /\ UNCHANGED <<code, fpu, end, pool, success, cur, active, rreg>>
        /\ \/ pc = "expire" /\ cur \notin Position /\ (pc' = "spill" \/ (pc' = "modify" /\ success))
           \/ pc = "modify" /\ pc' = "done"
           \/ pc' = pc
    BY <1>3 DEF ScanEnd, ModifyCode, vars
  <2>2. Interval' = Interval /\ Position' = Position /\ \A k : ClassOf(k)' = ClassOf(k)
    BY <2>1, CodeKept
  <2>3. Scanned' = Scanned
    BY <2>1, <2>2 DEF Scanned
  <2>4. ScanInv'
    BY <2>1, <2>2, <2>3 DEF IInv, ScanInv
  <2>5. NoRegisterLost'
    <3>1. \A r : Held(r)' = Held(r)
      BY <2>1 DEF Held
    <3> QED
      BY <2>1, <3>1 DEF IInv, NoRegisterLost
  <2>6. Len(code)' \in Nat => EndInv' /\ RegisterReuse'
    BY <2>1, <2>2, <2>3 DEF IInv, EndInv, RegisterReuse
  <2> QED
    BY <2>4, <2>5, <2>6 DEF IInv
<1> QED
  BY <1>1, <1>2, <1>3

(* The invariant holds throughout. *)
LEMMA Invariance == Spec => []IInv
<1>1. IInv /\ [Next]_vars => IInv'
  BY StartStep, ExpireStep, AllocateStep, SpillStep, OtherStep DEF Next
<1> QED
  BY InvInit, <1>1, PTL DEF Spec

-----------------------------------------------------------------------------
(* In no round of the allocator does a register leave the lists for good,  *)
(* and until the scan fails each is free or held by one active interval.   *)
THEOREM NoneLost == Spec => []NoRegisterLost
<1>1. IInv => NoRegisterLost
  BY DEF IInv
<1> QED
  BY Invariance, <1>1, PTL

(* In the round that succeeds every interval has a register of its class,  *)
(* and two intervals share one only if the first has ended before the      *)
(* second starts.  The hypothesis, that the code still is a sequence after *)
(* genSpillCode has sorted in its loads and stores, is what the provers    *)
(* cannot see of SortSeq.                                                  *)
THEOREM SharedInTurn == Spec => [](Len(code) \in Nat => RegisterReuse)
<1>1. IInv => (Len(code) \in Nat => RegisterReuse)
  BY DEF IInv
<1> QED
  BY Invariance, <1>1, PTL
==============================================================================

------------------------------- MODULE GraphColor -------------------------------
(***************************************************************************)
(* The allocator of "-O", src/src/GraphColor.cpp, whole: webs from the     *)
(* definitions that reach a use, interference, copies coalesced, spill     *)
(* costs by depth of loops, the graph pruned and coloured, spill code, and *)
(* again until every web has a register.  Webs and ColorGraph have the     *)
(* parts of it that are proved about, with any webs and any graph.          *)
(*                                                                         *)
(* A place is an operand of an instruction; places, and webs, which have   *)
(* the number of their first definition, are numbered in the order of the  *)
(* code.  The code orders webs by the addresses of operands instead, which *)
(* decides ties only.  The registers themselves are the numbers below 0.   *)
(***************************************************************************)
EXTENDS MachineOptimizer

CONSTANT MaxRounds      \* bound on the rounds of spilling

RegNum  == 11
FRegNum == 32
IsParamPlace(p) == p < 100

(* The number of operand n of instruction k of block b, a definition if n   *)
(* is negative.                                                            *)
PlaceOf(m, b, k, n) == 20 * (1000 * PosOf(m.list, b) + k) + IF n < 0 THEN -n ELSE 10 + n
NeedColor(o) == IsVReg(o) \/ (o[1] = "r" /\ (o[2] < RegNum \/ o[2] >= S0))
DefPlaces(m, b, k) ==
  LET ds == m.code[b][k].def
  IN  {<<ds[n], PlaceOf(m, b, k, -n)>> : n \in {n \in DOMAIN ds : NeedColor(ds[n])}}
UsePlaces(m, b, k) ==
  LET us == m.code[b][k].use
  IN  {<<Home(us[n]), PlaceOf(m, b, k, n)>> : n \in {n \in DOMAIN us : NeedColor(Home(us[n]))}}
AllPlaces(m, Of(_, _, _)) == UNION {UNION {Of(m, b, k) : k \in DOMAIN m.code[b]} : b \in ToSet(m.list)}

-----------------------------------------------------------------------------
(* ReachDefAnalysis: the definitions that reach a point.  Those of the      *)
(* parameters start at the end of the entry and are never killed.          *)
ReachAfter(m, b, k, in) ==
  {d \in in : IsParamPlace(d[2]) \/ d[1] \notin Defines(m.code[b][k])} \cup DefPlaces(m, b, k)
DefOut(m, b, in) == ForEach(LAMBDA s, k : ReachAfter(m, b, k, s), in, Indices(m.code[b]))
ParamDefs(m)  == {<<Reg(k - 1), k>> : k \in 1 .. IF m.args < 4 THEN m.args ELSE 4}
RECURSIVE DefIns(_, _)
DefIns(m, in) ==
  LET Out(b) == DefOut(m, b, in[b]) \cup IF b = m.entry THEN ParamDefs(m) ELSE {}
      out    == [b \in DOMAIN in |-> Out(b)]
      next   == [b \in DOMAIN in |-> IF b = m.entry THEN {} ELSE UNION {out[p] : p \in ToSet(m.pred[b])}]
  IN  IF next = in THEN in ELSE DefIns(m, next)

(* makeDuChains: place of a use -> the places of the definitions it may     *)
(* read, itself if there are none.                                         *)
Reads1(uses, reach) ==
  [p \in {u[2] : u \in uses} |->
     LET o  == (CHOOSE u \in uses : u[2] = p)[1]
         ds == {d[2] : d \in {d \in reach : d[1] = o}}
     IN  IF ds = {} THEN {p} ELSE ds]
ChainsOf(m, b, in) ==
  ForEach(LAMBDA s, k : [at |-> Reads1(UsePlaces(m, b, k), s.reach) @@ s.at, reach |-> ReachAfter(m, b, k, s.reach)],
          [at |-> [p \in {} |-> {}], reach |-> in], Indices(m.code[b])).at
DuChains(m) ==
  LET in == DefIns(m, [b \in ToSet(m.list) |-> {}])
  IN  ForEach(LAMBDA at, b : ChainsOf(m, b, in[b]) @@ at, [p \in {} |-> {}], m.list)

(* makeWebs: definitions that share a use are in one web; place -> web.    *)
Joined(of, ds) ==
  LET ws == {of[d] : d \in ds} IN [p \in {p \in DOMAIN of : of[p] \in ws} |-> Min(ws)] @@ of
WebOf(m) ==
  LET reads == DuChains(m)
      defs  == {d[2] : d \in AllPlaces(m, DefPlaces)} \cup UNION {reads[p] : p \in DOMAIN reads}
      of    == ForEach(LAMBDA g, p : Joined(g, reads[p]), [d \in defs |-> d],
                       Sorted({p \in DOMAIN reads : Cardinality(reads[p]) > 1}))
  IN  [p \in DOMAIN reads |-> of[CHOOSE d \in reads[p] : TRUE]] @@ of

-----------------------------------------------------------------------------
(* The graph: of (place -> web), at (web -> its operand), count (web ->     *)
(* how many definitions), adj (web -> the webs it interferes with).        *)
Webs0(g)     == DOMAIN g.adj
IsBound(g, w) == ~IsVReg(g.at[w])
OperandsAt(m) ==
  LET ps == AllPlaces(m, DefPlaces) \cup AllPlaces(m, UsePlaces) \cup ParamDefs(m)
  IN  [p \in {q[2] : q \in ps} |-> (CHOOSE q \in ps : q[2] = p)[1]]
(* Where an operand is defined, what was live behind the instruction and   *)
(* is not set by a definition in front of it.                              *)
Conflicts(m, of, b, k, after) ==
  LET ds == m.code[b][k].def
      Others(n) == {of[PlaceOf(m, u[2][1], u[2][2], u[2][3])] :
                      u \in {v \in after : NeedColor(v[1]) /\ ~\E j \in 1 .. n - 1 : ds[j] = v[1]}}
  IN  UNION {{<<of[PlaceOf(m, b, k, -n)], w>> : w \in Others(n)} : n \in {n \in DOMAIN ds : NeedColor(ds[n])}}
(* Bug: what is live at the end of a block is forgotten. *)
MakeMatrixInBlocks(m, of) ==
  LET InBlock(b) == LET live == LiveSets(m, b, {})
                    IN  UNION {Conflicts(m, of, b, k, live[k + 1]) : k \in DOMAIN m.code[b]}
      edges == UNION {InBlock(b) : b \in ToSet(m.list)}
  IN  [w \in {of[p] : p \in DOMAIN of} |->
         ({e[2] : e \in {e \in edges : e[1] = w}} \cup {e[1] : e \in {e \in edges : e[2] = w}}) \ {w}]

MakeMatrix(m, of) ==
  LET out   == LiveOut(m)
      InBlock(b) == LET live == LiveSets(m, b, out[b])
                    IN  UNION {Conflicts(m, of, b, k, live[k + 1]) : k \in DOMAIN m.code[b]}
      edges == UNION {InBlock(b) : b \in ToSet(m.list)}
  IN  [w \in {of[p] : p \in DOMAIN of} |->
         ({e[2] : e \in {e \in edges : e[1] = w}} \cup {e[1] : e \in {e \in edges : e[2] = w}}) \ {w}]
GraphOf(of, adj, ops, defs) ==
  [of |-> of, adj |-> adj, at |-> [w \in DOMAIN adj |-> ops[w]],
   count |-> [w \in DOMAIN adj |-> Cardinality({p \in DOMAIN of : of[p] = w /\ p \in defs \cup {w}})]]
GraphOn(m, of) == GraphOf(of, MakeMatrix(m, of), OperandsAt(m), {d[2] : d \in AllPlaces(m, DefPlaces)})
Graph(m)       == GraphOn(m, WebOf(m))

-----------------------------------------------------------------------------
(* coalesceRegs: the one definition of a web that copies another web,      *)
(* which is not needed besides it; the copy's places become the other's.   *)
AddsZero(in) == in.op \in {"add", "vadd"} /\ in.def[1] # Reg(SP) /\ \E n \in DOMAIN in.use : in.use[n] = Imm(0)
IsCopyIns(in) ==
  IsMov(in) \/ (in.op = "vmov" /\ IsFloatOp(in.def[1]) /\ IsFloatOp(in.use[1])) \/ AddsZero(in)
CopyTo1(g, u, v) ==
  [g EXCEPT !.of = [p \in DOMAIN @ |-> IF @[p] = u THEN v ELSE @[p]],
            !.count[v] = @ + 1,
            !.adj = [w \in DOMAIN @ |->
                       CASE w \in {u, v} -> (@[u] \cup @[v]) \ {w}
                         [] w \notin {u, v} /\ @[w] \cap {u, v} # {} -> @[w] \cup {u, v}
                         [] OTHER -> @[w]]]
CoalesceAt(m, g, b, k) ==
  LET in == m.code[b][k]
      u  == g.of[PlaceOf(m, b, k, -1)]
      v  == g.of[PlaceOf(m, b, k, 1)]
  IN  IF /\ IsCopyIns(in) /\ IsVReg(in.def[1]) /\ IsVReg(in.use[1])
         /\ g.count[u] = 1 /\ v \notin g.adj[u]
      THEN [CopyTo1(g, u, v) EXCEPT !.gone = @ \cup {<<b, k>>}] ELSE g
(* The places of a web get its operand.                                    *)
Renamed(m, g, b, k) ==
  LET Named(p, o) == IF NeedColor(Home(o)) THEN (IF IsVReg(o) THEN g.at[g.of[p]] ELSE o) ELSE o
  IN  [m.code[b][k] EXCEPT !.def = [n \in DOMAIN @ |-> Named(PlaceOf(m, b, k, -n), @[n])],
                           !.use = [n \in DOMAIN @ |-> Named(PlaceOf(m, b, k, n), @[n])]]
Coalesced(m, g) ==
  LET Kept(b) == SelectSeq(Indices(m.code[b]), LAMBDA k : <<b, k>> \notin g.gone)
  IN  [m EXCEPT !.code = [b \in ToSet(m.list) |-> Each(LAMBDA k : Renamed(m, g, b, k), Kept(b))]]
CoalesceRegs(m, g) ==
  ForEach(LAMBDA h, b : ForEach(LAMBDA i, k : CoalesceAt(m, i, b, k), h, Indices(m.code[b])),
          [gone |-> {}] @@ g, m.list)
(* The inner loop: webs and matrix anew until no copy goes.                *)
RECURSIVE Settle(_)
Settle(m) ==
  LET g == CoalesceRegs(m, Graph(m))
  IN  IF g.gone = {} THEN <<m, g>> ELSE Settle(Coalesced(m, g))

-----------------------------------------------------------------------------
(* ControlFlowAnalysis: how many natural loops, one for each edge back, a  *)
(* block is in.                                                            *)
RECURSIVE Explore(_, _, _)
Explore(m, s, b) ==
  LET Edge(t, c) == CASE c \notin t.seen -> Explore(m, t, c)
                      [] c \in t.seen \ t.done -> [t EXCEPT !.back = @ \cup {<<b, c>>}]
                      [] OTHER -> t
  IN  [ForEach(Edge, [s EXCEPT !.seen = @ \cup {b}], m.succ[b]) EXCEPT !.done = @ \cup {b}]
RECURSIVE LoopFrom(_, _, _)
LoopFrom(m, loop, head) ==
  LET more == loop \cup UNION {ToSet(m.pred[b]) : b \in loop \ {head}}
  IN  IF more = loop THEN loop ELSE LoopFrom(m, more, head)
LoopDepth(m) ==
  LET back == Explore(m, [seen |-> {}, done |-> {}, back |-> {}], m.entry).back
  IN  [b \in ToSet(m.list) |-> Cardinality({e \in back : b \in LoopFrom(m, {e[1], e[2]}, e[2])})]

(* computeSpillCost: 2 for a definition and 4 for a use, one less in a      *)
(* copy, ten times as much in a loop.                                      *)
DefWeight  == 2
UseWeight  == 4
CopyWeight == 1
SpillCost(m, g) ==
  LET depth == LoopDepth(m)
      AtPlace(c, p, k) == [c EXCEPT ![g.of[p]] = @ + k]
      AtIns(c, b, k) ==
        LET in   == m.code[b][k]
            less == Bool(IsCopyIns(in))
            ns   == Indices(in.def) IN
        LET defs == ForEach(LAMBDA d, n : IF IsVReg(in.def[n]) THEN AtPlace(d, PlaceOf(m, b, k, -n), 10 ^ depth[b] * (DefWeight - less * CopyWeight)) ELSE d,
                            c, ns)
        IN  ForEach(LAMBDA d, n : IF IsVReg(in.use[n]) THEN AtPlace(d, PlaceOf(m, b, k, n), 10 ^ depth[b] * (UseWeight - less * CopyWeight)) ELSE d,
                    defs, Indices(in.use))
  IN  ForEach(LAMBDA c, b : ForEach(LAMBDA d, k : AtIns(d, b, k), c, Indices(m.code[b])),
              [w \in Webs0(g) |-> 0], m.list)

-----------------------------------------------------------------------------
(* pruneGraph: list is what is left of the graph.  Registers and webs bound *)
(* to one stay, at a cost no web reaches; they have their color.           *)
Forbidden   == {-28, -29, -30, -31}
Neighbours(g, w) == g.adj[w] \cup IF IsFloatOp(g.at[w]) THEN Forbidden ELSE {}
Colors(g, w) == IF IsFloatOp(g.at[w]) THEN S0 .. S0 + FRegNum - 1 ELSE 0 .. RegNum - 1
Prune(s, w) ==
  LET cut   == [v \in DOMAIN s.list |-> IF v = w THEN {} ELSE s.list[v] \ {w}]
      empty == {v \in s.list[w] \cap DOMAIN s.list : cut[v] = {}}
  IN  [stk |-> s.stk \o <<w>> \o Sorted(empty), list |-> cut]
RECURSIVE PruneEasy(_, _, _)
PruneEasy(g, ws, s) ==
  LET Easy(t, w) == IF t.list[w] # {} /\ Cardinality(t.list[w]) < Cardinality(Colors(g, w)) THEN Prune(t, w) ELSE t
      next == ForEach(Easy, s, ws)
  IN  IF next = s THEN s ELSE PruneEasy(g, ws, next)
RECURSIVE PruneHard(_, _, _)
PruneHard(cost, ws, s) ==
  LET left == SelectSeq(ws, LAMBDA w : s.list[w] # {})
      Cheaper(v, w) == cost[w] * Cardinality(s.list[v]) < cost[v] * Cardinality(s.list[w])
      least == ForEach(LAMBDA v, w : IF Cheaper(v, w) THEN w ELSE v, left[1], left)
  IN  IF left = <<>> THEN s ELSE PruneHard(cost, ws, Prune(s, least))
(* Free webs of the pruned graph, the last one pruned first.               *)
PruneGraph(g, cost) ==
  LET ws   == Sorted({w \in Webs0(g) : ~IsBound(g, w)})
      all  == [w \in Webs0(g) |-> Neighbours(g, w)]
      lone == [stk |-> SelectSeq(ws, LAMBDA w : all[w] = {}), list |-> all]
      easy == PruneEasy(g, ws, lone)
  IN  SelectSeq(Reverse(PruneHard(cost, ws, easy).stk), LAMBDA w : ~IsBound(g, w))

(* assignRegs: the least color no neighbour has; 99 is none.               *)
NoColor == 99
ColorOf(color, v) == IF v < 0 THEN -v ELSE color[v]
AssignColor(g, color, w) ==
  LET free == Colors(g, w) \ {ColorOf(color, v) : v \in {v \in Neighbours(g, w) : v < 0 \/ v \in DOMAIN color}}
  IN  (w :> IF free = {} THEN NoColor ELSE Min(free)) @@ color
AssignRegs(g, order) ==
  ForEach(LAMBDA c, w : AssignColor(g, c, w), [w \in {v \in Webs0(g) : IsBound(g, v)} |-> g.at[w][2]], order)
(* Two webs bound to one register that interfere get none, nor do they     *)
(* when they are stored.                                                   *)
Clash(g) == \E w \in Webs0(g) : IsBound(g, w) /\ \E v \in g.adj[w] : g.at[v] = g.at[w]

-----------------------------------------------------------------------------
(* genSpillCode: a web lives on the stack, loaded in front of each use and  *)
(* stored behind each definition.                                          *)
IsFar(off) == Outside(Imm(off))
FarOffset(m, off) == IF IsFar(off) THEN <<Ldr(NewReg(m), <<Imm(off)>>)>> ELSE <<>>
FarFloat(m, off, o) ==
  IF IsFar(off) /\ IsFloatOp(o) THEN <<Op("add", T(-(m.fresh + 2)), <<Reg(FP), NewReg(m)>>)>> ELSE <<>>
SpillAddress(m, off, o) ==
  CASE ~IsFar(off) -> <<Reg(FP), Imm(off)>>
    [] IsFar(off) /\ IsFloatOp(o) -> <<T(-(m.fresh + 2))>>
    [] OTHER -> <<Reg(FP), NewReg(m)>>
SpillLoad(m, off, o)  == FarOffset(m, off) \o FarFloat(m, off, o) \o <<Ldr(o, SpillAddress(m, off, o))>>
SpillStore(m, off, o) == FarOffset(m, off) \o FarFloat(m, off, o) \o <<StrM(o, SpillAddress(m, off, o))>>
SpillPlace(s, p, off, g) ==
  LET o == g.at[g.of[p[3]]]
  IN  CASE p[4] > 0 -> [s EXCEPT !.m.fresh = @ + 2, !.new[<<p[1], p[2]>>][1] = @ \o SpillLoad(s.m, off, o)]
        [] p[4] < 0 -> [s EXCEPT !.m.fresh = @ + 2, !.new[<<p[1], p[2]>>][2] = SpillStore(s.m, off, o) \o @]
PlacesIn(m, b, k, g, w) ==
  LET in == m.code[b][k]
      ns == [j \in 1 .. Len(in.use) |-> j] \o [j \in 1 .. Len(in.def) |-> -j]
      Operand(n) == IF n < 0 THEN in.def[-n] ELSE in.use[n]
  IN  Each(LAMBDA n : <<b, k, PlaceOf(m, b, k, n), n>>,
           SelectSeq(ns, LAMBDA n : IsVReg(Operand(n)) /\ g.of[PlaceOf(m, b, k, n)] = w))
SpillWeb(s, g, w) ==
  LET grown == [s EXCEPT !.m.frame = @ + WordBytes]
      ps    == FlattenSeq(Each(LAMBDA b : FlattenSeq(Each(LAMBDA k : PlacesIn(s.m, b, k, g, w), Indices(s.m.code[b]))), s.m.list))
  IN  ForEach(LAMBDA t, p : SpillPlace(t, p, -grown.m.frame, g), grown, ps)
GenSpillCode(m, g, ws) ==
  LET at   == UNION {{<<b, k>> : k \in DOMAIN m.code[b]} : b \in ToSet(m.list)}
      done == ForEach(LAMBDA s, w : SpillWeb(s, g, w), [m |-> m, new |-> [x \in at |-> <<<<>>, <<>>>>]], ws)
      Woven(b) == FlattenSeq([k \in DOMAIN m.code[b] |->
                    done.new[<<b, k>>][1] \o <<m.code[b][k]>> \o done.new[<<b, k>>][2]])
  IN  [done.m EXCEPT !.code = [b \in ToSet(m.list) |-> Woven(b)]]

(* modifyCode: registers for operands, and copies to themselves dropped.   *)
Colored(m, g, color, b, k) ==
  LET Register(p, o) == IF IsVReg(o) THEN Reg(color[g.of[p]]) ELSE o
  IN  [m.code[b][k] EXCEPT !.def = [n \in DOMAIN @ |-> Register(PlaceOf(m, b, k, -n), @[n])],
                           !.use = [n \in DOMAIN @ |-> Register(PlaceOf(m, b, k, n), @[n])]]
IsSelfCopy(in) ==
  IsCopyIns(in) /\ in.def[1] = in.use[1] /\ ~IsOnStack(in.use[1])
GiveColors(m, g, color) ==
  LET used == {color[w] : w \in Webs0(g)}
      code == [b \in ToSet(m.list) |-> Each(LAMBDA k : Colored(m, g, color, b, k), Indices(m.code[b]))]
  IN  [m EXCEPT !.code = [b \in DOMAIN code |-> SelectSeq(code[b], LAMBDA in : ~IsSelfCopy(in))],
                !.saved = UNION {WithPartner(r) : r \in {r \in used : r > 3 /\ r < S0}},
                !.floats = {r \in used : r >= S0}]

Coloring(m, g)  == AssignRegs(g, PruneGraph(g, SpillCost(m, g)))
Spilled(color)  == Sorted({w \in DOMAIN color : color[w] = NoColor})
RECURSIVE AllocateRounds(_, _)
AllocateRounds(settled, round) ==
  LET m     == settled[1]
      g     == settled[2]
      color == Coloring(m, g)
  IN  CASE Clash(g) \/ round = MaxRounds -> [m EXCEPT !.fits = FALSE]
        [] ~Clash(g) /\ round < MaxRounds /\ Spilled(color) = <<>> -> GiveColors(m, g, color)
        [] OTHER -> AllocateRounds(Settle(GenSpillCode(m, g, Spilled(color))), round + 1)
AllocateRegisters(m) == AllocateRounds(Settle(m @@ [saved |-> {}, floats |-> {}, fits |-> TRUE]), 0)
=============================================================================

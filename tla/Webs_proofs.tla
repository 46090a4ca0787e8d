----------------------------- MODULE Webs_proofs -----------------------------
(* That merging the webs is right for any du-chains: nothing is lost while *)
(* it goes on, nothing unconnected is merged, and at the end the number of *)
(* an operand tells exactly what it is connected to.                       *)
EXTENDS Webs, FiniteSetTheorems, TLAPS

LEMMA InitInv == Init => IInv
<1> SUFFICES ASSUME Init PROVE IInv
  OBVIOUS
<1> USE NAssumption, ChainsAssumption, RegistersAssumption DEF Init, Web, Def
<1>1. ShapeInv
  BY DEF ShapeInv
<1>2. NothingLost
  BY DEF NothingLost
<1>3. OnlyConnected
  <2>1. ASSUME NEW S \in SUBSET Def, NEW w \in Web
        PROVE  defs[w] \subseteq S \/ defs[w] \cap S = {}
    OBVIOUS
  <2>2. ASSUME NEW w \in Web PROVE uses[w] = {u \in Use : \E d \in defs[w] : u \in chain[d]}
    OBVIOUS
  <2> QED BY <2>1, <2>2 DEF OnlyConnected
<1>4. StillToMeet(i, j) /\ NothingAlike(i, j)
  BY DEF StillToMeet, NothingAlike
<1> QED BY <1>1, <1>2, <1>3, <1>4 DEF IInv, NumbersAreWebs

(* The pair after (i, j) is one step further, or starts the next row.      *)
LEMMA AdvanceFacts ==
  ASSUME ShapeInv, Advance, j =< N
  PROVE  /\ i' \in 1 .. N /\ j' \in 2 .. N + 1 /\ i' < j' /\ (j' = N + 1 => i' = N)
         /\ (i' = i /\ j' = j + 1) \/ (j = N /\ i' = i + 1 /\ j' = i + 2)
BY NAssumption DEF ShapeInv, Advance

(* Once the pair <<k, l>> is dealt with, what holds of the pairs after it  *)
(* in the row of k is what the loops need of the next pair.                *)
LEMMA NextPair ==
  ASSUME ShapeInv, Advance, j =< N, temp' = temp, NEW k, NEW l, k = i, l = j,
         StillToMeet(k, l + 1)'
  PROVE  StillToMeet(i, j)'
<1> temp \subseteq 1 .. N /\ k \in 1 .. N /\ l \in 2 .. N + 1 /\ N \in Nat
  BY NAssumption DEF ShapeInv, Web
<1>1. CASE i' = i /\ j' = j + 1
  BY <1>1 DEF StillToMeet
<1>2. CASE j = N /\ i' = i + 1 /\ j' = i + 2
  <2>1. \A a, b \in temp' :
          ~(k < a /\ a < b /\ a \notin webs' /\ b \in webs' /\ Alike(a, b)')
    <3> SUFFICES ASSUME NEW a \in temp', NEW b \in temp', k < a, a < b, a \notin webs', b \in webs', Alike(a, b)'
                 PROVE  FALSE
      OBVIOUS
    <3>1. l + 1 =< b
      BY DEF StillToMeet, Alike
    <3> QED BY <1>2, <3>1
  <2>2. ASSUME NEW a \in temp', NEW b \in temp', i' < a, a < b, a \notin webs', b \in webs',
               Alike(a, b)'
        PROVE  FALSE
    <3>1. k < a
      BY <1>2, <2>2
    <3> QED BY <2>1, <2>2, <3>1
  <2>3. ASSUME i' \in temp' \ webs', NEW b \in temp', j' =< b, Alike(i, b)'
        PROVE  b \notin webs'
    <3>1. k < i' /\ i' < b
      BY <1>2, <2>3, AdvanceFacts
    <3>2. Alike(i, b)' = (register'[i'] = register'[b] /\ uses'[i'] \cap uses'[b] # {})
      BY DEF Alike
    <3>3. i' \in temp' /\ i' \notin webs'
      BY <2>3
    <3>4. \A a \in temp' : k < a /\ a < b /\ a \notin webs' /\ register'[a] = register'[b]
             /\ uses'[a] \cap uses'[b] # {} => b \notin webs'
      BY <2>1 DEF Alike
    <3> QED BY <2>3, <3>1, <3>2, <3>3, <3>4
  <2> QED BY <2>2, <2>3 DEF StillToMeet
<1> QED BY <1>1, <1>2, AdvanceFacts

LEMMA NextNothingAlike ==
  ASSUME ShapeInv, Advance, j =< N, temp' = temp, NEW k, NEW l, k = i, l = j,
         NothingAlike(k, l + 1)'
  PROVE  NothingAlike(i, j)'
<1> temp \subseteq 1 .. N /\ k \in 1 .. N /\ l \in 2 .. N + 1 /\ N \in Nat
  BY NAssumption DEF ShapeInv, Web
<1>1. CASE i' = i /\ j' = j + 1
  BY <1>1 DEF NothingAlike
<1>2. CASE j = N /\ i' = i + 1 /\ j' = i + 2
  <2>1. ASSUME NEW a \in temp', NEW b \in temp', a < b, a < i' \/ (a = i' /\ b < j')
        PROVE  a < k \/ (a = k /\ b < l + 1)
    BY <1>2, <2>1
  <2> QED BY <2>1 DEF NothingAlike
<1> QED BY <1>1, <1>2, AdvanceFacts

-----------------------------------------------------------------------------
(* Merging i with j.                                                       *)
LEMMA MergeRow ==
  ASSUME ShapeInv, MergePair, NEW k, NEW l, k = i, l = j, StillToMeet(k, l)
  PROVE  /\ StillToMeet(k, l + 1)'
         /\ l \in webs => k \in webs
<1> temp \subseteq 1 .. N /\ k \in 1 .. N /\ l \in 2 .. N + 1 /\ k < l /\ N \in Nat /\ webs \subseteq temp
  BY NAssumption DEF ShapeInv, Web
<1>1. /\ k \in temp /\ l \in temp /\ register[k] = register[l] /\ uses[k] \cap uses[l] # {}
      /\ webs' = webs \ {l} /\ temp' = temp /\ register' = register
      /\ uses \in [Web -> SUBSET Use]
      /\ uses' = [uses EXCEPT ![k] = @ \cup uses[l]]
  BY DEF MergePair, Mergeable, Alike, Absorb, input, ShapeInv
<1>2. /\ uses'[k] = uses[k] \cup uses[l]
      /\ \A a \in temp : a # k => uses'[a] = uses[a]
  BY <1>1 DEF Web
<1>3. l \in webs => k \in webs
  BY <1>1 DEF StillToMeet, Alike
<1>4. ASSUME NEW a \in temp, NEW b \in temp, k < a, a < b, a \notin webs', b \in webs', Alike(a, b)'
      PROVE  /\ k \in webs' /\ register'[k] = register'[a] /\ uses'[a] \subseteq uses'[k]
             /\ a < l + 1 /\ l + 1 =< b
  <2>1. Alike(a, b) /\ b \in webs /\ b # l
    BY <1>1, <1>2, <1>4 DEF Alike
  <2>2. CASE a = l /\ l \in webs
    BY <1>1, <1>2, <1>3, <2>2, <1>4
  <2>3. CASE a \notin webs
    <3>1. k \in webs /\ register[k] = register[a] /\ uses[a] \subseteq uses[k] /\ a < l /\ l =< b
      BY <2>1, <2>3, <1>4 DEF StillToMeet
    <3> QED BY <1>1, <1>2, <2>1, <3>1, <1>4
  <2> QED BY <1>1, <1>4, <2>2, <2>3
<1>5. ASSUME k \in temp \ webs', NEW b \in temp, l + 1 =< b, Alike(k, b)'
      PROVE  b \notin webs'
  <2>1. k \notin webs
    BY <1>1, <1>5
  <2>2. b # l /\ b # k /\ l < b
    BY <1>5
  <2>3. CASE uses[k] \cap uses[b] # {}
    <3>1. b \notin webs
      BY <1>1, <1>5, <2>1, <2>2, <2>3 DEF StillToMeet, Alike
    <3> QED BY <1>1, <3>1
  <2>4. CASE uses[l] \cap uses[b] # {}
    <3>1. l \notin webs
      BY <1>3, <2>1
    <3>2. register[l] = register[b]
      BY <1>1, <1>5 DEF Alike
    <3>3. b \notin webs
      BY <1>1, <2>1, <2>2, <2>4, <3>1, <3>2 DEF StillToMeet, Alike
    <3> QED BY <1>1, <3>3
  <2>5. uses[k] \cap uses[b] # {} \/ uses[l] \cap uses[b] # {}
    BY <1>2, <1>5, <2>2 DEF Alike
  <2> QED BY <2>3, <2>4, <2>5
<1>6. StillToMeet(k, l + 1)'
  <2>1. temp' = temp
    BY <1>1
  <2> QED BY <1>4, <1>5, <2>1 DEF StillToMeet
<1> QED BY <1>3, <1>6

LEMMA PassRow ==
  ASSUME ShapeInv, PassPair, NEW k, NEW l, k = i, l = j, StillToMeet(k, l)
  PROVE  StillToMeet(k, l + 1)'
<1> temp \subseteq 1 .. N /\ k \in 1 .. N /\ l \in 2 .. N + 1 /\ k < l /\ N \in Nat /\ webs \subseteq temp
  BY NAssumption DEF ShapeInv, Web
<1>1. webs' = webs /\ temp' = temp /\ register' = register /\ uses' = uses
  BY DEF PassPair, input
<1>2. ~(k \in temp /\ l \in temp /\ Alike(k, l))
  BY DEF PassPair, Mergeable
<1>3. ASSUME NEW a \in temp, NEW b \in temp, k < a, a < b, a \notin webs, b \in webs, Alike(a, b)
      PROVE  /\ k \in webs /\ register[k] = register[a] /\ uses[a] \subseteq uses[k]
             /\ a < l + 1 /\ l + 1 =< b
  <2>1. k \in webs /\ register[k] = register[a] /\ uses[a] \subseteq uses[k] /\ a < l /\ l =< b
    BY <1>3 DEF StillToMeet
  <2>2. b # l
    BY <1>2, <1>3, <2>1 DEF Alike
  <2> QED BY <2>1, <2>2
<1>4. ASSUME k \in temp \ webs, NEW b \in temp, l + 1 =< b, Alike(k, b)
      PROVE  b \notin webs
  <2>1. l =< b
    BY <1>4
  <2> QED BY <1>4, <2>1 DEF StillToMeet, Alike
<1>5. \A a, b : Alike(a, b)' = Alike(a, b)
  BY <1>1 DEF Alike
<1> QED BY <1>1, <1>3, <1>4, <1>5 DEF StillToMeet

LEMMA PassNothingAlike ==
  ASSUME ShapeInv, PassPair, NEW k, NEW l, k = i, l = j, NothingAlike(k, l)
  PROVE  NothingAlike(k, l + 1)'
<1> temp \subseteq 1 .. N /\ k \in 1 .. N /\ l \in 2 .. N + 1 /\ k < l /\ N \in Nat
  BY NAssumption DEF ShapeInv, Web
<1>1. webs' = webs /\ temp' = temp /\ register' = register /\ uses' = uses
  BY DEF PassPair, input
<1>2. ~(k \in temp /\ l \in temp /\ Alike(k, l))
  BY DEF PassPair, Mergeable
<1>3. \A a, b \in temp : a < b /\ (a < k \/ (a = k /\ b < l + 1)) => ~Alike(a, b)
  BY <1>2 DEF NothingAlike
<1>4. \A a, b : Alike(a, b)' = Alike(a, b)
  BY <1>1 DEF Alike
<1> QED BY <1>1, <1>3, <1>4 DEF NothingAlike

(* What a merge does to the webs: those of the pair are alike, so any      *)
(* closed set that meets one of them holds both.                           *)
LEMMA MergeKeepsConnected ==
  ASSUME ShapeInv, OnlyConnected, MergePair
  PROVE  OnlyConnected'
<1>1. /\ i \in Web /\ j \in Web /\ i # j /\ uses[i] \cap uses[j] # {}
      /\ defs \in [Web -> SUBSET Def] /\ uses \in [Web -> SUBSET Use]
      /\ defs' = [defs EXCEPT ![i] = @ \cup defs[j]]
      /\ uses' = [uses EXCEPT ![i] = @ \cup uses[j]]
      /\ chain' = chain
  BY NAssumption DEF ShapeInv, MergePair, Mergeable, Alike, Absorb, input, Web
<1>2. /\ defs'[i] = defs[i] \cup defs[j] /\ uses'[i] = uses[i] \cup uses[j]
      /\ \A w \in Web : w # i => defs'[w] = defs[w] /\ uses'[w] = uses[w]
  BY <1>1
<1>3. \A w \in Web : uses[w] = {u \in Use : \E d \in defs[w] : u \in chain[d]}
  BY DEF OnlyConnected
<1>4. ASSUME NEW S \in SUBSET Def, Closed(S)', NEW w \in Web
      PROVE  defs'[w] \subseteq S \/ defs'[w] \cap S = {}
  <2>1. Closed(S)
    BY <1>1, <1>4 DEF Closed
  <2>2. \A x \in Web : defs[x] \subseteq S \/ defs[x] \cap S = {}
    BY <2>1 DEF OnlyConnected
  <2>3. CASE w # i
    BY <1>2, <2>2, <2>3
  <2>4. CASE w = i
    <3>1. PICK u : u \in uses[i] /\ u \in uses[j]
      BY <1>1
    <3>2. PICK d \in defs[i] : u \in chain[d]
      BY <1>1, <1>3, <3>1
    <3>3. PICK e \in defs[j] : u \in chain[e]
      BY <1>1, <1>3, <3>1
    <3>4. d \in Def /\ e \in Def /\ chain[d] \cap chain[e] # {} /\ chain[e] \cap chain[d] # {}
      BY <1>1, <3>2, <3>3
    <3>5. d \in S <=> e \in S
      BY <2>1, <3>4 DEF Closed
    <3> QED BY <1>1, <1>2, <2>2, <2>4, <3>2, <3>3, <3>5
  <2> QED BY <2>3, <2>4
<1>5. ASSUME NEW w \in Web
      PROVE  uses'[w] = {u \in Use : \E d \in defs'[w] : u \in chain'[d]}
  <2>1. CASE w # i
    BY <1>1, <1>2, <1>3, <2>1
  <2>2. CASE w = i
    BY <1>1, <1>2, <1>3, <2>2
  <2> QED BY <2>1, <2>2
<1> QED BY <1>4, <1>5 DEF OnlyConnected

LEMMA MergeStep == IInv /\ MergePair => IInv'
<1> SUFFICES ASSUME IInv, MergePair PROVE IInv'
  OBVIOUS
<1>1. /\ j =< N /\ Advance /\ pc = "merge" /\ pc' = pc /\ again' = TRUE
      /\ webs' = webs \ {j} /\ temp' = temp /\ chain' = chain /\ register' = register
      /\ ShapeInv /\ NothingLost /\ OnlyConnected /\ StillToMeet(i, j)
  BY DEF IInv, MergePair, input
<1>2. /\ i \in Web /\ j \in Web /\ i # j /\ register[i] = register[j]
      /\ defs \in [Web -> SUBSET Def] /\ uses \in [Web -> SUBSET Use]
      /\ defs' = [defs EXCEPT ![i] = @ \cup defs[j]]
      /\ uses' = [uses EXCEPT ![i] = @ \cup uses[j]]
  BY <1>1, NAssumption DEF ShapeInv, MergePair, Mergeable, Alike, Absorb, Web
<1>3. /\ defs'[i] = defs[i] \cup defs[j] /\ uses'[i] = uses[i] \cup uses[j]
      /\ \A w \in Web : w # i => defs'[w] = defs[w] /\ uses'[w] = uses[w]
  BY <1>2
<1>4. ShapeInv'
  <2>1. defs' \in [Web -> SUBSET Def] /\ uses' \in [Web -> SUBSET Use]
    BY <1>2
  <2>2. webs' \subseteq temp' /\ temp' \subseteq Web
    BY <1>1 DEF ShapeInv
  <2>3. ASSUME NEW w \in Web
        PROVE  w \in defs'[w] /\ \A d \in defs'[w] : register'[d] = register'[w]
    BY <1>1, <1>2, <1>3 DEF ShapeInv
  <2>4. i' \in 1 .. N /\ j' \in 2 .. N + 1 /\ i' < j' /\ (j' = N + 1 => i' = N)
    BY <1>1, AdvanceFacts
  <2>5. chain' \in [Def -> SUBSET Use]
        /\ \A d, e \in Def : register'[d] # register'[e] => chain'[d] \cap chain'[e] = {}
    BY <1>1 DEF ShapeInv
  <2> QED BY <2>1, <2>2, <2>3, <2>4, <2>5 DEF ShapeInv
<1>5. StillToMeet(i, j)' /\ (j \in webs => i \in webs)
  <2>1. ASSUME NEW kk, NEW ll, kk = i, ll = j
        PROVE  StillToMeet(i, j)' /\ (ll \in webs => kk \in webs)
    <3>1. StillToMeet(kk, ll)
      BY <1>1, <2>1
    <3>2. StillToMeet(kk, ll + 1)' /\ (ll \in webs => kk \in webs)
      BY <1>1, <2>1, <3>1, MergeRow
    <3> QED BY <1>1, <2>1, <3>2, NextPair
  <2> QED BY <2>1
<1>6. NothingLost'
  <2>1. \A w \in webs : \E x \in webs' : defs[w] \subseteq defs'[x] /\ uses[w] \subseteq uses'[x]
    <3> TAKE w \in webs
    <3>1. w \in Web
      BY <1>1 DEF ShapeInv
    <3>2. CASE w # j
      BY <1>1, <1>3, <3>1, <3>2
    <3>3. CASE w = j
      <4>1. i \in webs'
        BY <1>1, <1>2, <1>5, <3>3
      <4> WITNESS i \in webs'
      <4> QED BY <1>3, <3>3
    <3> QED BY <3>2, <3>3
  <2> QED BY <1>1, <2>1 DEF NothingLost
<1>7. OnlyConnected'
  BY <1>1, MergeKeepsConnected
<1> QED BY <1>1, <1>4, <1>5, <1>6, <1>7 DEF IInv, NumbersAreWebs

LEMMA PassStep == IInv /\ PassPair => IInv'
<1> SUFFICES ASSUME IInv, PassPair PROVE IInv'
  OBVIOUS
<1>1. /\ j =< N /\ Advance /\ pc = "merge" /\ pc' = pc /\ again' = again /\ webs' = webs
      /\ temp' = temp /\ chain' = chain /\ register' = register /\ defs' = defs /\ uses' = uses
      /\ ShapeInv /\ NothingLost /\ OnlyConnected /\ StillToMeet(i, j)
      /\ (~again => NothingAlike(i, j))
  BY DEF IInv, PassPair, input
<1>2. ShapeInv'
  BY <1>1, AdvanceFacts DEF ShapeInv
<1>3. NothingLost' /\ OnlyConnected'
  BY <1>1 DEF NothingLost, OnlyConnected, Closed
<1>4. ASSUME NEW kk, NEW ll, kk = i, ll = j
      PROVE  StillToMeet(i, j)' /\ (~again' => NothingAlike(i, j)')
  <2>1. StillToMeet(kk, ll + 1)'
    BY <1>1, <1>4, PassRow
  <2>2. StillToMeet(i, j)'
    BY <1>1, <1>4, <2>1, NextPair
  <2>3. ASSUME ~again' PROVE NothingAlike(i, j)'
    <3>1. NothingAlike(kk, ll)
      BY <1>1, <1>4, <2>3
    <3>2. NothingAlike(kk, ll + 1)'
      BY <1>1, <1>4, <3>1, PassNothingAlike
    <3> QED BY <1>1, <1>4, <3>2, NextNothingAlike
  <2> QED BY <2>2, <2>3
<1> QED BY <1>1, <1>2, <1>3, <1>4 DEF IInv, NumbersAreWebs

LEMMA EndRoundStep == IInv /\ EndRound => IInv'
<1> SUFFICES ASSUME IInv, EndRound PROVE IInv'
  OBVIOUS
<1>1. /\ pc = "merge" /\ pc' = pc /\ i' = 1 /\ j' = 2 /\ webs' = webs /\ temp' = webs
      /\ chain' = chain /\ register' = register /\ defs' = defs /\ uses' = uses
      /\ ShapeInv /\ NothingLost /\ OnlyConnected
  BY DEF IInv, EndRound, input
<1>2. ShapeInv'
  BY <1>1, NAssumption DEF ShapeInv
<1>3. NothingLost' /\ OnlyConnected'
  BY <1>1 DEF NothingLost, OnlyConnected, Closed
<1>4. StillToMeet(i, j)'
  BY <1>1 DEF StillToMeet
<1>5. NothingAlike(i, j)'
  <2>1. temp' \subseteq 1 .. N /\ N \in Nat
    BY <1>1, NAssumption DEF ShapeInv, Web
  <2> QED BY <1>1, <2>1 DEF NothingAlike
<1> QED BY <1>1, <1>2, <1>3, <1>4, <1>5 DEF IInv, NumbersAreWebs

-----------------------------------------------------------------------------
(* At the end.  Every definition is in one web of the vector,              *)
LEMMA OneWeb ==
  ASSUME ShapeInv, NothingLost, OnlyConnected, NothingAlike(i, j), j > N, NEW d \in Def
  PROVE  \E w \in webs : d \in defs[w] /\ \A x \in webs : d \in defs[x] => x = w
<1>1. /\ webs \subseteq Web /\ temp = webs /\ i = N /\ j = N + 1 /\ N \in Nat
      /\ chain \in [Def -> SUBSET Use]
      /\ defs \in [Web -> SUBSET Def]
  BY NAssumption DEF ShapeInv, NothingAlike
<1>2. \A a, b \in webs : a < b => ~Alike(a, b)
  <2>1. \A a, b \in webs : a < b => a < N
    BY <1>1 DEF Web
  <2> QED BY <1>1, <2>1 DEF NothingAlike
<1>3. \A a, b \in webs : a # b => ~Alike(a, b)
  <2>1. \A a, b : Alike(a, b) => Alike(b, a)
    BY DEF Alike
  <2>2. \A a, b \in webs : a # b => a < b \/ b < a
    BY <1>1 DEF Web
  <2> QED BY <1>2, <2>1, <2>2
<1>4. PICK w \in webs : d \in defs[w]
  BY DEF NothingLost
<1>5. ASSUME NEW x \in webs, d \in defs[x], x # w PROVE FALSE
  <2>1. CASE chain[d] = {}
    <3>1. Closed({d})
      BY <2>1 DEF Closed
    <3>2. defs[w] \subseteq {d} /\ defs[x] \subseteq {d}
      BY <1>1, <1>4, <1>5, <3>1 DEF OnlyConnected
    <3> QED BY <1>1, <1>5, <3>2 DEF ShapeInv
  <2>2. CASE chain[d] # {}
    <3>1. PICK u \in Use : u \in chain[d]
      BY <1>1, <2>2
    <3>2. u \in uses[w] /\ u \in uses[x]
      BY <1>1, <1>4, <1>5, <3>1 DEF OnlyConnected
    <3>3. register[w] = register[x]
      BY <1>1, <1>4, <1>5 DEF ShapeInv
    <3> QED BY <1>3, <1>5, <3>2, <3>3 DEF Alike
  <2> QED BY <2>1, <2>2
<1> QED BY <1>4, <1>5

(* and so is every use that a definition reaches: in the same one.         *)
LEMMA OneWebOfUse ==
  ASSUME ShapeInv, NothingLost, OnlyConnected, NothingAlike(i, j), j > N,
         NEW w \in webs, NEW d \in defs[w], NEW u \in chain[d]
  PROVE  /\ u \in uses[w]
         /\ \A x \in webs : u \in uses[x] => x = w
<1>1. /\ webs \subseteq Web /\ chain \in [Def -> SUBSET Use] /\ defs \in [Web -> SUBSET Def]
      /\ d \in Def
  BY DEF ShapeInv
<1>2. u \in uses[w]
  BY <1>1 DEF OnlyConnected
<1>3. ASSUME NEW x \in webs, u \in uses[x] PROVE x = w
  <2>1. PICK e \in defs[x] : u \in chain[e]
    BY <1>1, <1>3 DEF OnlyConnected
  <2>2. e \in Def /\ register[e] = register[d]
    BY <1>1, <2>1 DEF ShapeInv
  <2>3. register[w] = register[x]
    BY <1>1, <2>1, <2>2 DEF ShapeInv
  <2>4. Alike(w, x) /\ Alike(x, w)
    BY <1>2, <1>3, <2>3 DEF Alike
  <2>5. w \in 1 .. N /\ x \in 1 .. N /\ i = N /\ N \in Nat
    BY <1>1, NAssumption DEF ShapeInv, Web
  <2>6. ~(w < x) /\ ~(x < w)
    BY <2>4, <2>5 DEF NothingAlike
  <2> QED BY <2>5, <2>6
<1> QED BY <1>2, <1>3

(* A web is closed, hence a whole component.                               *)
LEMMA WebIsComponent ==
  ASSUME ShapeInv, NothingLost, OnlyConnected, NothingAlike(i, j), j > N,
         NEW w \in webs, NEW d \in defs[w], NEW e \in Def
  PROVE  Connected(d, e) <=> e \in defs[w]
<1>1. /\ w \in Web /\ chain \in [Def -> SUBSET Use] /\ defs \in [Web -> SUBSET Def]
  BY DEF ShapeInv
<1>2. e \in defs[w] => Connected(d, e)
  BY <1>1 DEF Connected, OnlyConnected
<1>3. Closed(defs[w])
  <2>1. ASSUME NEW f \in defs[w], NEW g \in Def, chain[f] \cap chain[g] # {}
        PROVE  g \in defs[w]
    <3>1. PICK u : u \in chain[f] /\ u \in chain[g]
      BY <2>1
    <3>2. PICK x \in webs : g \in defs[x]
      BY DEF NothingLost
    <3>3. u \in uses[x]
      BY <3>1, <3>2, OneWebOfUse
    <3>4. x = w
      BY <3>1, <3>3, OneWebOfUse
    <3> QED BY <3>2, <3>4
  <2> QED BY <2>1 DEF Closed
<1> QED BY <1>1, <1>2, <1>3 DEF Connected

(* Different webs have different numbers.                                  *)
LEMMA SregIsInjective ==
  ASSUME webs \subseteq Web, NEW w \in webs, NEW x \in webs, w < x
  PROVE  Sreg(w) \in Nat /\ Sreg(x) \in Nat /\ Sreg(w) >= NSymbols /\ Sreg(w) < Sreg(x)
<1> DEFINE below(y) == {v \in webs : v < y}
<1>1. N \in Int /\ NSymbols \in Nat
  BY NAssumption, SymbolsAssumption
<1>2. IsFiniteSet(1 .. N)
  BY <1>1, FS_Interval
<1>3. IsFiniteSet(webs)
  BY <1>2, FS_Subset DEF Web
<1>4. IsFiniteSet(below(x)) /\ IsFiniteSet(below(w))
  <2>1. below(x) \in SUBSET webs /\ below(w) \in SUBSET webs
    OBVIOUS
  <2> HIDE DEF below
  <2> QED BY <1>3, <2>1, FS_Subset
<1>5. below(w) \in SUBSET below(x) /\ w \in below(x) /\ w \notin below(w)
  <2>1. \A v \in webs : v \in Int
    BY <1>1 DEF Web
  <2>2. \A v \in webs : v < w => v < x
    BY <2>1
  <2>3. ~(w < w)
    BY <2>1
  <2> QED BY <2>2, <2>3
<1>6. Cardinality(below(w)) \in Nat /\ Cardinality(below(x)) \in Nat
  BY <1>4, FS_CardinalityType
<1>7. Cardinality(below(w)) =< Cardinality(below(x)) /\ Cardinality(below(w)) # Cardinality(below(x))
  BY <1>4, <1>5, FS_Subset
<1>8. Sreg(w) = NSymbols + Cardinality(below(w)) /\ Sreg(x) = NSymbols + Cardinality(below(x))
  BY DEF Sreg
<1> HIDE DEF below
<1> QED BY <1>1, <1>6, <1>7, <1>8

LEMMA NumberingIsRight ==
  ASSUME ShapeInv, NothingLost, OnlyConnected, NothingAlike(i, j), j > N,
         NEW d \in Def, NEW w \in webs, d \in defs[w]
  PROVE  /\ NumberOf(DefOp(d)) = Sreg(w)
         /\ \A u \in chain[d] : NumberOf(UseOp(u)) = Sreg(w)
<1>1. webs \subseteq 1 .. N /\ N \in Nat
  BY NAssumption DEF ShapeInv, Web
<1>2. \A x \in webs : Holds(x, DefOp(d)) <=> x = w
  <2>1. \A x \in webs : d \in defs[x] => x = w
    BY OneWeb
  <2>2. \A x : Holds(x, DefOp(d)) <=> d \in defs[x]
    BY DEF Holds, DefOp
  <2> QED BY <2>1, <2>2
<1>3. ASSUME NEW o, \A x \in webs : Holds(x, o) <=> x = w
      PROVE  NumberOf(o) = Sreg(w)
  <2>1. (CHOOSE v \in webs : Holds(v, o) /\ \A x \in webs : Holds(x, o) => x =< v) = w
    BY <1>1, <1>3
  <2> QED BY <1>3, <2>1 DEF NumberOf
<1>4. ASSUME NEW u \in chain[d] PROVE NumberOf(UseOp(u)) = Sreg(w)
  <2>1. \A x : Holds(x, UseOp(u)) <=> u \in uses[x]
    BY DEF Holds, UseOp
  <2>2. \A x \in webs : Holds(x, UseOp(u)) <=> x = w
    BY <2>1, OneWebOfUse
  <2> QED BY <1>3, <2>2
<1> QED BY <1>2, <1>3, <1>4

LEMMA NumberStep == IInv /\ Number => IInv'
<1> SUFFICES ASSUME IInv, Number PROVE IInv'
  OBVIOUS
<1>1. /\ pc' = "done" /\ i' = i /\ j' = j /\ webs' = webs /\ temp' = temp
      /\ chain' = chain /\ register' = register /\ defs' = defs /\ uses' = uses
      /\ ShapeInv /\ NothingLost /\ OnlyConnected /\ NothingAlike(i, j) /\ j > N
      /\ operand2web' = [o \in Operands |-> NumberOf(o)]
      /\ webs \subseteq Web /\ chain \in [Def -> SUBSET Use]
  BY DEF IInv, Number, input, ShapeInv
<1>2. \A d \in Def : operand2web'[DefOp(d)] = NumberOf(DefOp(d))
  BY <1>1 DEF Operands
<1>3. \A d \in Def : \A u \in chain[d] : operand2web'[UseOp(u)] = NumberOf(UseOp(u))
  BY <1>1 DEF Operands
<1>4. ASSUME NEW d \in Def
      PROVE  /\ operand2web'[DefOp(d)] >= NSymbols
             /\ \A u \in chain[d] : operand2web'[UseOp(u)] = operand2web'[DefOp(d)]
             /\ \A e \in Def : (operand2web'[DefOp(d)] = operand2web'[DefOp(e)]) = Connected(d, e)
  <2>1. PICK w \in webs : d \in defs[w]
    BY <1>1 DEF NothingLost
  <2>2. operand2web'[DefOp(d)] = Sreg(w)
    BY <1>1, <1>2, <2>1, NumberingIsRight
  <2>3. \A u \in chain[d] : operand2web'[UseOp(u)] = Sreg(w)
    BY <1>1, <1>3, <2>1, NumberingIsRight
  <2>4. Sreg(w) >= NSymbols
    <3>1. {v \in webs : v < w} \in SUBSET (1 .. N)
      BY <1>1 DEF Web
    <3>2. IsFiniteSet(1 .. N)
      BY NAssumption, FS_Interval
    <3>3. Cardinality({v \in webs : v < w}) \in Nat
      BY <3>1, <3>2, FS_Subset, FS_CardinalityType
    <3> QED BY <3>3, SymbolsAssumption DEF Sreg
  <2>5. ASSUME NEW e \in Def
        PROVE  (operand2web'[DefOp(d)] = operand2web'[DefOp(e)]) = Connected(d, e)
    <3>1. PICK x \in webs : e \in defs[x]
      BY <1>1 DEF NothingLost
    <3>2. operand2web'[DefOp(e)] = Sreg(x)
      BY <1>1, <1>2, <3>1, NumberingIsRight
    <3>3. Sreg(w) = Sreg(x) <=> w = x
      <4>1. w \in 1 .. N /\ x \in 1 .. N
        BY <1>1 DEF Web
      <4>2. w < x => Sreg(w) < Sreg(x) /\ Sreg(w) \in Nat /\ Sreg(x) \in Nat
        BY <1>1, SregIsInjective
      <4>3. x < w => Sreg(x) < Sreg(w) /\ Sreg(w) \in Nat /\ Sreg(x) \in Nat
        BY <1>1, SregIsInjective
      <4> QED BY <4>1, <4>2, <4>3, NAssumption
    <3>4. e \in defs[w] <=> w = x
      <4>1. PICK v \in webs : e \in defs[v] /\ \A y \in webs : e \in defs[y] => y = v
        BY <1>1, OneWeb
      <4> QED BY <3>1, <4>1
    <3>5. Connected(d, e) <=> e \in defs[w]
      BY <1>1, <2>1, WebIsComponent
    <3>6. Connected(d, e) \in BOOLEAN
      BY DEF Connected
    <3> QED BY <2>2, <3>2, <3>3, <3>4, <3>5, <3>6
  <2> QED BY <2>2, <2>3, <2>4, <2>5
<1>5. NumbersAreWebs'
  <2>1. \A d, e : Connected(d, e)' = Connected(d, e)
    BY <1>1 DEF Connected, Closed
  <2>2. \A d, e \in Def : Connected(d, e)' = Connected(d, e)
    BY <2>1
  <2>3. ASSUME NEW d \in Def
        PROVE  /\ operand2web'[DefOp(d)] >= NSymbols
               /\ \A u \in chain'[d] : operand2web'[UseOp(u)] = operand2web'[DefOp(d)]
               /\ \A e \in Def :
                    (operand2web'[DefOp(d)] = operand2web'[DefOp(e)]) = Connected(d, e)'
    BY <1>1, <1>4, <2>2
  <2> HIDE DEF Connected
  <2> QED BY <2>3, Zenon DEF NumbersAreWebs
<1> QED BY <1>1, <1>5 DEF IInv, ShapeInv, NothingLost, OnlyConnected, Closed

LEMMA StepInv == IInv /\ [Next]_vars => IInv'
<1> SUFFICES ASSUME IInv, [Next]_vars PROVE IInv'
  OBVIOUS
<1>1. CASE UNCHANGED vars
  <2>1. NumbersAreWebs => NumbersAreWebs'
    <3>1. pc' = pc /\ chain' = chain /\ operand2web' = operand2web
      BY <1>1 DEF vars, input
    <3>2. \A d, e : Connected(d, e)' = Connected(d, e)
      BY <3>1 DEF Connected, Closed
    <3> QED BY <3>1, <3>2, Zenon DEF NumbersAreWebs
  <2>2. ShapeInv' = ShapeInv /\ NothingLost' = NothingLost /\ OnlyConnected' = OnlyConnected
    BY <1>1 DEF ShapeInv, NothingLost, OnlyConnected, Closed, vars, input
  <2>3. StillToMeet(i, j) => StillToMeet(i, j)'
    BY <1>1 DEF StillToMeet, Alike, vars, input
  <2>4. NothingAlike(i, j) => NothingAlike(i, j)'
    BY <1>1 DEF NothingAlike, Alike, vars, input
  <2> QED BY <1>1, <2>1, <2>2, <2>3, <2>4 DEF IInv, vars
<1> QED BY <1>1, MergeStep, PassStep, EndRoundStep, NumberStep DEF Next

(* No definition and no use ever leaves the webs in the vector.            *)
THEOREM MergingLosesNothing == Spec => []NothingLost
<1>1. IInv => NothingLost
  BY DEF IInv
<1> QED BY <1>1, InitInv, StepInv, PTL DEF Spec

(* Whatever is in one web is connected by shared uses.                     *)
THEOREM MergingIsNeeded == Spec => []OnlyConnected
<1>1. IInv => OnlyConnected
  BY DEF IInv
<1> QED BY <1>1, InitInv, StepInv, PTL DEF Spec

(* When the merging ends, operands have the same number exactly if they    *)
(* belong together.                                                        *)
THEOREM MergingCorrect == Spec => []NumbersAreWebs
<1>1. IInv => NumbersAreWebs
  BY DEF IInv
<1> QED BY <1>1, InitInv, StepInv, PTL DEF Spec
==============================================================================

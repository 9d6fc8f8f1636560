------------------------- MODULE StimulusSyncProofs -------------------------
(* Proofs that Stimulus is in step with the document when all records are    *)
(* delivered: which controllers are connected, which actions are bound, and  *)
(* which controller an event invokes, for every document.                    *)
EXTENDS StimulusProofs

-----------------------------------------------------------------------------
(* Paths: what is around a node when pl[e] is the parent of e *)

Nodes == Element \cup {Page, Out}

Closed(pl, S) == \A y \in S \cap Element : pl[y] \in S
Up(pl, near) == near \cup {pl[y] : y \in near \cap Element}

PathIn(pl, x) ==
  LET up[n \in 0 .. Cardinality(Element)] ==
        IF n = 0 THEN {x}
        ELSE LET near == up[n - 1]
             IN  near \cup {pl[y] : y \in near \cap Element}
  IN  up[Cardinality(Element)]

LEMMA PathIsPathIn == \A x : Path(x) = PathIn(place, x) /\ Path(x)' = PathIn(place', x)
BY DEF Path, PathIn

\* An order in which scripts nest the elements.
Depth ==
  CHOOSE depth \in [Element -> 1 .. Cardinality(Element)] :
    \A e \in Element : \A p \in Spots[e] \cap Element : depth[e] < depth[p]

LEMMA DepthProperties ==
  /\ Cardinality(Element) \in Nat
  /\ Depth \in [Element -> 1 .. Cardinality(Element)]
  /\ \A e \in Element : \A p \in Spots[e] \cap Element : Depth[e] < Depth[p]
<1>1. Cardinality(Element) \in Nat
  BY StimulusAssumption, FS_CardinalityType
<1> QED BY <1>1, NestingAssumption DEF Depth

\* The elements are where scripts put them.
Placed(pl) == /\ pl \in [Element -> Nodes]
              /\ \A e \in Element : pl[e] \in Spots[e] \cup {Out}

LEMMA PlacedDeeper ==
  ASSUME NEW pl, Placed(pl), NEW e \in Element, pl[e] \in Element
  PROVE  Depth[e] < Depth[pl[e]]
<1>1. pl[e] \in Spots[e]
  BY StimulusAssumption DEF Placed
<1> QED BY <1>1, DepthProperties

\* f[n] is what the first n steps from x upwards meet.
Steps(pl, x, k, f) ==
  f = [n \in 0 .. k |-> IF n = 0 THEN {x} ELSE Up(pl, f[n - 1])]

\* The recursive function exists.
LEMMA StepsExist ==
  ASSUME NEW pl, NEW x, NEW k \in Nat
  PROVE  \E f : Steps(pl, x, k, f)
<1> DEFINE OK(n) == \E f : Steps(pl, x, n, f)
           T == {n \in Nat : ~OK(n)}
<1> SUFFICES ASSUME k \in T PROVE FALSE
  OBVIOUS
<1>1. PICK m \in T : \A n \in T : m <= n
  <2>1. T \in SUBSET Nat /\ T # {}
    OBVIOUS
  <2> HIDE DEF T
  <2> QED BY <2>1, LeastElement
<1>2. CASE m = 0
  <2> DEFINE f == [i \in 0 .. 0 |-> {x}]
  <2>1. f = [i \in 0 .. 0 |-> f[i]] /\ \A i \in 0 .. 0 : i = 0 /\ f[i] = {x}
    OBVIOUS
  <2> HIDE DEF f
  <2>2. Steps(pl, x, 0, f)
    BY <2>1 DEF Steps
  <2> QED BY <1>1, <1>2, <2>2
<1>3. CASE m # 0
  <2>1. m \in Nat /\ m - 1 \in Nat /\ m - 1 < m /\ ~OK(m)
    BY <1>1, <1>3
  <2>2. OK(m - 1)
    BY <1>1, <2>1
  <2>3. PICK f : Steps(pl, x, m - 1, f)
    BY <2>2
  <2> DEFINE g == [i \in 0 .. m |->
                     IF i = m THEN Up(pl, f[m - 1]) ELSE f[i]]
  <2>4. \A i \in 0 .. m : g[i] = IF i = 0 THEN {x} ELSE Up(pl, g[i - 1])
    <3> TAKE i \in 0 .. m
    <3>1. CASE i = m
      <4>1. m - 1 \in 0 .. m /\ m - 1 # m /\ i # 0
        BY <1>3, <2>1, <3>1
      <4>2. g[m - 1] = f[m - 1] /\ g[i] = Up(pl, f[m - 1])
        BY <3>1, <4>1
      <4> QED BY <3>1, <4>1, <4>2
    <3>2. CASE i # m
      <4>1. i \in 0 .. m - 1 /\ (i # 0 => i - 1 \in 0 .. m /\ i - 1 # m)
        BY <2>1, <3>2
      <4>2. g[i] = f[i] /\ f[i] = IF i = 0 THEN {x} ELSE Up(pl, f[i - 1])
        BY <2>3, <3>2, <4>1 DEF Steps
      <4>3. i # 0 => g[i - 1] = f[i - 1]
        BY <4>1
      <4> QED BY <4>2, <4>3
    <3> QED BY <3>1, <3>2
  <2>5. g = [i \in 0 .. m |-> g[i]]
    OBVIOUS
  <2> HIDE DEF g
  <2>6. Steps(pl, x, m, g)
    BY <2>4, <2>5 DEF Steps
  <2> QED BY <2>1, <2>6
<1> QED BY <1>2, <1>3

LEMMA PathSteps ==
  ASSUME NEW pl, NEW x
  PROVE  \E f : /\ Steps(pl, x, Cardinality(Element), f)
                /\ PathIn(pl, x) = f[Cardinality(Element)]
<1> DEFINE C == Cardinality(Element)
           up == CHOOSE f : Steps(pl, x, C, f)
<1>1. PathIn(pl, x) = up[C]
  BY DEF PathIn, Up, Steps
<1>2. C \in Nat
  BY DepthProperties
<1> HIDE DEF C
<1>3. \E f : Steps(pl, x, C, f)
  BY <1>2, StepsExist
<1>4. Steps(pl, x, C, up)
  BY <1>3
<1> HIDE DEF up
<1> QED BY <1>1, <1>4 DEF C

\* The path is closed: the nesting is too deep for anything else.
LEMMA PathBasics ==
  ASSUME NEW pl, Placed(pl), NEW x \in Nodes
  PROVE  /\ x \in PathIn(pl, x)
         /\ PathIn(pl, x) \subseteq Nodes
         /\ \A y \in PathIn(pl, x) \cap Element : pl[y] \in PathIn(pl, x)
         /\ \A S : x \in S /\ Closed(pl, S) => PathIn(pl, x) \subseteq S
<1> DEFINE C == Cardinality(Element)
<1>0. C \in Nat
  BY DepthProperties
<1>1. PICK f : Steps(pl, x, C, f) /\ PathIn(pl, x) = f[C]
  BY PathSteps
<1> HIDE DEF C
<1>2. f[0] = {x} /\ \A n \in 1 .. C : f[n] = Up(pl, f[n - 1])
  <2>1. \A n \in 0 .. C : f[n] = IF n = 0 THEN {x} ELSE Up(pl, f[n - 1])
    BY <1>1 DEF Steps
  <2> QED BY <1>0, <2>1
<1>3. ASSUME NEW S, x \in S, Closed(pl, S)
      PROVE  \A n \in 0 .. C : f[n] \subseteq S
  <2> DEFINE T == {n \in 0 .. C : ~(f[n] \subseteq S)}
  <2> SUFFICES ASSUME T # {} PROVE FALSE
    OBVIOUS
  <2>1. T \in SUBSET Nat
    BY <1>0
  <2>2. PICK m \in T : \A n \in T : m <= n
    <3> HIDE DEF T
    <3> QED BY <2>1, LeastElement
  <2>3. m # 0
    BY <1>2, <1>3, <2>2
  <2>4. m \in 1 .. C /\ m - 1 \in 0 .. C /\ m - 1 < m
    BY <1>0, <2>2, <2>3
  <2>5. f[m - 1] \subseteq S
    BY <2>2, <2>4
  <2>6. f[m] \subseteq S
    BY <1>2, <1>3, <2>4, <2>5 DEF Up, Closed
  <2> QED BY <2>2, <2>6
<1>4. \A n \in 0 .. C : x \in f[n]
  <2> DEFINE T == {n \in 0 .. C : x \notin f[n]}
  <2> SUFFICES ASSUME T # {} PROVE FALSE
    OBVIOUS
  <2>1. T \in SUBSET Nat
    BY <1>0
  <2>2. PICK m \in T : \A n \in T : m <= n
    <3> HIDE DEF T
    <3> QED BY <2>1, LeastElement
  <2>3. m # 0
    BY <1>2, <2>2
  <2>4. m \in 1 .. C /\ m - 1 \in 0 .. C /\ m - 1 < m
    BY <1>0, <2>2, <2>3
  <2>5. x \in f[m - 1]
    BY <2>2, <2>4
  <2> QED BY <1>2, <2>2, <2>4, <2>5 DEF Up
<1>5. \A n \in 0 .. C : f[n] \subseteq Nodes
  <2>1. x \in Nodes /\ Closed(pl, Nodes)
    BY DEF Closed, Placed
  <2> QED BY <1>3, <2>1
\* At most the last node on the way has its parent outside.
<1> DEFINE Ends(S, y, n) == /\ y \in S \cap Element /\ Depth[y] >= n + 1
                            /\ \A w \in S \cap Element : w # y => pl[w] \in S
<1>6. \A n \in 0 .. C : Closed(pl, f[n]) \/ \E y : Ends(f[n], y, n)
  <2> DEFINE Good(n) == Closed(pl, f[n]) \/ \E y : Ends(f[n], y, n)
             T == {n \in 0 .. C : ~Good(n)}
  <2> SUFFICES ASSUME T # {} PROVE FALSE
    OBVIOUS
  <2>1. T \in SUBSET Nat
    BY <1>0
  <2>2. PICK m \in T : \A n \in T : m <= n
    <3> HIDE DEF T
    <3> QED BY <2>1, LeastElement
  <2>3. CASE m = 0
    <3>1. x \in Element => Ends(f[0], x, 0)
      BY <1>2, DepthProperties
    <3>2. x \notin Element => Closed(pl, f[0])
      BY <1>2 DEF Closed
    <3> QED BY <2>2, <2>3, <3>1, <3>2
  <2>4. CASE m # 0
    <3>1. m \in 1 .. C /\ m - 1 \in 0 .. C /\ m - 1 < m /\ m \in Nat
      BY <1>0, <2>2, <2>4
    <3>2. Good(m - 1)
      BY <2>2, <3>1
    <3>3. f[m] = Up(pl, f[m - 1])
      BY <1>2, <3>1
    <3>4. CASE Closed(pl, f[m - 1])
      <4>1. f[m] = f[m - 1]
        BY <3>3, <3>4 DEF Closed, Up
      <4> QED BY <2>2, <3>4, <4>1
    <3>5. CASE ~Closed(pl, f[m - 1])
      <4>1. PICK y : Ends(f[m - 1], y, m - 1)
        BY <3>2, <3>5
      <4>2. f[m] = f[m - 1] \cup {pl[y]}
        BY <3>3, <4>1 DEF Up
      <4>3. \A w \in f[m] \cap Element : w # pl[y] => pl[w] \in f[m]
        BY <4>1, <4>2
      <4>4. CASE pl[y] \in Element
        <5>1. Depth[y] < Depth[pl[y]] /\ Depth[y] >= m - 1 + 1
          BY <4>1, <4>4, PlacedDeeper
        <5>2. Depth[y] \in Nat /\ Depth[pl[y]] \in Nat
          BY <4>1, <4>4, DepthProperties
        <5>3. Depth[pl[y]] >= m + 1
          BY <3>1, <5>1, <5>2
        <5>4. Ends(f[m], pl[y], m)
          BY <4>2, <4>3, <4>4, <5>3
        <5> QED BY <2>2, <5>4
      <4>5. CASE pl[y] \notin Element
        <5>1. Closed(pl, f[m])
          BY <4>3, <4>5 DEF Closed
        <5> QED BY <2>2, <5>1
      <4> QED BY <4>4, <4>5
    <3> QED BY <3>4, <3>5
  <2> QED BY <2>3, <2>4
<1>7. Closed(pl, f[C])
  <2>1. \A y : ~Ends(f[C], y, C)
    BY <1>0, DepthProperties DEF C
  <2> QED BY <1>0, <1>6, <2>1
<1> QED BY <1>0, <1>1, <1>3, <1>4, <1>5, <1>7 DEF Closed

LEMMA PathThrough ==
  ASSUME NEW pl, Placed(pl), NEW x \in Nodes, NEW y \in PathIn(pl, x)
  PROVE  PathIn(pl, y) \subseteq PathIn(pl, x)
<1>1. y \in Nodes /\ Closed(pl, PathIn(pl, x))
  BY PathBasics DEF Closed
<1> QED BY <1>1, PathBasics

LEMMA PathOfRoot ==
  ASSUME NEW pl, Placed(pl), NEW x \in {Page, Out}
  PROVE  PathIn(pl, x) = {x}
<1>1. x \in Nodes /\ x \notin Element
  BY StimulusAssumption DEF Nodes
<1>2. Closed(pl, {x})
  BY <1>1 DEF Closed
<1> QED BY <1>1, <1>2, PathBasics

LEMMA PathUnfold ==
  ASSUME NEW pl, Placed(pl), NEW x \in Element
  PROVE  pl[x] \in Nodes /\ PathIn(pl, x) = {x} \cup PathIn(pl, pl[x])
<1>1. x \in Nodes /\ pl[x] \in Nodes
  BY DEF Placed, Nodes
<1> DEFINE S == {x} \cup PathIn(pl, pl[x])
<1>2. pl[x] \in PathIn(pl, pl[x]) /\ Closed(pl, PathIn(pl, pl[x]))
  BY <1>1, PathBasics DEF Closed
<1>3. x \in S /\ Closed(pl, S)
  BY <1>2 DEF Closed
<1> HIDE DEF S
<1>4. PathIn(pl, x) \subseteq S
  BY <1>1, <1>3, PathBasics
<1>5. x \in PathIn(pl, x) /\ pl[x] \in PathIn(pl, x)
  BY <1>1, PathBasics
<1>6. PathIn(pl, pl[x]) \subseteq PathIn(pl, x)
  BY <1>1, <1>5, PathThrough
<1> QED BY <1>1, <1>4, <1>5, <1>6 DEF S

\* Two nodes around x lie one around the other.
LEMMA PathChain ==
  ASSUME NEW pl, Placed(pl), NEW x \in Nodes, NEW y \in PathIn(pl, x),
         NEW z \in PathIn(pl, x)
  PROVE  z \in PathIn(pl, y) \/ y \in PathIn(pl, z)
<1> DEFINE S == {w \in PathIn(pl, x) : w \in PathIn(pl, y) \/ y \in PathIn(pl, w)}
<1>1. y \in Nodes /\ PathIn(pl, x) \subseteq Nodes /\ x \in PathIn(pl, x)
  BY PathBasics
<1>2. ASSUME NEW w \in S \cap Element PROVE pl[w] \in S
  <2>1. w \in Nodes /\ pl[w] \in PathIn(pl, x)
    BY <1>2, PathBasics DEF Nodes
  <2>2. CASE w \in PathIn(pl, y)
    <3>1. pl[w] \in PathIn(pl, y)
      BY <1>1, <1>2, <2>2, PathBasics
    <3> QED BY <2>1, <3>1
  <2>3. CASE w \notin PathIn(pl, y)
    <3>1. y \in PathIn(pl, w) /\ y # w
      BY <1>1, <1>2, <2>3, PathBasics
    <3>2. y \in PathIn(pl, pl[w])
      BY <1>2, <3>1, PathUnfold
    <3> QED BY <2>1, <3>2
  <2> QED BY <2>2, <2>3
<1>3. x \in S /\ Closed(pl, S)
  BY <1>1, <1>2 DEF Closed
<1> HIDE DEF S
<1>4. PathIn(pl, x) \subseteq S
  BY <1>3, PathBasics
<1> QED BY <1>4 DEF S

\* What is around an element is deeper in the order of nesting.
LEMMA PathDeeper ==
  ASSUME NEW pl, Placed(pl), NEW x \in Element, NEW y \in PathIn(pl, x) \cap Element
  PROVE  Depth[x] \in Nat /\ Depth[y] \in Nat /\ (y = x \/ Depth[x] < Depth[y])
<1> DEFINE S == {w \in Nodes : w \in Element => w = x \/ Depth[x] < Depth[w]}
<1>0. \A w \in Element : Depth[w] \in Nat
  BY DepthProperties
<1>1. ASSUME NEW w \in S \cap Element PROVE pl[w] \in S
  <2>1. pl[w] \in Nodes
    BY <1>1 DEF Placed
  <2>2. ASSUME pl[w] \in Element PROVE Depth[x] < Depth[pl[w]]
    <3>1. Depth[w] < Depth[pl[w]]
      BY <1>1, <2>2, PlacedDeeper
    <3>2. w = x \/ Depth[x] < Depth[w]
      BY <1>1
    <3> QED BY <1>0, <1>1, <2>2, <3>1, <3>2
  <2> QED BY <2>1, <2>2
<1>2. x \in S /\ Closed(pl, S) /\ x \in Nodes
  BY <1>1 DEF Closed, Nodes
<1> HIDE DEF S
<1>3. PathIn(pl, x) \subseteq S
  BY <1>2, PathBasics
<1> QED BY <1>0, <1>3 DEF S

LEMMA PathAntisymmetric ==
  ASSUME NEW pl, Placed(pl), NEW x \in Element, NEW y \in Element,
         y \in PathIn(pl, x), x \in PathIn(pl, y)
  PROVE  x = y
<1>1. /\ Depth[x] \in Nat /\ Depth[y] \in Nat
      /\ y = x \/ Depth[x] < Depth[y]
      /\ x = y \/ Depth[y] < Depth[x]
  BY PathDeeper
<1> QED BY <1>1

\* One element moves.
Moved(pl, new, e) == \A w \in Element : w # e => new[w] = pl[w]

LEMMA MovedElsewhere ==
  ASSUME NEW pl, Placed(pl), NEW new, Placed(new), NEW e \in Element,
         Moved(pl, new, e), NEW x \in Nodes, e \notin PathIn(pl, x)
  PROVE  PathIn(new, x) = PathIn(pl, x)
<1>1. Closed(new, PathIn(pl, x)) /\ x \in PathIn(pl, x)
  BY PathBasics DEF Closed, Moved
<1>2. PathIn(new, x) \subseteq PathIn(pl, x)
  BY <1>1, PathBasics
<1>3. Closed(pl, PathIn(new, x)) /\ x \in PathIn(new, x)
  BY <1>2, PathBasics DEF Closed, Moved
<1>4. PathIn(pl, x) \subseteq PathIn(new, x)
  BY <1>3, PathBasics
<1> QED BY <1>2, <1>4

LEMMA MovedBelow ==
  ASSUME NEW pl, Placed(pl), NEW new, Placed(new), NEW e \in Element,
         Moved(pl, new, e), NEW x \in Nodes
  PROVE  /\ PathIn(pl, x) \subseteq PathIn(new, x) \cup PathIn(pl, pl[e])
         /\ e \in PathIn(pl, x) => e \in PathIn(new, x)
<1> DEFINE S == PathIn(new, x) \cup PathIn(pl, pl[e])
<1>1. pl[e] \in Nodes
  BY DEF Placed
<1>2. /\ pl[e] \in PathIn(pl, pl[e])
      /\ \A w \in PathIn(pl, pl[e]) \cap Element : pl[w] \in PathIn(pl, pl[e])
  BY <1>1, PathBasics
<1>3. /\ x \in PathIn(new, x)
      /\ \A w \in PathIn(new, x) \cap Element : new[w] \in PathIn(new, x)
  BY PathBasics
<1>4. x \in S /\ Closed(pl, S)
  BY <1>2, <1>3 DEF Closed, Moved
<1> HIDE DEF S
<1>5. PathIn(pl, x) \subseteq S
  BY <1>4, PathBasics
<1>6. ASSUME e \in PathIn(pl, x), e \notin PathIn(new, x) PROVE FALSE
  <2>1. Moved(new, pl, e)
    BY DEF Moved
  <2> QED BY <1>6, <2>1, MovedElsewhere
<1> QED BY <1>5, <1>6 DEF S

\* remove: of what was around x, that inside e is still around it, and e.
LEMMA RemovedPath ==
  ASSUME NEW pl, Placed(pl), NEW new, Placed(new), NEW e \in Element,
         Moved(pl, new, e), new[e] = Out,
         NEW x \in Element, e \in PathIn(pl, x)
  PROVE  \A y \in Element \cup {Page} :
           y \in PathIn(new, x) <=> y \in PathIn(pl, x) /\ e \in PathIn(pl, y)
<1> DEFINE S == {y \in PathIn(pl, x) \cap Element : e \in PathIn(pl, y)} \cup {Out}
<1>0. x \in Nodes /\ e \in Nodes /\ x \in PathIn(pl, x) /\ Page \notin Element
      /\ Page # Out /\ Out \notin Element
  BY PathBasics, StimulusAssumption DEF Nodes
<1>1. ASSUME NEW w \in S \cap Element PROVE new[w] \in S
  <2>1. w \in PathIn(pl, x) /\ e \in PathIn(pl, w)
    BY <1>0, <1>1
  <2>2. CASE w = e
    BY <2>2
  <2>3. CASE w # e
    <3>1. new[w] = pl[w] /\ pl[w] \in PathIn(pl, x)
      BY <1>0, <1>1, <2>1, <2>3, PathBasics DEF Moved
    <3>2. e \in PathIn(pl, pl[w]) /\ pl[w] \in Nodes
      BY <1>1, <2>1, <2>3, PathUnfold
    <3>3. pl[w] \in Element
      BY <1>0, <3>2, PathOfRoot DEF Nodes
    <3> QED BY <3>1, <3>2, <3>3
  <2> QED BY <2>2, <2>3
<1>2. x \in S /\ Closed(new, S)
  BY <1>0, <1>1 DEF Closed
<1>3. PathIn(new, x) \subseteq S
  <2> HIDE DEF S
  <2> QED BY <1>0, <1>2, PathBasics
<1>4. Page \notin PathIn(new, x)
  BY <1>0, <1>3
<1>5. e \notin PathIn(pl, Page)
  BY <1>0, PathOfRoot
<1>6. ASSUME NEW y \in Element, y \in PathIn(pl, x), e \in PathIn(pl, y)
      PROVE  y \in PathIn(new, x)
  <2>1. y \in PathIn(new, x) \/ y \in PathIn(pl, pl[e])
    BY <1>0, <1>6, MovedBelow
  <2>2. ASSUME y \in PathIn(pl, pl[e]) PROVE y \in PathIn(new, x)
    <3>1. y \in PathIn(pl, e)
      BY <2>2, PathUnfold
    <3>2. y = e
      BY <1>6, <3>1, PathAntisymmetric
    <3> QED BY <1>0, <1>6, <3>2, MovedBelow
  <2> QED BY <2>1, <2>2
<1> QED BY <1>0, <1>3, <1>4, <1>5, <1>6

\* appendChild: what is around the new parent is now around x as well.
LEMMA AppendedPath ==
  ASSUME NEW pl, Placed(pl), NEW new, Placed(new), NEW e \in Element,
         Moved(pl, new, e), pl[e] = Out, new[e] \in Element \cup {Page},
         NEW x \in Element, e \in PathIn(pl, x)
  PROVE  \A y \in Element \cup {Page} :
           y \in PathIn(new, x) <=> y \in PathIn(pl, x) \/ y \in PathIn(pl, new[e])
<1> DEFINE p == new[e]
<1>0. /\ x \in Nodes /\ p \in Nodes /\ e \in Nodes
      /\ Out \notin Element \cup {Page} /\ Page \notin Element
  BY StimulusAssumption DEF Nodes
<1>1. e \notin PathIn(pl, p)
  <2>1. CASE p \in Element
    <3>1. Depth[e] < Depth[p]
      BY <2>1, PlacedDeeper
    <3>2. e # p /\ Depth[p] \in Nat /\ Depth[e] \in Nat
      BY <2>1, <3>1, DepthProperties
    <3> QED BY <2>1, <3>1, <3>2, PathDeeper
  <2>2. CASE p = Page
    BY <1>0, <2>2, PathOfRoot
  <2> QED BY <2>1, <2>2
<1>2. PathIn(new, p) = PathIn(pl, p)
  BY <1>0, <1>1, MovedElsewhere
<1>3. PathIn(pl, x) \subseteq PathIn(new, x) \cup {Out} /\ e \in PathIn(new, x)
  <2>1. PathIn(pl, pl[e]) = {Out}
    BY PathOfRoot
  <2> QED BY <1>0, <2>1, MovedBelow
<1>4. PathIn(new, x) \subseteq PathIn(pl, x) \cup PathIn(new, p)
  <2>1. Moved(new, pl, e)
    BY DEF Moved
  <2> QED BY <1>0, <2>1, MovedBelow
<1>5. PathIn(new, p) \subseteq PathIn(new, x)
  <2>1. p \in PathIn(new, x)
    BY <1>0, <1>3, PathBasics
  <2> QED BY <1>0, <2>1, PathThrough
<1> QED BY <1>0, <1>2, <1>3, <1>4, <1>5

-----------------------------------------------------------------------------
(* Observers: what the records in a queue tell of the elements in root *)

\* The n-th record takes x away, or brings it (back) into root.
TakesAway(pl, q, n, x) ==
  q[n].kind = "removed" /\ q[n].el \in PathIn(pl, x)
Brings(pl, root, q, n, x) ==
  /\ q[n].kind = "added" /\ q[n].el \in PathIn(pl, x)
  /\ root \in PathIn(pl, q[n].el)

\* Records are about elements that belong inside root.
Below(root, e) == root \in Element => Depth[e] < Depth[root]
Inside(root, q) == \A n \in DOMAIN q : q[n].kind # "attr" => Below(root, q[n].el)

\* An element that is in root although a record takes it away is brought back by
\* a later one.
BroughtBack(pl, root, q) ==
  \A x \in Element : root \in PathIn(pl, x) =>
    \A n \in DOMAIN q : TakesAway(pl, q, n, x) =>
      \E m \in DOMAIN q : n < m /\ Brings(pl, root, q, m, x)

SeesIn(pl, root, q, target) ==
  \/ root \in PathIn(pl, target)
  \/ \E n \in DOMAIN q : q[n].kind = "removed" /\ q[n].el \in PathIn(pl, target)

\* What an observer of root is told when one element moves, about each x.
ToldOf(pl, new, root, q, q2, x) ==
  /\ root \in PathIn(new, x) /\ root \notin PathIn(pl, x) =>
       \E n \in DOMAIN q2 : Brings(new, root, q2, n, x)
  /\ root \in PathIn(new, x) /\ root \in PathIn(pl, x) =>
       \A n \in DOMAIN q : Brings(pl, root, q, n, x) => Brings(new, root, q2, n, x)
  /\ root \notin PathIn(new, x) /\ root \in PathIn(pl, x) =>
       \E n \in DOMAIN q2 : TakesAway(new, q2, n, x)
  /\ root \notin PathIn(new, x) /\ (\E n \in DOMAIN q : TakesAway(pl, q, n, x)) =>
       \E n \in DOMAIN q2 : TakesAway(new, q2, n, x)
  /\ root \in PathIn(new, x) =>
       \A n \in DOMAIN q2 : TakesAway(new, q2, n, x) =>
         \E m \in DOMAIN q2 : n < m /\ Brings(new, root, q2, m, x)

\* q2 is q, or continues it by a record about e.
Continues(q, q2, kind, e) ==
  \/ q2 = q
  \/ q2 = Append(q, [kind |-> kind, el |-> e])

LEMMA ContinuesAt ==
  ASSUME NEW q \in Seq(Record), NEW kind \in {"added", "removed", "attr"},
         NEW e \in Element, NEW q2, Continues(q, q2, kind, e)
  PROVE  /\ q2 \in Seq(Record) /\ Len(q) \in Nat
         /\ DOMAIN q = 1 .. Len(q)
         /\ \A n \in DOMAIN q : n \in DOMAIN q2 /\ q2[n] = q[n] /\ q[n].el \in Element
                                /\ q[n] \in Record
         /\ \A n \in DOMAIN q2 : \/ n \in DOMAIN q
                                 \/ /\ n = Len(q) + 1 /\ q2 # q
                                    /\ q2[n].kind = kind /\ q2[n].el = e
         /\ q2 # q => /\ Len(q) + 1 \in DOMAIN q2
                      /\ q2[Len(q) + 1].kind = kind /\ q2[Len(q) + 1].el = e
         /\ q2 = Append(q, [kind |-> kind, el |-> e]) => q2 # q
<1> DEFINE r == [kind |-> kind, el |-> e]
<1>1. r \in Record
  BY DEF Record
<1>2. Len(q) \in Nat /\ DOMAIN q = 1 .. Len(q) /\ \A n \in DOMAIN q : q[n] \in Record
  BY LenProperties, ElementOfSeq
<1>3. \A n \in DOMAIN q : q[n].el \in Element
  BY <1>2 DEF Record
<1>4. Append(q, r) # q
  <2> HIDE DEF r
  <2>1. Len(Append(q, r)) = Len(q) + 1
    BY <1>1, AppendProperties
  <2>2. Len(q) + 1 # Len(q)
    <3>1. Len(q) \in Nat
      BY LenProperties
    <3>2. \A i \in Nat : i + 1 # i
      OBVIOUS
    <3> QED BY <3>1, <3>2, Zenon
  <2> QED BY <2>1, <2>2, Zenon
<1>5. r.kind = kind /\ r.el = e
  OBVIOUS
<1>6. CASE q2 = q
  BY <1>2, <1>3, <1>6, <1>4
<1>7. CASE q2 = Append(q, r) /\ q2 # q
  <2> HIDE DEF r
  <2>1. /\ q2 \in Seq(Record) /\ Len(q2) = Len(q) + 1
        /\ \A n \in 1 .. Len(q) : q2[n] = q[n]
        /\ q2[Len(q) + 1] = r
    BY <1>1, <1>7, AppendProperties
  <2>2. DOMAIN q2 = 1 .. Len(q) + 1
    BY <2>1, LenProperties
  <2>3. \A n \in DOMAIN q2 : n \in DOMAIN q \/ n = Len(q) + 1
    BY <1>2, <2>2
  <2>4. Len(q) + 1 \in DOMAIN q2 /\ \A n \in DOMAIN q : n \in DOMAIN q2
    BY <1>2, <2>2
  <2> QED BY <1>2, <1>3, <1>5, <1>7, <2>1, <2>3, <2>4
<1> QED BY <1>6, <1>7 DEF Continues

\* A record is about an element inside root, since its parent was.
LEMMA RecordedBelow ==
  ASSUME NEW pl, Placed(pl), NEW root \in Element \cup {Page},
         NEW q \in Seq(Record), Inside(root, q),
         NEW e \in Element, NEW t \in Nodes, t \in Element => Depth[e] < Depth[t],
         SeesIn(pl, root, q, t)
  PROVE  Below(root, e)
<1> SUFFICES ASSUME root \in Element PROVE Depth[e] < Depth[root]
  BY DEF Below
<1>1. \A w \in Element : Depth[w] \in Nat
  BY DepthProperties
<1>2. \A n \in DOMAIN q : q[n].el \in Element
  BY ContinuesAt DEF Continues
<1>3. PICK z \in Element : z \in PathIn(pl, t) /\ (z = root \/ Depth[z] < Depth[root])
  <2>1. CASE root \in PathIn(pl, t)
    BY <2>1
  <2>2. CASE \E n \in DOMAIN q : q[n].kind = "removed" /\ q[n].el \in PathIn(pl, t)
    BY <1>2, <2>2 DEF Inside, Below
  <2> QED BY <2>1, <2>2 DEF SeesIn
<1>4. t \in Element
  <2>1. Page \notin Element /\ Out \notin Element
    BY StimulusAssumption
  <2> QED BY <1>3, <2>1, PathOfRoot DEF Nodes
<1>5. z = t \/ Depth[t] < Depth[z]
  BY <1>3, <1>4, PathDeeper
<1> QED BY <1>1, <1>3, <1>4, <1>5

\* An element outside the one that moves.
LEMMA ToldElsewhere ==
  ASSUME NEW pl, Placed(pl), NEW new, Placed(new), NEW e \in Element,
         Moved(pl, new, e), NEW root \in Element \cup {Page},
         NEW q, NEW q2, BroughtBack(pl, root, q),
         \A n \in DOMAIN q : n \in DOMAIN q2 /\ q2[n] = q[n],
         \A n \in DOMAIN q2 : n \in DOMAIN q \/ q2[n].el = e,
         NEW x \in Element, e \notin PathIn(pl, x)
  PROVE  ToldOf(pl, new, root, q, q2, x)
<1>0. x \in Nodes
  BY DEF Nodes
<1>1. PathIn(new, x) = PathIn(pl, x)
  BY <1>0, MovedElsewhere
<1>2. \A y \in PathIn(pl, x) : PathIn(new, y) = PathIn(pl, y)
  <2> TAKE y \in PathIn(pl, x)
  <2>1. y \in Nodes /\ PathIn(pl, y) \subseteq PathIn(pl, x)
    BY <1>0, PathBasics, PathThrough
  <2> QED BY <2>1, MovedElsewhere
<1>3. /\ \A n \in DOMAIN q : n \in DOMAIN q2 /\ q2[n] = q[n]
      /\ \A n \in DOMAIN q2 : n \in DOMAIN q \/ q2[n].el = e
  OBVIOUS
<1>4. \A n \in DOMAIN q : /\ TakesAway(pl, q, n, x) <=> TakesAway(new, q2, n, x)
                          /\ Brings(pl, root, q, n, x) => Brings(new, root, q2, n, x)
  BY <1>1, <1>2, <1>3 DEF TakesAway, Brings
<1>5. \A n \in DOMAIN q2 : TakesAway(new, q2, n, x) => n \in DOMAIN q
  BY <1>1, <1>3 DEF TakesAway
<1>6. ASSUME root \in PathIn(new, x), NEW n \in DOMAIN q2, TakesAway(new, q2, n, x)
      PROVE  \E m \in DOMAIN q2 : n < m /\ Brings(new, root, q2, m, x)
  <2>1. n \in DOMAIN q /\ TakesAway(pl, q, n, x)
    BY <1>4, <1>5, <1>6
  <2>2. PICK m \in DOMAIN q : n < m /\ Brings(pl, root, q, m, x)
    BY <1>1, <1>6, <2>1 DEF BroughtBack
  <2> QED BY <1>3, <1>4, <2>2
<1> QED BY <1>1, <1>3, <1>4, <1>6 DEF ToldOf

LEMMA ToldRemoved ==
  ASSUME NEW pl, Placed(pl), NEW new, Placed(new), NEW e \in Element,
         Moved(pl, new, e), new[e] = Out, NEW root \in Element \cup {Page},
         NEW q \in Seq(Record), Inside(root, q), BroughtBack(pl, root, q),
         NEW q2, q2 = IF SeesIn(pl, root, q, pl[e])
                      THEN Append(q, [kind |-> "removed", el |-> e]) ELSE q,
         NEW x \in Element
  PROVE  ToldOf(pl, new, root, q, q2, x)
<1> DEFINE t == pl[e]
           seen == SeesIn(pl, root, q, t)
<1>0. Continues(q, q2, "removed", e)
  BY DEF Continues
<1>1. CASE e \notin PathIn(pl, x)
  <2>1. /\ \A n \in DOMAIN q : n \in DOMAIN q2 /\ q2[n] = q[n]
        /\ \A n \in DOMAIN q2 : n \in DOMAIN q \/ q2[n].el = e
    BY <1>0, ContinuesAt
  <2> QED BY <1>1, <2>1, ToldElsewhere
<1>2. CASE e \in PathIn(pl, x)
  <2>0. x \in Nodes /\ e \in Nodes /\ \A y \in Element : y \in Nodes
    BY DEF Nodes
  <2>1. \A w \in Element : e \in PathIn(pl, w) =>
          \A y \in Element \cup {Page} :
            y \in PathIn(new, w) <=> y \in PathIn(pl, w) /\ e \in PathIn(pl, y)
    BY RemovedPath
  <2>2. /\ \A n \in DOMAIN q : n \in DOMAIN q2 /\ q2[n] = q[n] /\ q[n].el \in Element
        /\ \A n \in DOMAIN q2 : n \in DOMAIN q \/ (n = Len(q) + 1 /\ q2 # q /\ q2[n].el = e)
        /\ q2 # q => Len(q) + 1 \in DOMAIN q2
                     /\ q2[Len(q) + 1].kind = "removed" /\ q2[Len(q) + 1].el = e
    BY <1>0, ContinuesAt
  <2>3. seen => q2 # q
    BY <1>0, ContinuesAt
  <2>4. e \in PathIn(new, x)
    BY <2>0, <1>2, MovedBelow
  <2>5. seen => \E n \in DOMAIN q2 : TakesAway(new, q2, n, x)
    BY <2>2, <2>3, <2>4 DEF TakesAway
  <2>6. PathIn(pl, e) = {e} \cup PathIn(pl, t) /\ e \in PathIn(pl, e)
    BY PathUnfold
  <2>7. root \in PathIn(new, x) => root \in PathIn(pl, x) /\ e \in PathIn(pl, root)
    BY <1>2, <2>1
  <2>8. ASSUME root \in PathIn(new, x), NEW n \in DOMAIN q, Brings(pl, root, q, n, x)
        PROVE  Brings(new, root, q2, n, x)
    <3> DEFINE y == q[n].el
    <3>1. y \in Element /\ y \in PathIn(pl, x) /\ root \in PathIn(pl, y)
      BY <2>2, <2>8 DEF Brings
    <3>2. e \in PathIn(pl, y)
      BY <2>0, <2>7, <2>8, <3>1, PathThrough
    <3>3. y \in PathIn(new, x) /\ root \in PathIn(new, y)
      BY <1>2, <2>1, <2>7, <2>8, <3>1, <3>2
    <3> QED BY <2>2, <2>8, <3>3 DEF Brings
  <2>9. ASSUME root \notin PathIn(new, x), root \in PathIn(pl, x)
        PROVE  seen
    <3>1. e \notin PathIn(pl, root)
      BY <1>2, <2>1, <2>9
    <3>2. root \in PathIn(pl, e)
      BY <1>2, <2>0, <2>9, <3>1, PathChain
    <3> QED BY <2>6, <3>1, <3>2 DEF SeesIn
  <2>10. ASSUME ~seen, NEW n \in DOMAIN q, TakesAway(pl, q, n, x)
         PROVE  TakesAway(new, q2, n, x)
    <3> DEFINE z == q[n].el
    <3>1. z \in Element /\ z \in PathIn(pl, x) /\ z \notin PathIn(pl, t)
      BY <2>2, <2>10 DEF TakesAway, SeesIn
    <3>2. z = e \/ e \in PathIn(pl, z)
      BY <1>2, <2>0, <2>6, <3>1, PathChain
    <3>3. z \in PathIn(new, x)
      BY <1>2, <2>1, <2>6, <3>1, <3>2
    <3> QED BY <2>2, <2>10, <3>3 DEF TakesAway
  <2>11. ASSUME root \in PathIn(new, x) PROVE ~seen
    <3>1. root \in Element /\ e \in PathIn(pl, root)
      <4>1. Page \notin Element
        BY StimulusAssumption
      <4> QED BY <2>7, <2>11, <4>1, PathOfRoot
    <3>2. /\ Depth[e] \in Nat /\ Depth[root] \in Nat
          /\ e = root \/ Depth[root] < Depth[e]
      BY <3>1, PathDeeper
    <3>3. \A z \in Element : z \in PathIn(pl, t) =>
            Depth[z] \in Nat /\ Depth[e] < Depth[z]
      <4> TAKE z \in Element
      <4>1. ASSUME z \in PathIn(pl, t) PROVE Depth[z] \in Nat /\ Depth[e] < Depth[z]
        <5>1. t \in Element
          <6>1. t \in Nodes /\ Page \notin Element /\ Out \notin Element
            BY StimulusAssumption DEF Placed
          <6> QED BY <4>1, <6>1, PathOfRoot DEF Nodes
        <5>2. Depth[e] < Depth[t]
          BY <5>1, PlacedDeeper
        <5>3. Depth[t] \in Nat /\ Depth[z] \in Nat /\ (z = t \/ Depth[t] < Depth[z])
          BY <4>1, <5>1, PathDeeper
        <5> QED BY <3>2, <5>2, <5>3
      <4> QED BY <4>1
    <3>4. root \notin PathIn(pl, t)
      BY <3>1, <3>2, <3>3
    <3>5. ASSUME NEW n \in DOMAIN q, q[n].kind = "removed", q[n].el \in PathIn(pl, t)
          PROVE  FALSE
      <4>1. q[n].el \in Element /\ Depth[q[n].el] < Depth[root]
        BY <2>2, <3>1, <3>5 DEF Inside, Below
      <4>2. Depth[q[n].el] \in Nat /\ Depth[e] < Depth[q[n].el]
        BY <3>3, <3>5, <4>1
      <4> QED BY <3>2, <4>1, <4>2
    <3> QED BY <3>4, <3>5 DEF SeesIn
  <2>12. ASSUME root \in PathIn(new, x), NEW n \in DOMAIN q2, TakesAway(new, q2, n, x)
         PROVE  \E m \in DOMAIN q2 : n < m /\ Brings(new, root, q2, m, x)
    <3>1. q2 = q
      BY <2>11, <2>12
    <3>2. TakesAway(pl, q, n, x)
      BY <1>2, <2>1, <2>2, <2>12, <3>1 DEF TakesAway
    <3>3. PICK m \in DOMAIN q : n < m /\ Brings(pl, root, q, m, x)
      BY <2>7, <2>12, <3>1, <3>2 DEF BroughtBack
    <3> QED BY <2>2, <2>8, <2>12, <3>3
  <2> HIDE DEF seen
  <2>13. root \notin PathIn(new, x) /\ root \in PathIn(pl, x) =>
           \E n \in DOMAIN q2 : TakesAway(new, q2, n, x)
    BY <2>5, <2>9
  <2>14. (\E n \in DOMAIN q : TakesAway(pl, q, n, x)) =>
           \E n \in DOMAIN q2 : TakesAway(new, q2, n, x)
    BY <2>2, <2>5, <2>10
  <2> QED BY <2>7, <2>8, <2>12, <2>13, <2>14 DEF ToldOf
<1> QED BY <1>1, <1>2

LEMMA ToldAppended ==
  ASSUME NEW pl, Placed(pl), NEW new, Placed(new), NEW e \in Element,
         Moved(pl, new, e), pl[e] = Out, new[e] \in Element \cup {Page},
         NEW root \in Element \cup {Page},
         NEW q \in Seq(Record), Inside(root, q), BroughtBack(pl, root, q),
         NEW q2, q2 = IF SeesIn(pl, root, q, new[e])
                      THEN Append(q, [kind |-> "added", el |-> e]) ELSE q,
         NEW x \in Element
  PROVE  ToldOf(pl, new, root, q, q2, x)
<1> DEFINE p == new[e]
<1>0. Continues(q, q2, "added", e)
  BY DEF Continues
<1>1. CASE e \notin PathIn(pl, x)
  <2>1. /\ \A n \in DOMAIN q : n \in DOMAIN q2 /\ q2[n] = q[n]
        /\ \A n \in DOMAIN q2 : n \in DOMAIN q \/ q2[n].el = e
    BY <1>0, ContinuesAt
  <2> QED BY <1>1, <2>1, ToldElsewhere
<1>2. CASE e \in PathIn(pl, x)
  <2>0. /\ x \in Nodes /\ e \in Nodes /\ p \in Nodes /\ \A y \in Element : y \in Nodes
        /\ Page \notin Element /\ Out \notin Element \cup {Page}
    BY StimulusAssumption DEF Nodes
  <2>1. \A w \in Element : e \in PathIn(pl, w) =>
          \A y \in Element \cup {Page} :
            y \in PathIn(new, w) <=> y \in PathIn(pl, w) \/ y \in PathIn(pl, p)
    BY AppendedPath
  <2>2. \A w \in Element : \A y \in Element \cup {Page} :
          y \in PathIn(pl, w) => y \in PathIn(new, w)
    <3> TAKE w \in Element
    <3>1. CASE e \in PathIn(pl, w)
      BY <2>1, <3>1
    <3>2. CASE e \notin PathIn(pl, w)
      BY <2>0, <3>2, MovedElsewhere
    <3> QED BY <3>1, <3>2
  <2>3. /\ Len(q) \in Nat /\ DOMAIN q = 1 .. Len(q)
        /\ \A n \in DOMAIN q : n \in DOMAIN q2 /\ q2[n] = q[n] /\ q[n].el \in Element
        /\ \A n \in DOMAIN q2 : n \in DOMAIN q \/ (n = Len(q) + 1 /\ q2[n].kind = "added")
        /\ q2 # q => Len(q) + 1 \in DOMAIN q2
                     /\ q2[Len(q) + 1].kind = "added" /\ q2[Len(q) + 1].el = e
    BY <1>0, ContinuesAt
  <2>4. SeesIn(pl, root, q, p) => q2 # q
    BY <1>0, ContinuesAt
  <2>5. ASSUME root \in PathIn(pl, p)
        PROVE  Len(q) + 1 \in DOMAIN q2 /\ Brings(new, root, q2, Len(q) + 1, x)
    <3>1. q2 # q
      BY <2>4, <2>5 DEF SeesIn
    <3>2. e \in PathIn(pl, e)
      BY <2>0, PathBasics
    <3>3. root \in PathIn(new, e) /\ e \in PathIn(new, x)
      BY <1>2, <2>1, <2>5, <3>2
    <3> QED BY <2>3, <3>1, <3>3 DEF Brings
  <2>6. \A n \in DOMAIN q : /\ Brings(pl, root, q, n, x) => Brings(new, root, q2, n, x)
                            /\ TakesAway(pl, q, n, x) => TakesAway(new, q2, n, x)
    BY <2>2, <2>3 DEF Brings, TakesAway
  <2>7. root \in PathIn(new, x) <=> root \in PathIn(pl, x) \/ root \in PathIn(pl, p)
    BY <1>2, <2>1
  <2>8. ASSUME root \in PathIn(pl, x), root \notin PathIn(pl, p),
               NEW n \in DOMAIN q, TakesAway(new, q2, n, x)
        PROVE  TakesAway(pl, q, n, x)
    <3> DEFINE z == q[n].el
    <3>1. z \in Element /\ z \in PathIn(new, x) /\ q[n].kind = "removed"
      BY <2>3, <2>8 DEF TakesAway
    <3>2. ASSUME z \in PathIn(pl, p) PROVE FALSE
      <4>1. e \in PathIn(pl, root) /\ root \in Element
        <5>1. PathIn(pl, e) = {e} \cup {Out}
          BY PathUnfold, PathOfRoot
        <5>2. root \in PathIn(pl, e) \/ e \in PathIn(pl, root)
          BY <1>2, <2>0, <2>8, PathChain
        <5>3. e \in PathIn(pl, root)
          BY <2>0, <5>1, <5>2
        <5> QED BY <2>0, <5>3, PathOfRoot
      <4>2. p \in Element
        BY <2>0, <3>1, <3>2, PathOfRoot
      <4>3. Depth[z] < Depth[root]
        BY <2>8, <3>1, <4>1 DEF Inside, Below
      <4>4. Depth[e] < Depth[p]
        BY <4>2, PlacedDeeper
      <4>5. /\ Depth[root] \in Nat /\ Depth[e] \in Nat
            /\ e = root \/ Depth[root] < Depth[e]
        BY <4>1, PathDeeper
      <4>6. /\ Depth[p] \in Nat /\ Depth[z] \in Nat
            /\ z = p \/ Depth[p] < Depth[z]
        BY <3>1, <3>2, <4>2, PathDeeper
      <4> QED BY <4>3, <4>4, <4>5, <4>6
    <3>3. z \in PathIn(pl, x)
      BY <1>2, <2>1, <3>1, <3>2
    <3> QED BY <3>1, <3>3 DEF TakesAway
  <2>9. ASSUME root \in PathIn(new, x), NEW n \in DOMAIN q2, TakesAway(new, q2, n, x)
        PROVE  \E m \in DOMAIN q2 : n < m /\ Brings(new, root, q2, m, x)
    <3>1. n \in DOMAIN q
      BY <2>3, <2>9 DEF TakesAway
    <3>2. CASE root \in PathIn(pl, p)
      <4>1. n \in 1 .. Len(q) /\ Len(q) \in Nat
        BY <2>3, <3>1
      <4>2. n < Len(q) + 1
        BY <4>1
      <4> QED BY <2>5, <3>2, <4>2
    <3>3. CASE root \notin PathIn(pl, p)
      <4>1. root \in PathIn(pl, x)
        BY <2>7, <2>9, <3>3
      <4>2. TakesAway(pl, q, n, x)
        BY <2>8, <2>9, <3>1, <3>3, <4>1
      <4>3. PICK m \in DOMAIN q : n < m /\ Brings(pl, root, q, m, x)
        BY <3>1, <4>1, <4>2 DEF BroughtBack
      <4> QED BY <2>3, <2>6, <4>3
    <3> QED BY <3>2, <3>3
  <2>10. (\E n \in DOMAIN q : TakesAway(pl, q, n, x)) =>
           \E n \in DOMAIN q2 : TakesAway(new, q2, n, x)
    BY <2>3, <2>6
  <2>11. root \in PathIn(new, x) /\ root \notin PathIn(pl, x) =>
           \E n \in DOMAIN q2 : Brings(new, root, q2, n, x)
    BY <2>5, <2>7
  <2> QED BY <2>6, <2>7, <2>9, <2>10, <2>11 DEF ToldOf
<1> QED BY <1>1, <1>2

\* The observer processes a record, and the document is as it was.
LEMMA NextRecord ==
  ASSUME NEW q \in Seq(Record), q # <<>>
  PROVE  /\ Tail(q) \in Seq(Record) /\ Head(q) = q[1] /\ Head(q) \in Record
         /\ 1 \in DOMAIN q
         /\ \A n \in DOMAIN Tail(q) : n \in Nat /\ n + 1 \in DOMAIN q /\ Tail(q)[n] = q[n + 1]
         /\ \A n \in DOMAIN q : n \in Nat /\ n >= 1
                                /\ (n # 1 => n - 1 \in DOMAIN Tail(q) /\ Tail(q)[n - 1] = q[n])
<1>1. Len(q) \in Nat /\ Len(q) # 0 /\ DOMAIN q = 1 .. Len(q)
  BY LenProperties, EmptySeq
<1>2. /\ Tail(q) \in Seq(Record) /\ Len(Tail(q)) = Len(q) - 1 /\ Head(q) \in Record
      /\ \A i \in 1 .. Len(Tail(q)) : Tail(q)[i] = q[i + 1]
  BY HeadTailProperties
<1>3. DOMAIN Tail(q) = 1 .. Len(q) - 1
  BY <1>2, LenProperties
<1>4. Head(q) = q[1]
  OBVIOUS
<1>5. \A n \in DOMAIN Tail(q) : n \in Nat /\ n + 1 \in DOMAIN q /\ Tail(q)[n] = q[n + 1]
  BY <1>1, <1>2, <1>3
<1>6. \A n \in DOMAIN q : n \in Nat /\ n >= 1
        /\ (n # 1 => n - 1 \in DOMAIN Tail(q) /\ n - 1 + 1 = n)
  BY <1>1, <1>3
<1>7. \A n \in DOMAIN q : n # 1 => Tail(q)[n - 1] = q[n]
  BY <1>5, <1>6
<1> QED BY <1>1, <1>2, <1>4, <1>5, <1>6, <1>7

LEMMA RecordProcessed ==
  ASSUME NEW pl, NEW root, NEW q \in Seq(Record), q # <<>>,
         Inside(root, q), BroughtBack(pl, root, q)
  PROVE  /\ Inside(root, Tail(q)) /\ BroughtBack(pl, root, Tail(q))
         /\ \A x \in Element :
              /\ root \in PathIn(pl, x) /\ TakesAway(pl, q, 1, x) =>
                   \E n \in DOMAIN Tail(q) : Brings(pl, root, Tail(q), n, x)
              /\ \A n \in DOMAIN q : Brings(pl, root, q, n, x) =>
                   \/ n = 1
                   \/ \E m \in DOMAIN Tail(q) : Brings(pl, root, Tail(q), m, x)
              /\ \A n \in DOMAIN q : TakesAway(pl, q, n, x) =>
                   \/ n = 1
                   \/ \E m \in DOMAIN Tail(q) : TakesAway(pl, Tail(q), m, x)
<1> DEFINE q2 == Tail(q)
<1>0. /\ 1 \in DOMAIN q
      /\ \A n \in DOMAIN q2 : n \in Nat /\ n + 1 \in DOMAIN q /\ q2[n] = q[n + 1]
      /\ \A n \in DOMAIN q : n \in Nat /\ n >= 1
                             /\ (n # 1 => n - 1 \in DOMAIN q2 /\ q2[n - 1] = q[n])
  BY NextRecord
<1> HIDE DEF q2
<1>1. Inside(root, q2)
  BY <1>0 DEF Inside
<1>2. \A n \in DOMAIN q : n # 1 => \A x :
        /\ Brings(pl, root, q, n, x) <=> Brings(pl, root, q2, n - 1, x)
        /\ TakesAway(pl, q, n, x) <=> TakesAway(pl, q2, n - 1, x)
  BY <1>0 DEF Brings, TakesAway
<1>3. ASSUME NEW x \in Element, root \in PathIn(pl, x), NEW n \in DOMAIN q,
             TakesAway(pl, q, n, x)
      PROVE  \E m \in DOMAIN q2 : n - 1 < m /\ Brings(pl, root, q2, m, x)
  <2>1. PICK m \in DOMAIN q : n < m /\ Brings(pl, root, q, m, x)
    BY <1>3 DEF BroughtBack
  <2>2. m # 1 /\ n - 1 < m - 1
    BY <1>0, <1>3, <2>1
  <2> QED BY <1>0, <1>2, <2>1, <2>2
<1>4. BroughtBack(pl, root, q2)
  <2> SUFFICES ASSUME NEW x \in Element, root \in PathIn(pl, x), NEW n \in DOMAIN q2,
                      TakesAway(pl, q2, n, x)
               PROVE  \E m \in DOMAIN q2 : n < m /\ Brings(pl, root, q2, m, x)
    BY DEF BroughtBack
  <2>1. n + 1 \in DOMAIN q /\ n + 1 - 1 = n /\ TakesAway(pl, q, n + 1, x)
    BY <1>0 DEF TakesAway
  <2> QED BY <1>3, <2>1
<1>5. ASSUME NEW x \in Element
      PROVE  /\ root \in PathIn(pl, x) /\ TakesAway(pl, q, 1, x) =>
                  \E n \in DOMAIN q2 : Brings(pl, root, q2, n, x)
             /\ \A n \in DOMAIN q : Brings(pl, root, q, n, x) =>
                   n = 1 \/ \E m \in DOMAIN q2 : Brings(pl, root, q2, m, x)
             /\ \A n \in DOMAIN q : TakesAway(pl, q, n, x) =>
                   n = 1 \/ \E m \in DOMAIN q2 : TakesAway(pl, q2, m, x)
  <2>1. root \in PathIn(pl, x) /\ TakesAway(pl, q, 1, x) =>
          \E n \in DOMAIN q2 : Brings(pl, root, q2, n, x)
    BY <1>0, <1>3
  <2>2. \A n \in DOMAIN q : Brings(pl, root, q, n, x) =>
          n = 1 \/ \E m \in DOMAIN q2 : Brings(pl, root, q2, m, x)
    BY <1>0, <1>2
  <2>3. \A n \in DOMAIN q : TakesAway(pl, q, n, x) =>
          n = 1 \/ \E m \in DOMAIN q2 : TakesAway(pl, q2, m, x)
    BY <1>0, <1>2
  <2> QED BY <2>1, <2>2, <2>3
<1> QED BY <1>1, <1>4, <1>5 DEF q2

-----------------------------------------------------------------------------
(* The bindings of contexts *)

\* The records are of nodes that come and go.
Moves(q) == \A n \in DOMAIN q : q[n].kind # "attr"

\* The records of c put right what is wrong with its bindings b.
BindOK(pl, c, b, q) ==
  /\ \A x \in b : x \in Element /\ c[2] \in Acting[x]
  /\ q \in Seq(Record) /\ Moves(q) /\ Inside(c[1], q) /\ BroughtBack(pl, c[1], q)
  /\ \A x \in Element : c[2] \in Acting[x] =>
       /\ c[1] \in PathIn(pl, x) /\ x \notin b =>
            \E n \in DOMAIN q : Brings(pl, c[1], q, n, x)
       /\ c[1] \notin PathIn(pl, x) /\ x \in b =>
            \E n \in DOMAIN q : TakesAway(pl, q, n, x)

BindInv ==
  \A c \in Scope :
    /\ c \notin connected => bound[c] = {} /\ bindRecords[c] = <<>>
    /\ c \in connected => BindOK(place, c, bound[c], bindRecords[c])

LEMMA ActionsIn ==
  ASSUME NEW e, NEW i
  PROVE  Actions(e, i) = {x \in Element : e \in PathIn(place, x) /\ i \in Acting[x]}
BY PathIsPathIn DEF Actions, Tree

LEMMA SeesIsSeesIn ==
  ASSUME NEW root, NEW q, NEW t
  PROVE  Sees(root, q, t) <=> SeesIn(place, root, q, t)
BY PathIsPathIn DEF Sees, SeesIn

\* A BindingObserver starts with what it finds.
LEMMA BindFresh ==
  ASSUME NEW c \in Scope
  PROVE  BindOK(place, c, Actions(c[1], c[2]), <<>>)
<1>1. <<>> \in Seq(Record) /\ DOMAIN <<>> = {}
  BY EmptySeq
<1>2. Inside(c[1], <<>>) /\ BroughtBack(place, c[1], <<>>) /\ Moves(<<>>)
  BY <1>1 DEF Inside, BroughtBack, Moves
<1> QED BY <1>1, <1>2, ActionsIn DEF BindOK

\* An element moves, and the observer is told.
LEMMA BindMoved ==
  ASSUME NEW pl, NEW new, NEW c, NEW b, NEW q, NEW q2, BindOK(pl, c, b, q),
         q2 \in Seq(Record), Moves(q2), Inside(c[1], q2),
         \A n \in DOMAIN q : n \in DOMAIN q2,
         \A x \in Element : ToldOf(pl, new, c[1], q, q2, x)
  PROVE  BindOK(new, c, b, q2)
<1>1. BroughtBack(new, c[1], q2)
  BY DEF ToldOf, BroughtBack
<1>2. ASSUME NEW x \in Element, c[2] \in Acting[x],
             c[1] \in PathIn(new, x), x \notin b
      PROVE  \E n \in DOMAIN q2 : Brings(new, c[1], q2, n, x)
  <2>1. CASE c[1] \in PathIn(pl, x)
    BY <1>2, <2>1 DEF BindOK, ToldOf
  <2>2. CASE c[1] \notin PathIn(pl, x)
    BY <1>2, <2>2 DEF ToldOf
  <2> QED BY <2>1, <2>2
<1>3. ASSUME NEW x \in Element, c[2] \in Acting[x],
             c[1] \notin PathIn(new, x), x \in b
      PROVE  \E n \in DOMAIN q2 : TakesAway(new, q2, n, x)
  <2>1. CASE c[1] \in PathIn(pl, x)
    BY <1>3, <2>1 DEF ToldOf
  <2>2. CASE c[1] \notin PathIn(pl, x)
    BY <1>3, <2>2 DEF BindOK, ToldOf
  <2> QED BY <2>1, <2>2
<1> QED BY <1>1, <1>2, <1>3 DEF BindOK

\* The observer processes a record.
LEMMA BindProcessed ==
  ASSUME NEW c \in Scope, NEW b, NEW q, BindOK(place, c, b, q), q # <<>>,
         Placed(place), NEW b2,
         b2 = IF q[1].kind = "removed" THEN b \ Actions(q[1].el, c[2])
              ELSE IF c[1] \in Path(q[1].el) THEN b \cup Actions(q[1].el, c[2]) ELSE b
  PROVE  BindOK(place, c, b2, Tail(q))
<1> DEFINE r == q[1]
<1>1. q \in Seq(Record) /\ Moves(q) /\ Inside(c[1], q) /\ BroughtBack(place, c[1], q)
  BY DEF BindOK
<1>2. Tail(q) \in Seq(Record) /\ r \in Record /\ r.el \in Element /\ 1 \in DOMAIN q
      /\ (r.kind = "removed" \/ r.kind = "added") /\ Moves(Tail(q))
  <2>1. /\ Tail(q) \in Seq(Record) /\ r \in Record /\ 1 \in DOMAIN q
        /\ \A n \in DOMAIN Tail(q) : n + 1 \in DOMAIN q /\ Tail(q)[n] = q[n + 1]
    BY <1>1, NextRecord
  <2>2. Moves(Tail(q))
    BY <1>1, <2>1 DEF Moves
  <2>3. r.kind # "attr"
    BY <1>1, <2>1 DEF Moves
  <2> QED BY <2>1, <2>2, <2>3 DEF Record
<1>3. /\ Inside(c[1], Tail(q)) /\ BroughtBack(place, c[1], Tail(q))
      /\ \A x \in Element :
           /\ c[1] \in PathIn(place, x) /\ TakesAway(place, q, 1, x) =>
                \E n \in DOMAIN Tail(q) : Brings(place, c[1], Tail(q), n, x)
           /\ \A n \in DOMAIN q : Brings(place, c[1], q, n, x) =>
                \/ n = 1
                \/ \E m \in DOMAIN Tail(q) : Brings(place, c[1], Tail(q), m, x)
           /\ \A n \in DOMAIN q : TakesAway(place, q, n, x) =>
                \/ n = 1
                \/ \E m \in DOMAIN Tail(q) : TakesAway(place, Tail(q), m, x)
  BY <1>1, RecordProcessed
<1>4. \A x \in b2 : x \in Element /\ c[2] \in Acting[x]
  BY ActionsIn DEF BindOK
<1>5. ASSUME NEW x \in Element, c[2] \in Acting[x],
             c[1] \in PathIn(place, x), x \notin b2
      PROVE  \E n \in DOMAIN Tail(q) : Brings(place, c[1], Tail(q), n, x)
  <2>1. CASE x \in b
    <3>1. r.kind = "removed" /\ r.el \in PathIn(place, x)
      BY <1>5, <2>1, ActionsIn
    <3>2. TakesAway(place, q, 1, x)
      BY <3>1 DEF TakesAway
    <3> QED BY <1>3, <1>5, <3>2
  <2>2. CASE x \notin b
    <3>1. PICK n \in DOMAIN q : Brings(place, c[1], q, n, x)
      BY <1>5, <2>2 DEF BindOK
    <3>2. CASE n = 1
      <4>1. r.kind = "added" /\ r.el \in PathIn(place, x) /\ c[1] \in Path(r.el)
        BY <3>1, <3>2, PathIsPathIn DEF Brings
      <4>2. x \in Actions(r.el, c[2])
        BY <1>5, <4>1, ActionsIn
      <4> QED BY <1>5, <4>1, <4>2
    <3> QED BY <1>3, <3>1, <3>2
  <2> QED BY <2>1, <2>2
<1>6. ASSUME NEW x \in Element, c[2] \in Acting[x],
             c[1] \notin PathIn(place, x), x \in b2
      PROVE  \E n \in DOMAIN Tail(q) : TakesAway(place, Tail(q), n, x)
  <2>1. x \in b
    <3>1. ASSUME c[1] \in Path(r.el), x \in Actions(r.el, c[2]) PROVE FALSE
      <4>1. x \in Nodes /\ c[1] \in PathIn(place, r.el) /\ r.el \in PathIn(place, x)
        BY <3>1, PathIsPathIn, ActionsIn DEF Nodes
      <4> QED BY <1>6, <4>1, PathThrough
    <3> QED BY <1>6, <3>1
  <2>2. PICK n \in DOMAIN q : TakesAway(place, q, n, x)
    BY <1>6, <2>1 DEF BindOK
  <2>3. CASE n = 1
    <3>1. r.kind = "removed" /\ r.el \in PathIn(place, x)
      BY <2>2, <2>3 DEF TakesAway
    <3> QED BY <1>6, <3>1, ActionsIn
  <2> QED BY <1>3, <2>2, <2>3
<1> QED BY <1>2, <1>3, <1>4, <1>5, <1>6 DEF BindOK

LEMMA ReconnectBinds ==
  ASSUME TypeOK, BindInv, NEW off, NEW on \in SUBSET Scope,
         Reconnect(off, on), place' = place
  PROVE  BindInv'
<1>1. /\ connected' = (connected \ off) \cup on
      /\ bound' = [c \in Scope |-> IF c \in on THEN Actions(c[1], c[2])
                                   ELSE IF c \in off THEN {} ELSE bound[c]]
      /\ bindRecords' = [c \in Scope |->
                           IF c \in on \cup off THEN <<>> ELSE bindRecords[c]]
  BY DEF Reconnect, Effect
<1> SUFFICES ASSUME NEW c \in Scope
             PROVE  /\ c \notin connected' => bound'[c] = {} /\ bindRecords'[c] = <<>>
                    /\ c \in connected' =>
                         BindOK(place, c, bound'[c], bindRecords'[c])
  BY DEF BindInv
<1>2. CASE c \in on
  BY <1>1, <1>2, BindFresh
<1>3. CASE c \notin on /\ c \in off
  BY <1>1, <1>3
<1>4. CASE c \notin on \cup off
  BY <1>1, <1>4 DEF BindInv
<1> QED BY <1>2, <1>3, <1>4

LEMMA ElementsChangeReconnects ==
  ASSUME NEW gone, NEW new, NEW changed, elementsChange(gone, new, changed)
  PROVE  \E off, on \in SUBSET Scope : Reconnect(off, on)
<1>1. PICK unmatched, matched : scopesChange(unmatched, matched)
  BY DEF elementsChange
<1>2. PICK off, on : off \in SUBSET Scope /\ on \in SUBSET Scope /\ scopesConnect(off, on)
  BY <1>1 DEF scopesChange
<1> DEFINE off2 == {c \in off : c[2] \in modules}
           on2 == {c \in on : c[2] \in modules}
<1>3. off2 \in SUBSET Scope /\ on2 \in SUBSET Scope /\ Reconnect(off2, on2)
  BY <1>2 DEF scopesConnect
<1> QED BY <1>3

\* What is recorded of a node that comes or goes.
LEMMA AppendAt ==
  ASSUME NEW q \in Seq(Record), NEW r \in Record
  PROVE  /\ Append(q, r) \in Seq(Record)
         /\ \A n \in DOMAIN q : n \in DOMAIN Append(q, r) /\ Append(q, r)[n] = q[n]
         /\ \A n \in DOMAIN Append(q, r) : n \in DOMAIN q \/ Append(q, r)[n] = r
         /\ \E n \in DOMAIN Append(q, r) : Append(q, r)[n] = r
<1> DEFINE q2 == Append(q, r)
<1>1. /\ q2 \in Seq(Record) /\ Len(q) \in Nat /\ Len(q2) = Len(q) + 1
      /\ \A i \in 1 .. Len(q) : q2[i] = q[i]
      /\ q2[Len(q) + 1] = r
  BY AppendProperties, LenProperties
<1>2. DOMAIN q = 1 .. Len(q) /\ DOMAIN q2 = 1 .. Len(q) + 1
  BY <1>1, LenProperties
<1> HIDE DEF q2
<1>3. \A n \in DOMAIN q2 : n \in DOMAIN q \/ n = Len(q) + 1
  BY <1>1, <1>2
<1>4. \A n \in DOMAIN q : n \in DOMAIN q2
  BY <1>1, <1>2
<1>5. /\ \A n \in DOMAIN q : q2[n] = q[n]
      /\ \A n \in DOMAIN q2 : n \in DOMAIN q \/ q2[n] = r
  BY <1>1, <1>2, <1>3
<1>6. Len(q) + 1 \in DOMAIN q2
  BY <1>1, <1>2
<1> QED BY <1>1, <1>4, <1>5, <1>6 DEF q2

MoveRecorded(q, q2, e) ==
  Continues(q, q2, "removed", e) \/ Continues(q, q2, "added", e)

LEMMA ContinuedBy ==
  ASSUME NEW q \in Seq(Record), NEW e \in Element, NEW q2,
         MoveRecorded(q, q2, e)
  PROVE  /\ q2 \in Seq(Record)
         /\ \A n \in DOMAIN q : n \in DOMAIN q2 /\ q2[n] = q[n]
         /\ \A n \in DOMAIN q2 : \/ n \in DOMAIN q
                                 \/ q2[n].el = e /\ q2[n].kind # "attr"
<1>1. ASSUME NEW r \in Record, q2 = Append(q, r), r.el = e, r.kind # "attr"
      PROVE  /\ q2 \in Seq(Record)
             /\ \A n \in DOMAIN q : n \in DOMAIN q2 /\ q2[n] = q[n]
             /\ \A n \in DOMAIN q2 : \/ n \in DOMAIN q
                                     \/ q2[n].el = e /\ q2[n].kind # "attr"
  <2>1. /\ q2 \in Seq(Record)
        /\ \A n \in DOMAIN q : n \in DOMAIN q2 /\ q2[n] = q[n]
        /\ \A n \in DOMAIN q2 : n \in DOMAIN q \/ q2[n] = r
    BY <1>1, AppendAt
  <2> QED BY <1>1, <2>1, Zenon
<1>2. q2 = q \/ \E r \in Record : q2 = Append(q, r) /\ r.el = e /\ r.kind # "attr"
  <2> DEFINE a == [kind |-> "removed", el |-> e]
             b == [kind |-> "added", el |-> e]
  <2>1. /\ a \in Record /\ a.el = e /\ a.kind # "attr"
        /\ b \in Record /\ b.el = e /\ b.kind # "attr"
    BY DEF Record
  <2>2. q2 = q \/ q2 = Append(q, a) \/ q2 = Append(q, b)
    BY DEF MoveRecorded, Continues
  <2> HIDE DEF a, b
  <2> QED BY <2>1, <2>2
<1>3. CASE q2 = q
  BY <1>3
<1> QED BY <1>1, <1>2, <1>3

LEMMA RecordedInside ==
  ASSUME NEW root, NEW q \in Seq(Record), Inside(root, q), Moves(q),
         NEW e \in Element, NEW q2, q2 # q => Below(root, e),
         MoveRecorded(q, q2, e)
  PROVE  /\ q2 \in Seq(Record) /\ Inside(root, q2) /\ Moves(q2)
         /\ \A n \in DOMAIN q : n \in DOMAIN q2
<1>1. /\ q2 \in Seq(Record)
      /\ \A n \in DOMAIN q : n \in DOMAIN q2 /\ q2[n] = q[n]
      /\ \A n \in DOMAIN q2 : \/ n \in DOMAIN q
                              \/ q2[n].el = e /\ q2[n].kind # "attr"
  BY ContinuedBy
<1>2. q2 # q => Below(root, e)
  OBVIOUS
<1>3. Inside(root, q2)
  BY <1>1, <1>2 DEF Inside
<1>4. Moves(q2)
  BY <1>1 DEF Moves
<1> QED BY <1>1, <1>3, <1>4

\* The queue of an observer of root after a change at t.
QueueAfter(pl, root, q, t, kind, e) ==
  IF SeesIn(pl, root, q, t) THEN Append(q, [kind |-> kind, el |-> e]) ELSE q

LEMMA BindRemoved ==
  ASSUME NEW pl, Placed(pl), NEW new, Placed(new), NEW e \in Element,
         Moved(pl, new, e), new[e] = Out,
         NEW c \in Scope, NEW b, NEW q, BindOK(pl, c, b, q),
         NEW q2, q2 = QueueAfter(pl, c[1], q, pl[e], "removed", e)
  PROVE  BindOK(new, c, b, q2)
<1>1. /\ q \in Seq(Record) /\ Moves(q) /\ Inside(c[1], q) /\ BroughtBack(pl, c[1], q)
      /\ c[1] \in Element \cup {Page}
  BY DEF BindOK, Scope
<1>2. pl[e] \in Nodes /\ (pl[e] \in Element => Depth[e] < Depth[pl[e]])
  BY PlacedDeeper DEF Placed
<1>3. Continues(q, q2, "removed", e) /\ (q2 # q => SeesIn(pl, c[1], q, pl[e]))
  BY DEF QueueAfter, Continues
<1>4. /\ q2 \in Seq(Record) /\ Inside(c[1], q2) /\ Moves(q2)
      /\ \A n \in DOMAIN q : n \in DOMAIN q2
  <2>1. q2 # q => Below(c[1], e)
    BY <1>1, <1>2, <1>3, RecordedBelow
  <2>2. MoveRecorded(q, q2, e)
    BY <1>3 DEF MoveRecorded
  <2> QED BY <1>1, <2>1, <2>2, RecordedInside
<1>5. \A x \in Element : ToldOf(pl, new, c[1], q, q2, x)
  BY <1>1, ToldRemoved DEF QueueAfter
<1> QED BY <1>4, <1>5, BindMoved

LEMMA BindAppended ==
  ASSUME NEW pl, Placed(pl), NEW new, Placed(new), NEW e \in Element,
         Moved(pl, new, e), pl[e] = Out, new[e] \in Element \cup {Page},
         NEW c \in Scope, NEW b, NEW q, BindOK(pl, c, b, q),
         NEW q2, q2 = QueueAfter(pl, c[1], q, new[e], "added", e)
  PROVE  BindOK(new, c, b, q2)
<1>1. /\ q \in Seq(Record) /\ Moves(q) /\ Inside(c[1], q) /\ BroughtBack(pl, c[1], q)
      /\ c[1] \in Element \cup {Page}
  BY DEF BindOK, Scope
<1>2. new[e] \in Nodes /\ (new[e] \in Element => Depth[e] < Depth[new[e]])
  BY PlacedDeeper DEF Placed
<1>3. Continues(q, q2, "added", e) /\ (q2 # q => SeesIn(pl, c[1], q, new[e]))
  BY DEF QueueAfter, Continues
<1>4. /\ q2 \in Seq(Record) /\ Inside(c[1], q2) /\ Moves(q2)
      /\ \A n \in DOMAIN q : n \in DOMAIN q2
  <2>1. q2 # q => Below(c[1], e)
    BY <1>1, <1>2, <1>3, RecordedBelow
  <2>2. MoveRecorded(q, q2, e)
    BY <1>3 DEF MoveRecorded
  <2> QED BY <1>1, <2>1, <2>2, RecordedInside
<1>5. \A x \in Element : ToldOf(pl, new, c[1], q, q2, x)
  BY <1>1, ToldAppended DEF QueueAfter
<1> QED BY <1>4, <1>5, BindMoved

\* The elements are where scripts put them, and move one at a time.
LEMMA InitPlaced == Init => Placed(place)
BY DEF Init, Placed, Nodes

LEMMA RemoveMoves ==
  ASSUME Placed(place), NEW e \in Element, remove(e)
  PROVE  Placed(place') /\ Moved(place, place', e) /\ place'[e] = Out
BY DEF remove, Placed, Moved, Nodes

LEMMA AppendMoves ==
  ASSUME Placed(place), NEW e \in Element, NEW p \in Spots[e], appendChild(e, p)
  PROVE  /\ Placed(place') /\ Moved(place, place', e)
         /\ place[e] = Out /\ place'[e] = p /\ p \in Element \cup {Page}
<1>1. p \in Element \cup {Page}
  BY StimulusAssumption
<1>2. place' = [place EXCEPT ![e] = p] /\ place[e] = Out
  BY DEF appendChild
<1>3. place'[e] = p /\ \A x \in Element : x # e => place'[x] = place[x]
  BY <1>2 DEF Placed
<1>4. place' \in [Element -> Nodes]
  BY <1>1, <1>2 DEF Placed, Nodes
<1>5. \A x \in Element : place'[x] \in Spots[x] \cup {Out}
  BY <1>3 DEF Placed
<1> QED BY <1>1, <1>2, <1>3, <1>4, <1>5 DEF Placed, Moved

LEMMA NextPlaced ==
  ASSUME Placed(place), [Next]_vars
  PROVE  Placed(place')
<1>1. CASE place' = place
  BY <1>1
<1>2. ASSUME NEW e \in Element, NEW p \in Spots[e], appendChild(e, p)
      PROVE  Placed(place')
  BY <1>2, AppendMoves
<1>3. ASSUME NEW e \in Element, remove(e)
      PROVE  Placed(place')
  BY <1>3, RemoveMoves
<1>4. \/ place' = place
      \/ \E e \in Element : (\E p \in Spots[e] : appendChild(e, p)) \/ remove(e)
  BY DEF Next, vars, domVars, setAttribute, processMutation, processBindings,
         start, domReady, stop, observerStops, loadDefinition, unloadIdentifier
<1> QED BY <1>1, <1>2, <1>3, <1>4

LEMMA RecordedQueues ==
  ASSUME NEW kind, NEW e, NEW t, Recorded(kind, e, t)
  PROVE  /\ records' = IF started THEN QueueAfter(place, Page, records, t, kind, e)
                       ELSE records
         /\ \A c \in Scope : bindRecords'[c] =
              IF c \in connected /\ kind # "attr"
              THEN QueueAfter(place, c[1], bindRecords[c], t, kind, e)
              ELSE bindRecords[c]
BY SeesIsSeesIn DEF Recorded, QueueAfter

LEMMA NextBindInv ==
  ASSUME TypeOK, Placed(place), BindInv, [Next]_vars
  PROVE  BindInv'
<1>0. bound \in [Scope -> SUBSET Element] /\ bindRecords \in [Scope -> Seq(Record)]
  BY DEF TypeOK
<1>1. CASE UNCHANGED <<place, connected, bound, bindRecords>>
  BY <1>1 DEF BindInv
<1>2. ASSUME NEW e \in Element, NEW list \in Lists[e], setAttribute(e, list)
      PROVE  BindInv'
  <2>1. bindRecords' = bindRecords
    BY <1>0, <1>2 DEF setAttribute, Recorded
  <2> QED BY <1>1, <1>2, <2>1 DEF setAttribute
<1>3. ASSUME NEW e \in Element, NEW p \in Spots[e], appendChild(e, p)
      PROVE  BindInv'
  <2>1. /\ Placed(place') /\ Moved(place, place', e)
        /\ place[e] = Out /\ place'[e] = p /\ p \in Element \cup {Page}
    BY <1>3, AppendMoves
  <2>2. \A c \in Scope : bindRecords'[c] =
          IF c \in connected
          THEN QueueAfter(place, c[1], bindRecords[c], place'[e], "added", e)
          ELSE bindRecords[c]
    BY <1>3, <2>1, RecordedQueues DEF appendChild
  <2>3. connected' = connected /\ bound' = bound
    BY <1>3 DEF appendChild
  <2>4. ASSUME NEW c \in Scope, c \in connected
        PROVE  BindOK(place', c, bound[c], bindRecords'[c])
    <3>1. BindOK(place, c, bound[c], bindRecords[c])
      BY <2>4 DEF BindInv
    <3>2. bindRecords'[c] = QueueAfter(place, c[1], bindRecords[c], place'[e], "added", e)
      BY <2>2, <2>4
    <3> QED BY <2>1, <3>1, <3>2, BindAppended
  <2> QED BY <2>2, <2>3, <2>4 DEF BindInv
<1>4. ASSUME NEW e \in Element, remove(e)
      PROVE  BindInv'
  <2>1. Placed(place') /\ Moved(place, place', e) /\ place'[e] = Out
    BY <1>4, RemoveMoves
  <2>2. \A c \in Scope : bindRecords'[c] =
          IF c \in connected
          THEN QueueAfter(place, c[1], bindRecords[c], place[e], "removed", e)
          ELSE bindRecords[c]
    BY <1>4, RecordedQueues DEF remove
  <2>3. connected' = connected /\ bound' = bound
    BY <1>4 DEF remove
  <2>4. ASSUME NEW c \in Scope, c \in connected
        PROVE  BindOK(place', c, bound[c], bindRecords'[c])
    <3>1. BindOK(place, c, bound[c], bindRecords[c])
      BY <2>4 DEF BindInv
    <3>2. bindRecords'[c] = QueueAfter(place, c[1], bindRecords[c], place[e], "removed", e)
      BY <2>2, <2>4
    <3> QED BY <2>1, <3>1, <3>2, BindRemoved
  <2> QED BY <2>2, <2>3, <2>4 DEF BindInv
<1>5. CASE processMutation
  <2>1. \E gone, new, changed \in SUBSET Element : elementsChange(gone, new, changed)
    BY <1>5, ProcessMutationLegal
  <2>2. place' = place
    BY <1>5 DEF processMutation, domVars
  <2> QED BY <2>1, <2>2, ElementsChangeReconnects, ReconnectBinds
<1>6. ASSUME NEW d \in Scope, processBindings(d)
      PROVE  BindInv'
  <2> DEFINE q == bindRecords[d]
             b2 == IF q[1].kind = "removed" THEN bound[d] \ Actions(q[1].el, d[2])
                   ELSE IF d[1] \in Path(q[1].el)
                        THEN bound[d] \cup Actions(q[1].el, d[2]) ELSE bound[d]
  <2>1. /\ q # <<>> /\ q \in Seq(Record)
        /\ place' = place /\ connected' = connected
    BY <1>0, <1>6 DEF processBindings, domVars
  <2>2. Head(q) = q[1]
    OBVIOUS
  <2>3. bound' = [bound EXCEPT ![d] = b2] /\ bindRecords' = [bindRecords EXCEPT ![d] = Tail(q)]
    BY <1>6, <2>2 DEF processBindings
  <2>4. d \in connected
    BY <2>1 DEF BindInv
  <2>5. BindOK(place, d, b2, Tail(q))
    <3>1. BindOK(place, d, bound[d], q)
      BY <2>4 DEF BindInv
    <3> QED BY <2>1, <3>1, BindProcessed
  <2> HIDE DEF b2
  <2>6. /\ bound'[d] = b2 /\ bindRecords'[d] = Tail(q)
        /\ \A c \in Scope : c # d => bound'[c] = bound[c] /\ bindRecords'[c] = bindRecords[c]
    BY <1>0, <2>3
  <2>7. ASSUME NEW c \in Scope
        PROVE  /\ c \notin connected => bound'[c] = {} /\ bindRecords'[c] = <<>>
               /\ c \in connected => BindOK(place, c, bound'[c], bindRecords'[c])
    <3>1. CASE c = d
      BY <2>4, <2>5, <2>6, <3>1
    <3>2. CASE c # d
      BY <2>6, <3>2 DEF BindInv
    <3> QED BY <3>1, <3>2
  <2> QED BY <2>1, <2>7 DEF BindInv
<1>7. CASE domReady
  <2>1. place' = place
    BY <1>7 DEF domReady, domVars
  <2>2. CASE UNCHANGED <<scopeVars, contextVars>>
    BY <1>1, <2>1, <2>2 DEF contextVars
  <2>3. CASE ~ UNCHANGED <<scopeVars, contextVars>>
    <3>1. \E gone, new, changed \in SUBSET Element : elementsChange(gone, new, changed)
      BY <1>7, <2>3, DomReadyLegal
    <3> QED BY <2>1, <3>1, ElementsChangeReconnects, ReconnectBinds
  <2> QED BY <2>2, <2>3
<1>8. ASSUME NEW i \in Identifier, loadDefinition(i) \/ unloadIdentifier(i)
      PROVE  BindInv'
  <2>1. \E off, on \in SUBSET Scope : Reconnect(off, on)
    <3>1. ScopesOf(i) \in SUBSET Scope /\ {} \in SUBSET Scope
      BY DEF ScopesOf, TypeOK
    <3>2. CASE loadDefinition(i)
      BY <3>1, <3>2 DEF loadDefinition
    <3>3. CASE unloadIdentifier(i)
      BY <3>1, <3>3 DEF unloadIdentifier
    <3> QED BY <1>8, <3>2, <3>3
  <2>2. place' = place
    BY <1>8 DEF loadDefinition, unloadIdentifier, domVars
  <2> QED BY <2>1, <2>2, ReconnectBinds
<1>9. CASE start \/ stop \/ UNCHANGED vars
  BY <1>1, <1>9 DEF start, stop, observerStops, vars, domVars, contextVars
<1> QED BY <1>2, <1>3, <1>4, <1>5, <1>6, <1>7, <1>8, <1>9 DEF Next

LEMMA BindInvariant == Spec => [](TypeOK /\ Placed(place) /\ BindInv)
<1>1. Init => BindInv
  <2> SUFFICES ASSUME Init PROVE BindInv
    OBVIOUS
  <2>1. connected = {} /\ \A c \in Scope : bound[c] = {} /\ bindRecords[c] = <<>>
    BY DEF Init
  <2> QED BY <2>1 DEF BindInv
<1> DEFINE P == Placed(place)
           I == P /\ BindInv
<1>2. Init => I
  BY <1>1, InitPlaced
<1>3. TypeOK /\ I /\ [Next]_vars => I'
  BY NextPlaced, NextBindInv
<1> HIDE DEF I
<1>4. I => Placed(place) /\ BindInv
  BY DEF I
<1> QED BY <1>2, <1>3, <1>4, TypeCorrect, PTL DEF Spec

\* Whatever elements scripts move, with their trees, before and while the
\* BindingObservers process their records, a context has bindings only while it
\* is connected, and once the records are delivered they are for exactly the
\* actions in its element.
THEOREM BoundRightHolds == Spec => []BoundRight
<1>1. BindInv => BoundRight
  <2> SUFFICES ASSUME BindInv, NEW c \in Scope, c \in connected,
                      ~Pending(records, bindRecords)
               PROVE  bound[c] = Actions(c[1], c[2])
    BY DEF BoundRight, BindInv
  <2>1. bindRecords[c] = <<>>
    BY DEF Pending
  <2>2. BindOK(place, c, bound[c], <<>>) /\ DOMAIN <<>> = {}
    BY <2>1 DEF BindInv
  <2>3. \A x \in bound[c] : x \in Element /\ c[2] \in Acting[x] /\ c[1] \in PathIn(place, x)
    BY <2>2 DEF BindOK
  <2>4. \A x \in Element : c[2] \in Acting[x] /\ c[1] \in PathIn(place, x) => x \in bound[c]
    BY <2>2 DEF BindOK
  <2> QED BY <2>3, <2>4, ActionsIn
<1> QED BY <1>1, BindInvariant, PTL

-----------------------------------------------------------------------------
(* The elements of the router *)

AttrTold(q, x) == \E n \in DOMAIN q : q[n].kind = "attr" /\ q[n].el = x

\* What the records q put right: elements in the page that are not known, known
\* ones that left it or lost data-controller, and lists that changed.
WillFind(pl, at, els, q) ==
  \A x \in Element \ els : Page \in PathIn(pl, x) /\ at[x] # NoAttr =>
    AttrTold(q, x) \/ \E n \in DOMAIN q : Brings(pl, Page, q, n, x)
WillLose(pl, els, q) ==
  \A x \in els : Page \notin PathIn(pl, x) => \E n \in DOMAIN q : TakesAway(pl, q, n, x)
WillDrop(at, els, q) == \A x \in els : at[x] = NoAttr => AttrTold(q, x)
WillRefresh(at, els, tok, ms, q) ==
  \A x \in els \ ms : tok[x] = at[x] \/ AttrTold(q, x)

\* An element that lost data-controller and then the page is not among the
\* matches of the record of the second; until the batch ends its attribute
\* record, which may be processed before, is all that removes it.
RouterInv ==
  /\ ~started /\ ~delivering => records = <<>>
  /\ WillRefresh(attr, elements, tokens, missed, records)
  /\ started =>
       /\ BroughtBack(place, Page, records)
       /\ WillFind(place, attr, elements, records)
       /\ WillDrop(attr, elements, records)
       /\ WillLose(place, {x \in elements : delivering => attr[x] # NoAttr}, records)

\* A queue that has grown tells what it told.
Grown(q, q2) == \A n \in DOMAIN q : n \in DOMAIN q2 /\ q2[n] = q[n]

LEMMA GrownTells ==
  ASSUME NEW q, NEW q2, Grown(q, q2), NEW x
  PROVE  /\ AttrTold(q, x) => AttrTold(q2, x)
         /\ \A pl, root, n : /\ n \in DOMAIN q /\ Brings(pl, root, q, n, x) =>
                                  n \in DOMAIN q2 /\ Brings(pl, root, q2, n, x)
                             /\ n \in DOMAIN q /\ TakesAway(pl, q, n, x) =>
                                  n \in DOMAIN q2 /\ TakesAway(pl, q2, n, x)
<1>1. AttrTold(q, x) => AttrTold(q2, x)
  BY DEF Grown, AttrTold
<1>2. ASSUME NEW pl, NEW root, NEW n \in DOMAIN q
      PROVE  /\ n \in DOMAIN q2
             /\ Brings(pl, root, q, n, x) => Brings(pl, root, q2, n, x)
             /\ TakesAway(pl, q, n, x) => TakesAway(pl, q2, n, x)
  BY DEF Grown, Brings, TakesAway
<1> QED BY <1>1, <1>2

LEMMA AttrRecorded ==
  ASSUME NEW q \in Seq(Record), NEW e \in Element, NEW q2,
         Continues(q, q2, "attr", e)
  PROVE  /\ Grown(q, q2)
         /\ \A n \in DOMAIN q2 : n \in DOMAIN q \/ q2[n].kind = "attr"
         /\ q2 # q => AttrTold(q2, e)
<1> DEFINE r == [kind |-> "attr", el |-> e]
<1>1. r \in Record /\ r.kind = "attr" /\ r.el = e
  BY DEF Record
<1>2. q2 = q \/ q2 = Append(q, r)
  BY DEF Continues
<1> HIDE DEF r
<1>3. CASE q2 = q
  BY <1>3 DEF Grown
<1>4. CASE q2 = Append(q, r)
  <2>1. /\ \A n \in DOMAIN q : n \in DOMAIN q2 /\ q2[n] = q[n]
        /\ \A n \in DOMAIN q2 : n \in DOMAIN q \/ q2[n] = r
        /\ \E n \in DOMAIN q2 : q2[n] = r
    BY <1>1, <1>4, AppendAt
  <2> QED BY <1>1, <2>1 DEF Grown, AttrTold
<1> QED BY <1>2, <1>3, <1>4

LEMMA RouterAttr ==
  ASSUME NEW pl, NEW at, NEW at2, NEW els \in SUBSET Element, NEW e \in Element,
         \A x \in Element : x # e => at2[x] = at[x],
         NEW q, NEW q2, Grown(q, q2),
         \A n \in DOMAIN q2 : n \in DOMAIN q \/ q2[n].kind = "attr",
         SeesIn(pl, Page, q, e) => AttrTold(q2, e),
         BroughtBack(pl, Page, q), WillFind(pl, at, els, q), WillDrop(at, els, q),
         WillLose(pl, els, q)
  PROVE  /\ BroughtBack(pl, Page, q2) /\ WillFind(pl, at2, els, q2)
         /\ WillDrop(at2, els, q2) /\ WillLose(pl, els, q2)
<1>1. WillLose(pl, els, q2)
  BY GrownTells DEF WillLose
<1>2. WillFind(pl, at2, els, q2)
  <2> SUFFICES ASSUME NEW x \in Element \ els, Page \in PathIn(pl, x), at2[x] # NoAttr
               PROVE  AttrTold(q2, x) \/ \E n \in DOMAIN q2 : Brings(pl, Page, q2, n, x)
    BY DEF WillFind
  <2>1. CASE x = e
    BY <2>1 DEF SeesIn
  <2>2. CASE x # e
    <3>1. AttrTold(q, x) \/ \E n \in DOMAIN q : Brings(pl, Page, q, n, x)
      BY <2>2 DEF WillFind
    <3> QED BY <3>1, GrownTells
  <2> QED BY <2>1, <2>2
<1>3. WillDrop(at2, els, q2)
  <2> SUFFICES ASSUME NEW x \in els, at2[x] = NoAttr PROVE AttrTold(q2, x)
    BY DEF WillDrop
  <2>1. CASE x = e
    <3>1. SeesIn(pl, Page, q, e)
      BY <2>1 DEF WillLose, SeesIn, TakesAway
    <3> QED BY <2>1, <3>1
  <2>2. CASE x # e
    <3>1. AttrTold(q, x)
      BY <2>2 DEF WillDrop
    <3> QED BY <3>1, GrownTells
  <2> QED BY <2>1, <2>2
<1>4. BroughtBack(pl, Page, q2)
  <2> SUFFICES ASSUME NEW x \in Element, Page \in PathIn(pl, x), NEW n \in DOMAIN q2,
                      TakesAway(pl, q2, n, x)
               PROVE  \E m \in DOMAIN q2 : n < m /\ Brings(pl, Page, q2, m, x)
    BY DEF BroughtBack
  <2>1. n \in DOMAIN q /\ q2[n] = q[n]
    BY DEF TakesAway, Grown
  <2>2. TakesAway(pl, q, n, x)
    BY <2>1 DEF TakesAway
  <2>3. PICK m \in DOMAIN q : n < m /\ Brings(pl, Page, q, m, x)
    BY <2>1, <2>2 DEF BroughtBack
  <2> QED BY <2>3, GrownTells
<1> QED BY <1>1, <1>2, <1>3, <1>4

LEMMA RouterMoved ==
  ASSUME NEW pl, NEW new, NEW at, NEW els \in SUBSET Element, NEW q, NEW q2,
         Grown(q, q2), \A x \in Element : ToldOf(pl, new, Page, q, q2, x),
         WillFind(pl, at, els, q), WillDrop(at, els, q), WillLose(pl, els, q)
  PROVE  /\ BroughtBack(new, Page, q2) /\ WillFind(new, at, els, q2)
         /\ WillDrop(at, els, q2) /\ WillLose(new, els, q2)
<1>1. BroughtBack(new, Page, q2)
  BY DEF ToldOf, BroughtBack
<1>2. WillDrop(at, els, q2)
  BY GrownTells DEF WillDrop
<1>3. WillFind(new, at, els, q2)
  <2> SUFFICES ASSUME NEW x \in Element \ els, Page \in PathIn(new, x), at[x] # NoAttr
               PROVE  AttrTold(q2, x) \/ \E n \in DOMAIN q2 : Brings(new, Page, q2, n, x)
    BY DEF WillFind
  <2>0. ToldOf(pl, new, Page, q, q2, x)
    OBVIOUS
  <2>1. CASE Page \in PathIn(pl, x)
    <3>1. AttrTold(q, x) \/ \E n \in DOMAIN q : Brings(pl, Page, q, n, x)
      BY <2>1 DEF WillFind
    <3>2. CASE AttrTold(q, x)
      BY <3>2, GrownTells
    <3>3. ASSUME NEW n \in DOMAIN q, Brings(pl, Page, q, n, x)
          PROVE  n \in DOMAIN q2 /\ Brings(new, Page, q2, n, x)
      BY <2>0, <2>1, <3>3 DEF ToldOf, Grown
    <3> QED BY <3>1, <3>2, <3>3
  <2>2. CASE Page \notin PathIn(pl, x)
    BY <2>0, <2>2 DEF ToldOf
  <2> QED BY <2>1, <2>2
<1>4. WillLose(new, els, q2)
  <2> SUFFICES ASSUME NEW x \in els, Page \notin PathIn(new, x)
               PROVE  \E n \in DOMAIN q2 : TakesAway(new, q2, n, x)
    BY DEF WillLose
  <2>0. ToldOf(pl, new, Page, q, q2, x)
    OBVIOUS
  <2>1. CASE Page \in PathIn(pl, x)
    BY <2>0, <2>1 DEF ToldOf
  <2>2. CASE Page \notin PathIn(pl, x)
    <3>1. \E n \in DOMAIN q : TakesAway(pl, q, n, x)
      BY <2>2 DEF WillLose
    <3> QED BY <2>0, <3>1 DEF ToldOf
  <2> QED BY <2>1, <2>2
<1> QED BY <1>1, <1>2, <1>3, <1>4

\* The observer of the router processes the first record: which elements go,
\* come and change.
RecordDone(pl, at, els, q, gone, new, changed) ==
  /\ \A x \in gone : x \in els /\ (at[x] = NoAttr \/ TakesAway(pl, q, 1, x))
  /\ \A x \in new : x \notin els /\ at[x] # NoAttr /\ Page \in PathIn(pl, x)
  /\ \A x \in Element : q[1].kind = "attr" /\ q[1].el = x =>
       /\ x \in els => x \in gone \cup changed
       /\ x \in els /\ at[x] = NoAttr => x \in gone
       /\ x \notin els /\ at[x] # NoAttr /\ Page \in PathIn(pl, x) => x \in new
  /\ \A x \in Element \ els : at[x] # NoAttr /\ Brings(pl, Page, q, 1, x) => x \in new
  /\ \A x \in els : at[x] # NoAttr /\ TakesAway(pl, q, 1, x) => x \in gone

LEMMA ProcessMutationDone ==
  ASSUME TypeOK, Placed(place), processMutation
  PROVE  \E gone, new, changed \in SUBSET Element :
           /\ RecordDone(place, attr, elements, records, gone, new, changed)
           /\ elementsChange(gone, new, changed)
<1> DEFINE e == records[1].el
<1>0. elements \in SUBSET Element /\ records \in Seq(Record) /\ records # <<>>
  BY DEF TypeOK, processMutation
<1>1. Head(records) = records[1] /\ e \in Element
  BY <1>0, NextRecord DEF Record
<1>2. \A x : x \in Tree(e) <=> x \in Element /\ e \in PathIn(place, x)
  BY PathIsPathIn DEF Tree
<1>3. \A x : Active(x) <=> Page \in PathIn(place, x)
  BY PathIsPathIn DEF Active
<1>4. CASE records[1].kind = "attr" /\ processAttributeChange(e)
  <2>0. \A n, x : ~Brings(place, Page, records, 1, x) /\ ~TakesAway(place, records, 1, x)
    BY <1>4 DEF Brings, TakesAway
  <2>1. CASE e \in elements /\ attr[e] # NoAttr /\ elementsChange({}, {}, {e})
    <3>1. RecordDone(place, attr, elements, records, {}, {}, {e})
      BY <2>0, <2>1 DEF RecordDone
    <3> QED BY <1>1, <2>1, <3>1
  <2>2. CASE e \in elements /\ attr[e] = NoAttr /\ elementsChange({e}, {}, {})
    <3>1. RecordDone(place, attr, elements, records, {e}, {}, {})
      BY <2>0, <2>2 DEF RecordDone
    <3> QED BY <1>1, <2>2, <3>1
  <2>3. CASE /\ e \notin elements
             /\ elementsChange({}, {x \in {e} : matchElement(x) /\ Active(x)}, {})
    <3> DEFINE new == {x \in {e} : matchElement(x) /\ Active(x)}
    <3>1. \A x : x \in new <=> x = e /\ attr[x] # NoAttr /\ Page \in PathIn(place, x)
      BY <1>3 DEF matchElement
    <3> HIDE DEF new
    <3>2. RecordDone(place, attr, elements, records, {}, new, {})
      BY <2>0, <2>3, <3>1 DEF RecordDone
    <3>3. new \in SUBSET Element
      BY <1>1, <3>1
    <3> QED BY <2>3, <3>2, <3>3 DEF new
  <2> QED BY <1>4, <2>1, <2>2, <2>3 DEF processAttributeChange, matchElement
<1>5. CASE records[1].kind = "removed" /\ processRemovedNodes(e)
  <2> DEFINE gone == elements \cap matchElementsInTree(e)
  <2>0. \A x : /\ ~Brings(place, Page, records, 1, x)
               /\ TakesAway(place, records, 1, x) <=> e \in PathIn(place, x)
    BY <1>5 DEF Brings, TakesAway
  <2>1. \A x : x \in gone <=> x \in elements /\ attr[x] # NoAttr /\ e \in PathIn(place, x)
    BY <1>0, <1>2 DEF matchElementsInTree, matchElement
  <2>2. elementsChange(gone, {}, {}) /\ gone \in SUBSET Element
    BY <1>0, <1>5 DEF processRemovedNodes
  <2> HIDE DEF gone
  <2>3. RecordDone(place, attr, elements, records, gone, {}, {})
    BY <1>5, <2>0, <2>1 DEF RecordDone
  <2> QED BY <2>2, <2>3
<1>6. CASE records[1].kind = "added" /\ processAddedNodes(e)
  <2> DEFINE new == {x \in matchElementsInTree(e) \ elements : Active(e)}
  <2>0. \A x : /\ Brings(place, Page, records, 1, x) <=>
                    e \in PathIn(place, x) /\ Page \in PathIn(place, e)
               /\ ~TakesAway(place, records, 1, x)
    BY <1>6 DEF Brings, TakesAway
  <2>1. \A x : x \in new <=> /\ x \in Element \ elements /\ attr[x] # NoAttr
                             /\ e \in PathIn(place, x) /\ Page \in PathIn(place, e)
    BY <1>2, <1>3 DEF matchElementsInTree, matchElement
  <2>2. elementsChange({}, new, {})
    BY <1>6 DEF processAddedNodes
  <2> HIDE DEF new
  <2>3. \A x \in new : Page \in PathIn(place, x)
    <3> TAKE x \in new
    <3>1. x \in Nodes /\ e \in PathIn(place, x) /\ Page \in PathIn(place, e)
      BY <2>1 DEF Nodes
    <3> QED BY <3>1, PathThrough
  <2>4. RecordDone(place, attr, elements, records, {}, new, {})
    BY <1>6, <2>0, <2>1, <2>3 DEF RecordDone
  <2>5. new \in SUBSET Element
    BY <2>1
  <2> QED BY <2>2, <2>4, <2>5
<1> QED BY <1>1, <1>4, <1>5, <1>6 DEF processMutation

\* The rest of the records puts right what is wrong after the first one.
LEMMA RouterProcessed ==
  ASSUME NEW pl, NEW at, NEW els \in SUBSET Element,
         NEW q \in Seq(Record), q # <<>>,
         NEW gone, NEW new \in SUBSET Element, NEW changed,
         RecordDone(pl, at, els, q, gone, new, changed),
         NEW els2, els2 = (els \ gone) \cup new,
         BroughtBack(pl, Page, q), WillFind(pl, at, els, q), WillDrop(at, els, q),
         WillLose(pl, {x \in els : at[x] # NoAttr}, q)
  PROVE  /\ BroughtBack(pl, Page, Tail(q)) /\ WillFind(pl, at, els2, Tail(q))
         /\ WillDrop(at, els2, Tail(q))
         /\ WillLose(pl, {x \in els2 : at[x] # NoAttr}, Tail(q))
<1> DEFINE q2 == Tail(q)
<1>1. Inside(Page, q)
  BY StimulusAssumption DEF Inside, Below
<1>2. /\ BroughtBack(pl, Page, q2)
      /\ \A x \in Element :
           /\ Page \in PathIn(pl, x) /\ TakesAway(pl, q, 1, x) =>
                \E n \in DOMAIN q2 : Brings(pl, Page, q2, n, x)
           /\ \A n \in DOMAIN q : Brings(pl, Page, q, n, x) =>
                \/ n = 1
                \/ \E m \in DOMAIN q2 : Brings(pl, Page, q2, m, x)
           /\ \A n \in DOMAIN q : TakesAway(pl, q, n, x) =>
                \/ n = 1
                \/ \E m \in DOMAIN q2 : TakesAway(pl, q2, m, x)
  BY <1>1, RecordProcessed
<1>3. \A x \in Element : AttrTold(q, x) =>
        (q[1].kind = "attr" /\ q[1].el = x) \/ AttrTold(q2, x)
  <2>1. \A n \in DOMAIN q : n # 1 => n - 1 \in DOMAIN q2 /\ q2[n - 1] = q[n]
    BY NextRecord
  <2> HIDE DEF q2
  <2> QED BY <2>1 DEF AttrTold
<1> HIDE DEF q2
<1>4. WillFind(pl, at, els2, q2)
  <2> SUFFICES ASSUME NEW x \in Element \ els2, Page \in PathIn(pl, x), at[x] # NoAttr
               PROVE  AttrTold(q2, x) \/ \E n \in DOMAIN q2 : Brings(pl, Page, q2, n, x)
    BY DEF WillFind
  <2>1. CASE x \in els
    <3>1. TakesAway(pl, q, 1, x)
      BY <2>1 DEF RecordDone
    <3> QED BY <1>2, <3>1
  <2>2. CASE x \notin els
    <3>0. x \notin new
      OBVIOUS
    <3>1. CASE AttrTold(q, x)
      <4>1. ~(q[1].kind = "attr" /\ q[1].el = x)
        BY <2>2, <3>0 DEF RecordDone
      <4> QED BY <1>3, <3>1, <4>1
    <3>2. ASSUME NEW n \in DOMAIN q, Brings(pl, Page, q, n, x)
          PROVE  \E m \in DOMAIN q2 : Brings(pl, Page, q2, m, x)
      <4>1. n # 1
        BY <2>2, <3>0, <3>2 DEF RecordDone
      <4> QED BY <1>2, <3>2, <4>1
    <3>3. AttrTold(q, x) \/ \E n \in DOMAIN q : Brings(pl, Page, q, n, x)
      BY <2>2 DEF WillFind
    <3> QED BY <3>1, <3>2, <3>3
  <2> QED BY <2>1, <2>2
<1>5. WillDrop(at, els2, q2)
  <2> SUFFICES ASSUME NEW x \in els2, at[x] = NoAttr PROVE AttrTold(q2, x)
    BY DEF WillDrop
  <2>1. x \in els /\ x \notin gone
    BY DEF RecordDone
  <2>2. AttrTold(q, x)
    BY <2>1 DEF WillDrop
  <2>3. ~(q[1].kind = "attr" /\ q[1].el = x)
    BY <2>1 DEF RecordDone
  <2> QED BY <1>3, <2>1, <2>2, <2>3
<1>6. WillLose(pl, {x \in els2 : at[x] # NoAttr}, q2)
  <2> SUFFICES ASSUME NEW x \in els2, at[x] # NoAttr, Page \notin PathIn(pl, x)
               PROVE  \E n \in DOMAIN q2 : TakesAway(pl, q2, n, x)
    BY DEF WillLose
  <2>1. x \in els /\ x \notin gone
    BY DEF RecordDone
  <2>2. PICK n \in DOMAIN q : TakesAway(pl, q, n, x)
    BY <2>1 DEF WillLose
  <2>3. n # 1
    BY <2>1, <2>2 DEF RecordDone
  <2> QED BY <1>2, <2>1, <2>2, <2>3
<1> QED BY <1>2, <1>4, <1>5, <1>6 DEF q2

LEMMA RefreshProcessed ==
  ASSUME NEW pl, NEW at, NEW els \in SUBSET Element, NEW tok, NEW tok2, NEW ms,
         NEW q \in Seq(Record), q # <<>>,
         NEW gone, NEW new \in SUBSET Element, NEW changed,
         RecordDone(pl, at, els, q, gone, new, changed),
         NEW els2, els2 = (els \ gone) \cup new,
         \A x \in Element : x \notin gone /\ x \in new \cup changed => tok2[x] = at[x],
         \A x \in Element : x \notin gone \cup new \cup changed => tok2[x] = tok[x],
         WillRefresh(at, els, tok, ms, q)
  PROVE  WillRefresh(at, els2, tok2, ms \ (gone \cup new \cup changed), Tail(q))
<1> DEFINE q2 == Tail(q)
<1>1. \A x \in Element : AttrTold(q, x) =>
        (q[1].kind = "attr" /\ q[1].el = x) \/ AttrTold(q2, x)
  <2>1. \A n \in DOMAIN q : n # 1 => n - 1 \in DOMAIN q2 /\ q2[n - 1] = q[n]
    BY NextRecord
  <2> HIDE DEF q2
  <2> QED BY <2>1 DEF AttrTold
<1> HIDE DEF q2
<1> SUFFICES ASSUME NEW x \in els2 \ (ms \ (gone \cup new \cup changed))
             PROVE  tok2[x] = at[x] \/ AttrTold(q2, x)
  BY DEF WillRefresh, q2
<1>2. x \in Element /\ x \notin gone
  BY DEF RecordDone
<1>3. CASE x \in new \cup changed
  BY <1>2, <1>3
<1>4. CASE x \notin new \cup changed
  <2>1. x \in els \ ms /\ tok2[x] = tok[x]
    BY <1>2, <1>4
  <2>2. tok[x] = at[x] \/ AttrTold(q, x)
    BY <2>1 DEF WillRefresh
  <2>3. ~(q[1].kind = "attr" /\ q[1].el = x)
    BY <1>2, <1>4, <2>1 DEF RecordDone
  <2> QED BY <1>1, <1>2, <2>1, <2>2, <2>3
<1> QED BY <1>3, <1>4

\* When the batch ends no record is left, so no element without the attribute
\* is known.
LEMMA LosesAll ==
  ASSUME NEW pl, NEW at, NEW els, NEW els2 \in SUBSET els, NEW q,
         WillDrop(at, els, q), WillLose(pl, {x \in els : at[x] # NoAttr}, q),
         q = <<>> \/ \A x \in els2 : at[x] # NoAttr
  PROVE  WillLose(pl, els2, q)
<1> SUFFICES ASSUME NEW x \in els2, Page \notin PathIn(pl, x)
             PROVE  \E n \in DOMAIN q : TakesAway(pl, q, n, x)
  BY DEF WillLose
<1>1. at[x] # NoAttr
  <2>1. CASE q = <<>>
    <3>1. DOMAIN q = {}
      BY <2>1
    <3>2. ~AttrTold(q, x)
      BY <3>1 DEF AttrTold
    <3> QED BY <3>2 DEF WillDrop
  <2> QED BY <2>1
<1> QED BY <1>1 DEF WillLose

\* What elementsChange does to the elements and the tokens.
LEMMA ElementsChangeEffect ==
  ASSUME NEW gone, NEW new, NEW changed, elementsChange(gone, new, changed)
  PROVE  /\ elements' = (elements \ gone) \cup new
         /\ missed' = missed \ (gone \cup new \cup changed)
         /\ \A x \in Element : x \notin gone /\ x \in new \cup changed => tokens'[x] = attr[x]
         /\ \A x \in Element : x \notin gone \cup new \cup changed => tokens'[x] = tokens[x]
BY DEF elementsChange, elementSet

LEMMA RouterSetAttribute ==
  ASSUME TypeOK, RouterInv, NEW e \in Element, NEW list \in Lists[e],
         setAttribute(e, list)
  PROVE  RouterInv'
<1>1. /\ ~delivering /\ delivering' = delivering /\ started' = started
      /\ place' = place /\ elements' = elements /\ tokens' = tokens
  BY DEF setAttribute, Script, appVars
<1>2. \A x \in Element : x # e => attr'[x] = attr[x]
  BY DEF setAttribute, TypeOK
<1>3. records' = IF started THEN QueueAfter(place, Page, records, e, "attr", e) ELSE records
  BY RecordedQueues DEF setAttribute
<1>4. missed' = IF records' = records THEN missed \cup {e} ELSE missed
  BY DEF setAttribute
<1>5. records \in Seq(Record) /\ elements \in SUBSET Element
  BY DEF TypeOK
<1>6. /\ Continues(records, records', "attr", e)
      /\ started /\ SeesIn(place, Page, records, e) =>
           records' = Append(records, [kind |-> "attr", el |-> e])
  BY <1>3 DEF QueueAfter, Continues
<1>7. /\ Grown(records, records')
      /\ \A n \in DOMAIN records' : n \in DOMAIN records \/ records'[n].kind = "attr"
      /\ records' # records => AttrTold(records', e)
  BY <1>5, <1>6, AttrRecorded
<1>8. started /\ SeesIn(place, Page, records, e) => AttrTold(records', e)
  <2>1. Append(records, [kind |-> "attr", el |-> e]) # records
    BY <1>5, AppendProperties, LenProperties
  <2> QED BY <1>6, <1>7, <2>1
<1>9. WillRefresh(attr', elements, tokens, missed', records')
  <2> SUFFICES ASSUME NEW x \in elements \ missed'
               PROVE  tokens[x] = attr'[x] \/ AttrTold(records', x)
    BY DEF WillRefresh
  <2>1. CASE x = e
    BY <1>4, <1>7, <2>1
  <2>2. CASE x # e
    <3>1. x \in Element /\ x \in elements \ missed /\ attr'[x] = attr[x]
      BY <1>2, <1>4, <1>5, <2>2
    <3>2. tokens[x] = attr[x] \/ AttrTold(records, x)
      BY <3>1 DEF RouterInv, WillRefresh
    <3> QED BY <1>7, <3>1, <3>2, GrownTells
  <2> QED BY <2>1, <2>2
<1>10. CASE ~started
  <2>1. records = <<>> /\ records' = records
    BY <1>1, <1>3, <1>10 DEF RouterInv
  <2> QED BY <1>1, <1>9, <1>10, <2>1 DEF RouterInv
<1>11. CASE started
  <2> DEFINE lost == {x \in elements : delivering => attr[x] # NoAttr}
             lost2 == {x \in elements : delivering => attr'[x] # NoAttr}
  <2>1. lost = elements /\ lost2 = elements
    BY <1>1
  <2>2. /\ BroughtBack(place, Page, records) /\ WillFind(place, attr, elements, records)
        /\ WillDrop(attr, elements, records) /\ WillLose(place, elements, records)
    BY <1>11, <2>1 DEF RouterInv
  <2>3. /\ BroughtBack(place, Page, records') /\ WillFind(place, attr', elements, records')
        /\ WillDrop(attr', elements, records') /\ WillLose(place, elements, records')
    BY <1>2, <1>5, <1>7, <1>8, <1>11, <2>2, RouterAttr
  <2>4. WillLose(place, lost2, records')
    BY <2>1, <2>3
  <2> QED BY <1>1, <1>9, <1>11, <2>3, <2>4 DEF RouterInv
<1> QED BY <1>10, <1>11

LEMMA RouterMove ==
  ASSUME TypeOK, RouterInv, Placed(place),
         NEW e \in Element, (\E p \in Spots[e] : appendChild(e, p)) \/ remove(e)
  PROVE  RouterInv'
<1>1. /\ ~delivering /\ delivering' = delivering /\ started' = started
      /\ attr' = attr /\ elements' = elements /\ tokens' = tokens /\ missed' = missed
  BY DEF appendChild, remove, Script, appVars, scopeVars
<1>2. records \in Seq(Record) /\ elements \in SUBSET Element /\ Inside(Page, records)
  BY StimulusAssumption DEF TypeOK, Inside, Below
<1>3. CASE ~started
  <2>1. records' = records
    BY <1>3 DEF appendChild, remove, Recorded
  <2> QED BY <1>1, <1>3, <2>1 DEF RouterInv
<1>4. CASE started
  <2>1. BroughtBack(place, Page, records)
    BY <1>4 DEF RouterInv
  <2>2. MoveRecorded(records, records', e)
    BY DEF appendChild, remove, Recorded, MoveRecorded, Continues
  <2>3. Grown(records, records')
    BY <1>2, <2>2, ContinuedBy DEF Grown
  <2>4. ASSUME NEW p \in Spots[e], appendChild(e, p)
        PROVE  \A x \in Element : ToldOf(place, place', Page, records, records', x)
    <3>1. /\ Placed(place') /\ Moved(place, place', e)
          /\ place[e] = Out /\ place'[e] = p /\ p \in Element \cup {Page}
      BY <2>4, AppendMoves
    <3>2. records' = IF SeesIn(place, Page, records, place'[e])
                     THEN Append(records, [kind |-> "added", el |-> e]) ELSE records
      BY <1>4, <2>4, <3>1, RecordedQueues DEF appendChild, QueueAfter
    <3> QED BY <1>2, <2>1, <3>1, <3>2, ToldAppended
  <2>5. ASSUME remove(e)
        PROVE  \A x \in Element : ToldOf(place, place', Page, records, records', x)
    <3>1. Placed(place') /\ Moved(place, place', e) /\ place'[e] = Out
      BY <2>5, RemoveMoves
    <3>2. records' = IF SeesIn(place, Page, records, place[e])
                     THEN Append(records, [kind |-> "removed", el |-> e]) ELSE records
      BY <1>4, <2>5, RecordedQueues DEF remove, QueueAfter
    <3> QED BY <1>2, <2>1, <3>1, <3>2, ToldRemoved
  <2>6. \A x \in Element : ToldOf(place, place', Page, records, records', x)
    BY <2>4, <2>5
  <2> DEFINE lost == {x \in elements : delivering => attr[x] # NoAttr}
  <2>7. lost = elements
    BY <1>1
  <2>8. /\ WillFind(place, attr, elements, records)
        /\ WillDrop(attr, elements, records) /\ WillLose(place, elements, records)
    BY <1>4, <2>7 DEF RouterInv
  <2>9. /\ BroughtBack(place', Page, records') /\ WillFind(place', attr, elements, records')
        /\ WillDrop(attr, elements, records') /\ WillLose(place', elements, records')
    BY <1>2, <2>3, <2>6, <2>8, RouterMoved
  <2>10. WillLose(place', lost, records')
    BY <2>7, <2>9
  <2>11. WillRefresh(attr, elements, tokens, missed, records')
    BY <2>3, GrownTells DEF RouterInv, WillRefresh
  <2> QED BY <1>1, <1>4, <2>9, <2>10, <2>11 DEF RouterInv
<1> QED BY <1>3, <1>4

LEMMA RouterProcess ==
  ASSUME TypeOK, RouterInv, Placed(place), processMutation
  PROVE  RouterInv'
<1>1. /\ records # <<>> /\ records' = Tail(records)
      /\ place' = place /\ attr' = attr /\ started' = started
      /\ delivering' = Pending(records', bindRecords')
  BY DEF processMutation, domVars, appVars
<1>2. records \in Seq(Record) /\ elements \in SUBSET Element
  BY DEF TypeOK
<1>3. PICK gone, new, changed \in SUBSET Element :
        /\ RecordDone(place, attr, elements, records, gone, new, changed)
        /\ elementsChange(gone, new, changed)
  BY ProcessMutationDone
<1>4. /\ elements' = (elements \ gone) \cup new
      /\ missed' = missed \ (gone \cup new \cup changed)
      /\ \A x \in Element : x \notin gone /\ x \in new \cup changed => tokens'[x] = attr[x]
      /\ \A x \in Element : x \notin gone \cup new \cup changed => tokens'[x] = tokens[x]
  BY <1>3, ElementsChangeEffect
<1>5. WillRefresh(attr, elements', tokens', missed', records')
  <2>1. WillRefresh(attr, elements, tokens, missed, records)
    BY DEF RouterInv
  <2> QED BY <1>1, <1>2, <1>3, <1>4, <2>1, RefreshProcessed
<1>6. ~delivering' => records' = <<>>
  BY <1>1 DEF Pending
<1>7. CASE started
  <2> DEFINE lost == {x \in elements' : delivering' => attr[x] # NoAttr}
             lost0 == {x \in elements : delivering => attr[x] # NoAttr}
             known0 == {x \in elements : attr[x] # NoAttr}
             known == {x \in elements' : attr[x] # NoAttr}
  <2>1. /\ BroughtBack(place, Page, records) /\ WillFind(place, attr, elements, records)
        /\ WillDrop(attr, elements, records) /\ WillLose(place, lost0, records)
    BY <1>7 DEF RouterInv
  <2>2. WillLose(place, known0, records)
    BY <2>1 DEF WillLose
  <2>3. /\ BroughtBack(place, Page, records') /\ WillFind(place, attr, elements', records')
        /\ WillDrop(attr, elements', records') /\ WillLose(place, known, records')
    BY <1>1, <1>2, <1>3, <1>4, <2>1, <2>2, RouterProcessed
  <2>4. lost \in SUBSET elements' /\ (records' = <<>> \/ \A x \in lost : attr[x] # NoAttr)
    BY <1>6
  <2> HIDE DEF lost
  <2>5. WillLose(place, lost, records')
    BY <2>3, <2>4, LosesAll
  <2> QED BY <1>1, <1>5, <1>6, <1>7, <2>3, <2>5 DEF RouterInv, lost
<1>8. CASE ~started
  BY <1>1, <1>5, <1>6, <1>8 DEF RouterInv
<1> QED BY <1>7, <1>8

LEMMA RouterReady ==
  ASSUME TypeOK, RouterInv, Placed(place), domReady
  PROVE  RouterInv'
<1>1. /\ ~delivering /\ delivering' = delivering /\ started' = TRUE
      /\ place' = place /\ attr' = attr /\ records' = records
  BY DEF domReady, domVars
<1>2. CASE started /\ UNCHANGED <<scopeVars, contextVars>>
  BY <1>1, <1>2 DEF RouterInv, scopeVars
<1>3. CASE ~started
  <2> DEFINE matches == {e \in Element : Active(e) /\ matchElement(e)}
             gone == elements \ matches
             new == matches \ elements
             lost == {x \in elements' : delivering' => attr[x] # NoAttr}
  <2>1. \A x : x \in matches <=> x \in Element /\ Page \in PathIn(place, x) /\ attr[x] # NoAttr
    BY PathIsPathIn DEF Active, matchElement
  <2>2. elementsChange(gone, new, {})
    BY <1>3 DEF domReady
  <2> HIDE DEF matches
  <2>3. records = <<>> /\ DOMAIN records = {}
    BY <1>1, <1>3 DEF RouterInv
  <2>4. /\ elements' = (elements \ gone) \cup new
        /\ missed' = missed \ (gone \cup new \cup {})
        /\ \A x \in Element : x \notin gone /\ x \in new \cup {} => tokens'[x] = attr[x]
        /\ \A x \in Element : x \notin gone \cup new \cup {} => tokens'[x] = tokens[x]
    BY <2>2, ElementsChangeEffect
  <2>5. elements' = matches
    BY <2>4
  <2>6. WillRefresh(attr, elements', tokens', missed', records)
    <3> SUFFICES ASSUME NEW x \in elements', x \notin missed'
                 PROVE  tokens'[x] = attr[x] \/ AttrTold(records, x)
      BY DEF WillRefresh
    <3>1. x \in matches /\ x \in Element /\ x \notin gone
      BY <2>1, <2>5
    <3>2. CASE x \in new
      BY <2>4, <3>1, <3>2
    <3>3. CASE x \notin new
      <4>1. x \in elements \ missed /\ tokens'[x] = tokens[x]
        BY <2>4, <3>1, <3>3
      <4> QED BY <4>1 DEF RouterInv, WillRefresh
    <3> QED BY <3>2, <3>3
  <2>7. BroughtBack(place, Page, records) /\ WillFind(place, attr, elements', records)
    BY <2>1, <2>3, <2>5 DEF BroughtBack, WillFind
  <2>8. WillDrop(attr, elements', records) /\ WillLose(place, lost, records)
    BY <2>1, <2>5 DEF WillDrop, WillLose
  <2> QED BY <1>1, <2>6, <2>7, <2>8 DEF RouterInv
<1> QED BY <1>2, <1>3 DEF domReady

LEMMA RouterStop ==
  ASSUME TypeOK, RouterInv, stop
  PROVE  RouterInv'
<1>1. /\ started' = FALSE /\ delivering' = delivering
      /\ attr' = attr /\ elements' = elements /\ tokens' = tokens
      /\ records' = IF delivering THEN records ELSE <<>>
      /\ missed' = IF delivering THEN missed
                   ELSE missed \cup {e \in Element : \E n \in DOMAIN records :
                                       records[n] = [kind |-> "attr", el |-> e]}
  BY DEF stop, observerStops, domVars
<1>2. WillRefresh(attr, elements, tokens, missed, records)
  BY DEF RouterInv
<1>3. CASE delivering
  BY <1>1, <1>2, <1>3 DEF RouterInv
<1>4. CASE ~delivering
  <2>1. \A x \in Element : AttrTold(records, x) => x \in missed'
    <3> SUFFICES ASSUME NEW x \in Element, NEW n \in DOMAIN records,
                        records[n].kind = "attr", records[n].el = x
                 PROVE  x \in missed'
      BY DEF AttrTold
    <3>1. records[n] \in Record
      BY DEF TypeOK
    <3>2. records[n] = [kind |-> "attr", el |-> x]
      BY <3>1 DEF Record
    <3> QED BY <1>1, <1>4, <3>2
  <2>2. missed \subseteq missed' /\ elements \subseteq Element
    BY <1>1 DEF TypeOK
  <2>3. WillRefresh(attr, elements, tokens, missed', records')
    BY <1>2, <2>1, <2>2 DEF WillRefresh
  <2> QED BY <1>1, <1>4, <2>3 DEF RouterInv
<1> QED BY <1>3, <1>4

\* Steps that leave the router alone, but may end the batch.
LEMMA RouterLeft ==
  ASSUME TypeOK, RouterInv,
         UNCHANGED <<place, attr, started, records, elements, tokens, missed>>,
         delivering' = delivering \/ records = <<>>
  PROVE  RouterInv'
<1>1. CASE delivering' = delivering
  BY <1>1 DEF RouterInv
<1>2. CASE records = <<>>
  <2> DEFINE lost == {x \in elements : delivering' => attr[x] # NoAttr}
             lost0 == {x \in elements : delivering => attr[x] # NoAttr}
             known == {x \in elements : attr[x] # NoAttr}
  <2>1. CASE started
    <3>1. /\ WillDrop(attr, elements, records) /\ WillLose(place, lost0, records)
      BY <2>1 DEF RouterInv
    <3>2. WillLose(place, known, records)
      BY <3>1 DEF WillLose
    <3>3. lost \in SUBSET elements
      OBVIOUS
    <3> HIDE DEF lost
    <3>4. WillLose(place, lost, records)
      BY <1>2, <3>1, <3>2, <3>3, LosesAll
    <3> QED BY <1>2, <2>1, <3>4 DEF RouterInv, lost
  <2>2. CASE ~started
    BY <1>2, <2>2 DEF RouterInv
  <2> QED BY <2>1, <2>2
<1> QED BY <1>1, <1>2

LEMMA NextRouterInv ==
  ASSUME TypeOK, Placed(place), RouterInv, [Next]_vars
  PROVE  RouterInv'
<1>1. ASSUME NEW c \in Scope, processBindings(c)
      PROVE  RouterInv'
  <2>1. /\ UNCHANGED <<place, attr, started, records, elements, tokens, missed>>
        /\ records = <<>>
    BY <1>1 DEF processBindings, domVars, appVars, scopeVars
  <2> QED BY <2>1, RouterLeft
<1>2. ASSUME NEW i \in Identifier, loadDefinition(i) \/ unloadIdentifier(i)
      PROVE  RouterInv'
  <2>1. /\ UNCHANGED <<place, attr, started, records, elements, tokens, missed>>
        /\ delivering' = (delivering /\ Pending(records, bindRecords'))
    BY <1>2 DEF loadDefinition, unloadIdentifier, domVars, appVars, scopeVars
  <2>2. delivering' = delivering \/ records = <<>>
    <3>1. delivering \in BOOLEAN
      BY DEF TypeOK
    <3> QED BY <2>1, <3>1 DEF Pending
  <2> QED BY <2>1, <2>2, RouterLeft
<1>3. CASE start \/ UNCHANGED vars
  <2>1. /\ UNCHANGED <<place, attr, started, records, elements, tokens, missed>>
        /\ delivering' = delivering
    BY <1>3 DEF start, vars, domVars, appVars, scopeVars
  <2> QED BY <2>1, RouterLeft
<1> QED BY <1>1, <1>2, <1>3, RouterSetAttribute, RouterMove, RouterProcess,
           RouterReady, RouterStop DEF Next

LEMMA CountPositive ==
  ASSUME NEW list \in Seq(Identifier), NEW i
  PROVE  Count(list, i) > 0 <=> \E n \in DOMAIN list : list[n] = i
<1> DEFINE S == {n \in DOMAIN list : list[n] = i}
<1>1. DOMAIN list = 1 .. Len(list) /\ Len(list) \in Nat
  BY LenProperties
<1>2. IsFiniteSet(1 .. Len(list))
  BY <1>1, FS_Interval
<1>3. IsFiniteSet(S)
  BY <1>1, <1>2, FS_Subset
<1>4. Cardinality(S) \in Nat /\ (Cardinality(S) = 0 <=> S = {})
  BY <1>3, FS_CardinalityType, FS_EmptySet
<1>5. Cardinality(S) > 0 <=> S # {}
  BY <1>4
<1> QED BY <1>5 DEF Count

LEMMA RouterInvariant ==
  Spec => [](/\ TypeOK /\ Placed(place) /\ BindInv /\ RouterInv
             /\ OneLife /\ RefsCount /\ TokensKnown)
<1>1. Init => RouterInv
  <2> SUFFICES ASSUME Init PROVE RouterInv
    OBVIOUS
  <2> QED BY DEF Init, RouterInv, WillRefresh
<1>2. TypeOK /\ Placed(place) /\ RouterInv /\ [Next]_vars => RouterInv'
  BY NextRouterInv
<1> QED BY <1>1, <1>2, BindInvariant, OneLifeHolds, CountsInvariant, PTL DEF Spec

\* Which elements the router knows when all records are delivered.
LEMMA SettledElements ==
  ASSUME TypeOK, RouterInv, Quiet, NEW e \in Element
  PROVE  /\ e \in elements <=> Active(e) /\ attr[e] # NoAttr
         /\ e \in elements /\ e \notin missed => tokens[e] = attr[e]
<1> DEFINE lost == {x \in elements : delivering => attr[x] # NoAttr}
<1>1. started /\ records = <<>> /\ DOMAIN records = {}
  BY DEF Quiet, Pending
<1>2. /\ WillFind(place, attr, elements, records)
      /\ WillDrop(attr, elements, records) /\ WillLose(place, lost, records)
      /\ WillRefresh(attr, elements, tokens, missed, records)
  BY <1>1 DEF RouterInv
<1>3. ~AttrTold(records, e)
  BY <1>1 DEF AttrTold
<1>4. Active(e) <=> Page \in PathIn(place, e)
  BY PathIsPathIn DEF Active
<1>5. ASSUME e \in elements PROVE attr[e] # NoAttr
  BY <1>2, <1>3, <1>5 DEF WillDrop
<1>6. ASSUME e \in elements PROVE Page \in PathIn(place, e)
  <2>1. e \in lost
    BY <1>5, <1>6
  <2> QED BY <1>1, <1>2, <2>1 DEF WillLose
<1>7. ASSUME e \notin elements, Page \in PathIn(place, e), attr[e] # NoAttr PROVE FALSE
  BY <1>1, <1>2, <1>3, <1>7 DEF WillFind
<1>8. ASSUME e \in elements, e \notin missed PROVE tokens[e] = attr[e]
  BY <1>2, <1>3, <1>8 DEF WillRefresh
<1> QED BY <1>4, <1>5, <1>6, <1>7, <1>8

LEMMA SettledInSync ==
  ASSUME TypeOK, RouterInv, OneLife, RefsCount, TokensKnown
  PROVE  InSync
<1> SUFFICES ASSUME Quiet, NEW c \in Scope, c[1] \notin missed
             PROVE  c \in connected <=>
                      Active(c[1]) /\ Names(c[1], c[2]) /\ c[2] \in modules
  BY DEF InSync
<1> DEFINE e == c[1]
           i == c[2]
<1>1. e \in Element /\ i \in Identifier
  BY DEF Scope
<1>2. tokens[e] \in Seq(Identifier)
  BY <1>1 DEF TypeOK
<1>3. /\ e \in elements <=> Active(e) /\ attr[e] # NoAttr
      /\ e \in elements => tokens[e] = attr[e]
  BY <1>1, SettledElements
<1>4. c \in connected <=> refs[c] > 0 /\ i \in modules
  BY DEF OneLife
<1>5. refs[c] > 0 <=> \E n \in DOMAIN tokens[e] : tokens[e][n] = i
  BY <1>2, CountPositive DEF RefsCount
<1>6. ASSUME NEW n \in DOMAIN tokens[e] PROVE e \in elements
  <2>1. tokens[e] # <<>>
    BY <1>2, <1>6
  <2> QED BY <1>1, <2>1 DEF TokensKnown
<1>7. Names(e, i) <=> attr[e] # NoAttr /\ \E n \in DOMAIN attr[e] : attr[e][n] = i
  BY DEF Names
<1>8. refs[c] > 0 <=> Active(e) /\ Names(e, i)
  BY <1>3, <1>5, <1>6, <1>7
<1> QED BY <1>4, <1>8

\* However scripts move elements and change data-controller before and between
\* the batches of records, and however the application stops and starts, once
\* the records are delivered the connected controllers are those of the elements
\* in the page that name a loaded identifier, but for lists that changed while
\* nobody observed them.
THEOREM InSyncHolds == Spec => []InSync
<1>1. TypeOK /\ RouterInv /\ OneLife /\ RefsCount /\ TokensKnown => InSync
  BY SettledInSync
<1> QED BY <1>1, RouterInvariant, PTL

-----------------------------------------------------------------------------
(* Events *)

\* The innermost element around x that names i is one element.
LEMMA ClosestIsOne ==
  ASSUME Placed(place), NEW x \in Element, NEW i,
         NEW y \in Closest(x, i), NEW z \in Closest(x, i)
  PROVE  y = z
<1>1. y \in Element /\ z \in Element /\ y \in Path(z) /\ z \in Path(y)
  BY DEF Closest
<1>2. y \in PathIn(place, z) /\ z \in PathIn(place, y)
  BY <1>1, PathIsPathIn
<1> QED BY <1>1, <1>2, PathAntisymmetric

LEMMA SettledInvokes ==
  ASSUME TypeOK, Placed(place), InSync, BoundRight
  PROVE  InvokesInnermost
<1> SUFFICES ASSUME Quiet, missed = {}, NEW target \in Element, Active(target),
                    NEW el \in Path(target) \cap Element,
                    NEW i \in Acting[el] \cap modules
             PROVE  {c \in handleEvent(el, target) : c[2] = i} =
                      (Closest(target, i) \cap Path(el)) \X {i}
  BY DEF InvokesInnermost
<1>1. started /\ ~Pending(records, bindRecords) /\ i \in Identifier
  BY DEF Quiet, TypeOK
<1>2. /\ target \in Nodes /\ el \in Nodes /\ Page \notin Element /\ Page \in Nodes
      /\ el \in PathIn(place, target) /\ Page \in PathIn(place, target)
  BY PathIsPathIn, StimulusAssumption DEF Nodes, Active
<1>3. Path(el) \subseteq Path(target)
  BY <1>2, PathThrough, PathIsPathIn
<1>4. ASSUME NEW y \in Path(el) \cap Element PROVE Active(y)
  <2>1. y \in PathIn(place, target)
    BY <1>3, <1>4, PathIsPathIn
  <2>2. Page \in PathIn(place, y) \/ y \in PathIn(place, Page)
    BY <1>2, <2>1, PathChain
  <2>3. PathIn(place, Page) = {Page}
    BY PathOfRoot
  <2> QED BY <1>2, <1>4, <2>2, <2>3, PathIsPathIn DEF Active
<1>5. ASSUME NEW y \in Element
      PROVE  el \in bound[<<y, i>>] <=> y \in Path(el) /\ Names(y, i)
  <2> DEFINE c == <<y, i>>
  <2>1. c \in Scope /\ c[1] = y /\ c[2] = i
    BY <1>1 DEF Scope
  <2> HIDE DEF c
  <2>2. c \in connected <=> Active(y) /\ Names(y, i) /\ i \in modules
    BY <2>1 DEF InSync
  <2>3. c \notin connected => bound[c] = {}
    BY <2>1 DEF BoundRight
  <2>4. c \in connected => bound[c] = Actions(y, i)
    BY <1>1, <2>1 DEF BoundRight
  <2>5. el \in Actions(y, i) <=> y \in Path(el)
    BY DEF Actions, Tree
  <2> QED BY <1>4, <2>2, <2>3, <2>4, <2>5 DEF c
<1>6. ASSUME NEW y \in Element, y \in Path(el), Names(y, i)
      PROVE  willBeInvokedByEvent(<<y, i>>, el, target) <=> y \in Closest(target, i)
  <2>1. y \in Path(target)
    BY <1>3, <1>6
  <2>2. willBeInvokedByEvent(<<y, i>>, el, target) <=>
          y = target \/ Closest(target, i) = {y}
    BY <2>1 DEF willBeInvokedByEvent
  <2>3. y = target => y \in Closest(target, i)
    BY <1>6, <2>1 DEF Closest
  <2>4. y \in Closest(target, i) => Closest(target, i) = {y}
    BY ClosestIsOne
  <2> QED BY <2>2, <2>3, <2>4
<1>7. \A y \in Closest(target, i) : y \in Element /\ Names(y, i)
  BY DEF Closest
<1>8. ASSUME NEW c
      PROVE  (c \in handleEvent(el, target) /\ c[2] = i) <=>
               c \in (Closest(target, i) \cap Path(el)) \X {i}
  <2>1. ASSUME c \in handleEvent(el, target), c[2] = i
        PROVE  c \in (Closest(target, i) \cap Path(el)) \X {i}
    <3>1. PICK y \in Element : c = <<y, i>>
      BY <2>1 DEF handleEvent, bindings, Scope
    <3>2. el \in bound[<<y, i>>] /\ willBeInvokedByEvent(<<y, i>>, el, target)
      BY <2>1, <3>1 DEF handleEvent, bindings
    <3> QED BY <1>5, <1>6, <3>1, <3>2
  <2>2. ASSUME c \in (Closest(target, i) \cap Path(el)) \X {i}
        PROVE  c \in handleEvent(el, target) /\ c[2] = i
    <3>1. PICK y \in Closest(target, i) \cap Path(el) : c = <<y, i>>
      BY <2>2
    <3>2. y \in Element /\ Names(y, i) /\ c \in Scope /\ c[2] = i
      BY <1>1, <1>7, <3>1 DEF Scope
    <3>3. el \in bound[c] /\ willBeInvokedByEvent(c, el, target)
      BY <1>5, <1>6, <3>1, <3>2
    <3> QED BY <1>1, <3>2, <3>3 DEF handleEvent, bindings
  <2> QED BY <2>1, <2>2
<1> QED BY <1>8

\* Once the records are delivered, an event in the page invokes each action
\* around it in the innermost controller around its target that it is meant for,
\* and in no other: the bindings, which the observers made one record at a time,
\* and the scopes of the document agree.
THEOREM InvokesInnermostHolds == Spec => []InvokesInnermost
<1>1. TypeOK /\ Placed(place) /\ InSync /\ BoundRight => InvokesInnermost
  BY SettledInvokes
<1> QED BY <1>1, RouterInvariant, InSyncHolds, BoundRightHolds, PTL
=============================================================================

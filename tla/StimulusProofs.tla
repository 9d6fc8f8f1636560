--------------------------- MODULE StimulusProofs ---------------------------
(* Proofs that the types of Stimulus are right, and that the controllers of  *)
(* all elements are connected and disconnected in turn, for every document.  *)
EXTENDS Stimulus, FiniteSetTheorems, FunctionTheorems, SequenceTheorems,
        WellFoundedInduction, TLAPS

\* A nonempty set of natural numbers has a least element.
LEMMA LeastElement ==
  ASSUME NEW T \in SUBSET Nat, T # {}
  PROVE  \E n \in T : \A m \in T : n <= m
PROOF
<1> DEFINE R == OpToRel(<, Nat)
<1>1. \E x \in T : \A y \in T : ~ (<<y, x>> \in R)
  <2>1. IsWellFoundedOn(R, Nat)
    BY NatLessThanWellFounded
  <2> HIDE DEF R
  <2> QED  BY <2>1, WFMin
<1>2. PICK x \in T : \A y \in T : ~ (<<y, x>> \in R)
  BY <1>1
<1>3. ASSUME NEW y \in T PROVE x <= y
  <2>1. ~ (y < x)
    BY <1>2 DEF OpToRel
  <2> QED  BY <2>1
<1> QED  BY <1>3

\* How often a list of tokens names an identifier is a number.
LEMMA CountNat ==
  ASSUME NEW list \in Seq(Identifier), NEW id \in Identifier
  PROVE  Count(list, id) \in Nat
PROOF
<1> DEFINE T == {n \in DOMAIN list : list[n] = id}
<1>1. DOMAIN list = 1 .. Len(list) /\ Len(list) \in Nat
  BY LenProperties
<1>2. IsFiniteSet(1 .. Len(list))
  BY <1>1, FS_Interval
<1>3. IsFiniteSet(T)
  BY <1>1, <1>2, FS_Subset
<1> HIDE DEF T
<1>4. Cardinality(T) \in Nat
  BY <1>3, FS_CardinalityType
<1> QED  BY <1>4 DEF Count, T

\* refreshTokensForElement: the first place where two lists differ is in, or
\* just behind, each of them.
LEMMA FirstDifferingPlace ==
  ASSUME NEW old \in Seq(Identifier), NEW new \in Seq(Identifier)
  PROVE  /\ FirstDiffering(old, new) \in 1 .. Len(old) + 1
         /\ FirstDiffering(old, new) \in 1 .. Len(new) + 1
PROOF
<1> DEFINE T == Differing(old, new)
<1>1. Len(old) \in Nat /\ Len(new) \in Nat
  BY LenProperties
<1>2. Len(old) + 1 \in T
  BY <1>1 DEF Differing
<1>3. T \in SUBSET Nat
  BY <1>1 DEF Differing
<1>4. Len(new) < Len(old) => Len(new) + 1 \in T
  BY <1>1 DEF Differing
<1>5. T \subseteq 1 .. Len(old) + 1
  BY DEF Differing
<1>6. /\ FirstDiffering(old, new) \in T
      /\ \A m \in T : FirstDiffering(old, new) <= m
  <2> HIDE DEF T
  <2>1. \E n \in T : \A m \in T : n <= m
    BY <1>2, <1>3, LeastElement
  <2> QED  BY <2>1 DEF FirstDiffering, T
<1> DEFINE first == FirstDiffering(old, new)
<1>7. first \in Nat /\ 1 <= first /\ first <= Len(old) + 1
  BY <1>1, <1>5, <1>6
<1>8. first <= Len(new) + 1
  <2>1. CASE Len(new) < Len(old)
    BY <2>1, <1>4, <1>6
  <2>2. CASE ~ (Len(new) < Len(old))
    BY <2>2, <1>1, <1>7
  <2> QED  BY <2>1, <2>2
<1> QED  BY <1>1, <1>7, <1>8

\* The rest of a list of tokens is one.
LEMMA FromSeq ==
  ASSUME NEW list \in Seq(Identifier), NEW n \in 1 .. Len(list) + 1
  PROVE  From(list, n) \in Seq(Identifier)
PROOF
<1>1. Len(list) \in Nat /\ list \in [1 .. Len(list) -> Identifier]
  BY LenProperties
<1>2. \A m \in n .. Len(list) : list[m] \in Identifier
  BY <1>1
<1>3. n \in Int /\ Len(list) \in Int
  BY <1>1
<1> QED  BY <1>2, <1>3, SubSeqProperties DEF From

-----------------------------------------------------------------------------

\* What scopes and contexts have to do with types and OneLife; an action that
\* leaves the rest alone has to preserve this much.
ContextTypes ==
  /\ connected \subseteq Scope
  /\ live \in [Scope -> {0, 1}]
  /\ bound \in [Scope -> SUBSET Element]
  /\ bindRecords \in [Scope -> Seq(Record)]
Lives == \A c \in Scope : live[c] = IF c \in connected THEN 1 ELSE 0

\* Module: contexts that exist are disconnected, and contexts that do not exist,
\* or no longer, are connected.
LEMMA ReconnectLives ==
  ASSUME ContextTypes, Lives, NEW off \in SUBSET connected,
         NEW on \in SUBSET Scope, on \cap connected \subseteq off,
         Reconnect(off, on)
  PROVE  ContextTypes' /\ Lives' /\ connected' = (connected \ off) \cup on
PROOF
<1>1. connected' = (connected \ off) \cup on
  BY DEF Reconnect, Effect
<1>2. connected' \subseteq Scope
  BY <1>1 DEF ContextTypes
<1>3. live' = [c \in Scope |-> live[c] - (IF c \in off THEN 1 ELSE 0)
                                        + (IF c \in on THEN 1 ELSE 0)]
  BY DEF Reconnect, Effect
<1>4. ASSUME NEW c \in Scope
      PROVE  live'[c] = IF c \in connected' THEN 1 ELSE 0
  <2>1. live'[c] = live[c] - (IF c \in off THEN 1 ELSE 0)
                           + (IF c \in on THEN 1 ELSE 0)
    BY <1>3
  <2>2. live[c] = IF c \in connected THEN 1 ELSE 0
    BY DEF Lives
  <2>3. CASE c \in on /\ c \in off
    BY <2>1, <2>2, <2>3, <1>1
  <2>4. CASE c \in on /\ c \notin off
    <3>1. c \notin connected
      BY <2>4
    <3> QED  BY <2>1, <2>2, <2>4, <3>1, <1>1
  <2>5. CASE c \notin on /\ c \in off
    BY <2>1, <2>2, <2>5, <1>1
  <2>6. CASE c \notin on /\ c \notin off
    BY <2>1, <2>2, <2>6, <1>1
  <2> QED  BY <2>3, <2>4, <2>5, <2>6
<1>5. live' \in [Scope -> {0, 1}]
  <2>1. \A c \in Scope : live'[c] \in {0, 1}
    BY <1>4
  <2> QED  BY <2>1, <1>3
<1>6. bound' \in [Scope -> SUBSET Element]
  <2>1. \A c \in Scope : Actions(c[1], c[2]) \in SUBSET Element
    BY DEF Actions, Tree
  <2> QED  BY <2>1 DEF Reconnect, ContextTypes
<1>7. bindRecords' \in [Scope -> Seq(Record)]
  <2>1. <<>> \in Seq(Record)
    OBVIOUS
  <2> QED  BY <2>1 DEF Reconnect, ContextTypes
<1> QED  BY <1>1, <1>2, <1>4, <1>5, <1>6, <1>7 DEF ContextTypes, Lives

\* ScopeObserver and Router: whichever tokens go and come, a scope is known
\* exactly while its count is positive, and has a context exactly while its
\* identifier is loaded, too.
LEMMA ScopesChangeLives ==
  ASSUME TypeOK, OneLife, modules' = modules,
         NEW unmatched \in [Element -> Seq(Identifier)],
         NEW matched \in [Element -> Seq(Identifier)],
         scopesChange(unmatched, matched)
  PROVE  /\ refs' \in [Scope -> Nat] /\ scopes' \subseteq Scope
         /\ ContextTypes' /\ OneLife'
PROOF
<1> DEFINE less(c) == Count(unmatched[c[1]], c[2])
           more(c) == Count(matched[c[1]], c[2])
           left(c) == IF less(c) < refs[c] THEN refs[c] - less(c) ELSE 0
           off == {c \in Scope : refs[c] > 0 /\ left(c) = 0}
           on == {c \in Scope : left(c) = 0 /\ more(c) > 0}
           loaded(set) == {c \in set : c[2] \in modules}
<1>1. /\ refs' = [c \in Scope |-> left(c) + more(c)]
      /\ scopesConnect(off, on)
  BY DEF scopesChange
<1>2. ASSUME NEW c \in Scope
      PROVE  less(c) \in Nat /\ more(c) \in Nat
  <2>1. c[1] \in Element /\ c[2] \in Identifier
    BY DEF Scope
  <2> QED  BY <2>1, CountNat
<1>3. \A c \in Scope : refs[c] \in Nat
  BY DEF TypeOK
<1> HIDE DEF less, more
<1>4. \A c \in Scope : left(c) \in Nat
  BY <1>2, <1>3
<1>5. refs' \in [Scope -> Nat]
  BY <1>1, <1>2, <1>4
<1>6. scopes' = (scopes \ off) \cup on
  BY <1>1 DEF scopesConnect
<1>7. scopes = {c \in Scope : refs[c] > 0} /\ connected = loaded(scopes) /\ Lives
  BY DEF OneLife, Lives
<1>8. scopes' \subseteq Scope
  BY <1>6, <1>7
<1>9. scopes' = {c \in Scope : refs'[c] > 0}
  <2>1. ASSUME NEW c \in Scope
        PROVE  c \in scopes' <=> refs'[c] > 0
    <3>1. refs'[c] = left(c) + more(c)
      BY <1>1
    <3>2. left(c) \in Nat /\ more(c) \in Nat /\ refs[c] \in Nat
      BY <1>2, <1>3, <1>4
    <3>3. left(c) > 0 => refs[c] > 0
      BY <1>2, <1>3
    <3>4. c \in scopes' <=> (refs[c] > 0 /\ left(c) # 0) \/ (left(c) = 0 /\ more(c) > 0)
      <4> HIDE DEF left
      <4> QED  BY <1>6, <1>7
    <3> HIDE DEF left
    <3> QED  BY <3>1, <3>2, <3>3, <3>4
  <2> QED  BY <2>1, <1>8
<1>10. /\ loaded(off) \in SUBSET connected
       /\ loaded(on) \in SUBSET Scope
       /\ loaded(on) \cap connected \subseteq loaded(off)
  <2> HIDE DEF left
  <2> QED  BY <1>7
<1>11. Reconnect(loaded(off), loaded(on))
  BY <1>1 DEF scopesConnect
<1>12. ContextTypes
  BY DEF TypeOK, ContextTypes
<1> HIDE DEF off, on
<1>13. ContextTypes' /\ Lives' /\ connected' = (connected \ loaded(off)) \cup loaded(on)
  <2> HIDE DEF loaded
  <2> QED  BY <1>7, <1>10, <1>11, <1>12, ReconnectLives
<1>14. connected' = {c \in scopes' : c[2] \in modules'}
  BY <1>6, <1>7, <1>13
<1>15. OneLife'
  BY <1>9, <1>13, <1>14 DEF OneLife, Lives
<1> QED  BY <1>5, <1>8, <1>13, <1>15

\* How the ElementObserver uses elementsChange: known elements go or change,
\* unknown ones come, and those that come or change have the attribute.
Legal(gone, new, changed) ==
  /\ gone \subseteq elements /\ changed \subseteq elements \ gone
  /\ new \subseteq Element \ elements
  /\ \A e \in new \cup changed : matchElement(e)

LEMMA ProcessMutationLegal ==
  ASSUME TypeOK, processMutation
  PROVE  \E gone, new, changed \in SUBSET Element :
           Legal(gone, new, changed) /\ elementsChange(gone, new, changed)
PROOF
<1> DEFINE r == Head(records)
<1>1. r.el \in Element
  <2>1. records \in Seq(Record) /\ records # <<>>
    BY DEF processMutation, TypeOK
  <2>2. r \in Record
    BY <2>1, HeadTailProperties
  <2> QED  BY <2>2 DEF Record
<1>2. elements \subseteq Element
  BY DEF TypeOK
<1>3. CASE processAttributeChange(r.el)
  BY <1>1, <1>3 DEF processAttributeChange, Legal
<1>4. CASE processRemovedNodes(r.el)
  BY <1>2, <1>4 DEF processRemovedNodes, Legal
<1>5. CASE processAddedNodes(r.el)
  <2>1. {x \in matchElementsInTree(r.el) \ elements : Active(r.el)} \subseteq
          {x \in Element \ elements : matchElement(x)}
    BY DEF matchElementsInTree, Tree
  <2> QED  BY <2>1, <1>5 DEF processAddedNodes, Legal
<1> QED  BY <1>3, <1>4, <1>5 DEF processMutation

LEMMA DomReadyLegal ==
  ASSUME TypeOK, domReady, ~ UNCHANGED <<scopeVars, contextVars>>
  PROVE  \E gone, new, changed \in SUBSET Element :
           Legal(gone, new, changed) /\ elementsChange(gone, new, changed)
PROOF
<1> DEFINE matches == {e \in Element : Active(e) /\ matchElement(e)}
           gone == elements \ matches
           new == matches \ elements
<1>1. elementsChange(gone, new, {})
  BY DEF domReady
<1>2. /\ gone \in SUBSET Element /\ new \in SUBSET Element
      /\ {} \in SUBSET Element /\ Legal(gone, new, {})
  BY DEF TypeOK, Legal
<1> HIDE DEF gone, new
<1> QED  BY <1>1, <1>2

\* The observers: elements that go, come and change keep the types and OneLife.
LEMMA ElementsChangeLives ==
  ASSUME TypeOK, OneLife, modules' = modules,
         NEW gone \in SUBSET Element, NEW new \in SUBSET Element,
         NEW changed \in SUBSET Element, Legal(gone, new, changed),
         elementsChange(gone, new, changed)
  PROVE  /\ elements' \subseteq Element /\ tokens' \in [Element -> Seq(Identifier)]
         /\ missed' \subseteq Element
         /\ refs' \in [Scope -> Nat] /\ scopes' \subseteq Scope
         /\ ContextTypes' /\ OneLife'
PROOF
<1> DEFINE first == [e \in changed |-> FirstDiffering(tokens[e], attr[e])]
           unmatched == [e \in Element |->
             IF e \in gone THEN tokens[e]
             ELSE IF e \in changed THEN From(tokens[e], first[e]) ELSE <<>>]
           matched == [e \in Element |->
             IF e \in new THEN attr[e]
             ELSE IF e \in changed THEN From(attr[e], first[e]) ELSE <<>>]
<1>1. /\ elementSet(gone, new)
      /\ tokens' = [e \in Element |->
           IF e \in gone THEN <<>>
           ELSE IF e \in new \cup changed THEN attr[e] ELSE tokens[e]]
      /\ missed' = missed \ (gone \cup new \cup changed)
      /\ scopesChange(unmatched, matched)
  BY DEF elementsChange
<1>2. \A e \in Element : tokens[e] \in Seq(Identifier)
  BY DEF TypeOK
<1>3. \A e \in new \cup changed : attr[e] \in Seq(Identifier)
  BY StimulusAssumption DEF TypeOK, Legal, matchElement
<1>4. <<>> \in Seq(Identifier)
  OBVIOUS
<1>5. ASSUME NEW e \in changed
      PROVE  /\ From(tokens[e], first[e]) \in Seq(Identifier)
             /\ From(attr[e], first[e]) \in Seq(Identifier)
  <2>1. /\ first[e] \in 1 .. Len(tokens[e]) + 1
        /\ first[e] \in 1 .. Len(attr[e]) + 1
    BY <1>2, <1>3, FirstDifferingPlace
  <2> HIDE DEF first
  <2> QED  BY <2>1, <1>2, <1>3, FromSeq
<1> HIDE DEF first
<1>6. unmatched \in [Element -> Seq(Identifier)]
  BY <1>2, <1>4, <1>5
<1>7. matched \in [Element -> Seq(Identifier)]
  BY <1>3, <1>4, <1>5
<1>8. /\ refs' \in [Scope -> Nat] /\ scopes' \subseteq Scope
      /\ ContextTypes' /\ OneLife'
  <2> HIDE DEF unmatched, matched
  <2> QED  BY <1>1, <1>6, <1>7, ScopesChangeLives
<1>9. tokens' \in [Element -> Seq(Identifier)]
  BY <1>1, <1>2, <1>3, <1>4
<1>10. elements' \subseteq Element /\ missed' \subseteq Element
  BY <1>1 DEF elementSet, TypeOK
<1> QED  BY <1>8, <1>9, <1>10

-----------------------------------------------------------------------------

\* OneLife is inductive together with the types: that live is 0 or 1 needs
\* OneLife, and that a count which falls ends at 0 needs that counts are numbers.
IInv == TypeOK /\ OneLife

LEMMA InitIInv == Init => IInv
PROOF
<1> SUFFICES ASSUME Init PROVE IInv
  OBVIOUS
<1>1. <<>> \in Seq(Identifier) /\ <<>> \in Seq(Record)
  OBVIOUS
<1>2. DOMAIN attr = Element /\ \A e \in Element : attr[e] \in Lists[e]
  BY DEF Init
<1>3. TypeOK
  BY <1>1, <1>2 DEF Init, TypeOK
<1>4. OneLife
  BY DEF Init, OneLife
<1> QED  BY <1>3, <1>4 DEF IInv

\* A change of the DOM: records are appended, nothing else of Stimulus moves.
LEMMA RecordedType ==
  ASSUME TypeOK, NEW kind \in {"attr", "removed", "added"}, NEW e \in Element,
         NEW target, Recorded(kind, e, target)
  PROVE  records' \in Seq(Record) /\ bindRecords' \in [Scope -> Seq(Record)]
PROOF
<1>1. [kind |-> kind, el |-> e] \in Record
  BY DEF Record
<1>2. records \in Seq(Record) /\ bindRecords \in [Scope -> Seq(Record)]
  BY DEF TypeOK
<1>3. records' \in Seq(Record)
  BY <1>1, <1>2, AppendProperties DEF Recorded
<1>4. \A c \in Scope : Append(bindRecords[c], [kind |-> kind, el |-> e]) \in Seq(Record)
  BY <1>1, <1>2, AppendProperties
<1>5. bindRecords' \in [Scope -> Seq(Record)]
  BY <1>2, <1>4 DEF Recorded
<1> QED  BY <1>3, <1>5

LEMMA NextIInv == IInv /\ [Next]_vars => IInv'
PROOF
<1> SUFFICES ASSUME IInv, [Next]_vars PROVE IInv'
  OBVIOUS
<1> USE DEF IInv
<1>1. CASE UNCHANGED vars
  BY <1>1 DEF vars, domVars, appVars, scopeVars, contextVars, TypeOK, OneLife
<1>2. ASSUME NEW e \in Element, NEW list \in Lists[e], setAttribute(e, list)
      PROVE  IInv'
  <2>1. records' \in Seq(Record) /\ bindRecords' \in [Scope -> Seq(Record)]
    BY <1>2, RecordedType DEF setAttribute
  <2>2. DOMAIN attr' = Element /\ \A x \in Element : attr'[x] \in Lists[x]
    BY <1>2 DEF setAttribute, TypeOK
  <2>3. missed' \subseteq Element
    BY <1>2 DEF setAttribute, TypeOK
  <2>4. UNCHANGED <<place, appVars, delivering, elements, tokens, refs, scopes,
                    modules, connected, live, bound>>
    BY <1>2 DEF setAttribute
  <2> QED  BY <2>1, <2>2, <2>3, <2>4 DEF appVars, TypeOK, OneLife
<1>3. ASSUME NEW e \in Element, NEW parent \in Spots[e], appendChild(e, parent)
      PROVE  IInv'
  <2>1. records' \in Seq(Record) /\ bindRecords' \in [Scope -> Seq(Record)]
    BY <1>3, RecordedType DEF appendChild
  <2>2. place' \in [Element -> Element \cup {Page, Out}]
    BY <1>3, StimulusAssumption DEF appendChild, TypeOK
  <2>3. UNCHANGED <<attr, appVars, delivering, scopeVars, modules, connected,
                    live, bound>>
    BY <1>3 DEF appendChild
  <2> QED  BY <2>1, <2>2, <2>3 DEF appVars, scopeVars, TypeOK, OneLife
<1>4. ASSUME NEW e \in Element, remove(e)
      PROVE  IInv'
  <2>1. records' \in Seq(Record) /\ bindRecords' \in [Scope -> Seq(Record)]
    BY <1>4, RecordedType DEF remove
  <2>2. place' \in [Element -> Element \cup {Page, Out}]
    BY <1>4 DEF remove, TypeOK
  <2>3. UNCHANGED <<attr, appVars, delivering, scopeVars, modules, connected,
                    live, bound>>
    BY <1>4 DEF remove
  <2> QED  BY <2>1, <2>2, <2>3 DEF appVars, scopeVars, TypeOK, OneLife
<1>5. CASE processMutation
  <2>1. PICK gone, new, changed \in SUBSET Element :
          Legal(gone, new, changed) /\ elementsChange(gone, new, changed)
    BY <1>5, ProcessMutationLegal
  <2>2. /\ records' \in Seq(Record)
        /\ delivering' \in BOOLEAN
        /\ UNCHANGED <<domVars, appVars, modules>>
    <3>1. records' \in Seq(Record)
      BY <1>5, HeadTailProperties DEF processMutation, TypeOK
    <3> QED  BY <1>5, <3>1 DEF processMutation, Pending
  <2>3. /\ elements' \subseteq Element /\ tokens' \in [Element -> Seq(Identifier)]
        /\ missed' \subseteq Element
        /\ refs' \in [Scope -> Nat] /\ scopes' \subseteq Scope
        /\ ContextTypes' /\ OneLife'
    BY <2>1, <2>2, ElementsChangeLives
  <2> QED  BY <2>2, <2>3 DEF domVars, appVars, TypeOK, ContextTypes
<1>6. ASSUME NEW c \in Scope, processBindings(c)
      PROVE  IInv'
  <2>1. bound' \in [Scope -> SUBSET Element]
    <3> DEFINE r == Head(bindRecords[c])
               new == IF r.kind = "removed" THEN bound[c] \ Actions(r.el, c[2])
                      ELSE IF c[1] \in Path(r.el)
                           THEN bound[c] \cup Actions(r.el, c[2]) ELSE bound[c]
    <3>1. bound[c] \in SUBSET Element /\ Actions(r.el, c[2]) \in SUBSET Element
      BY DEF TypeOK, Actions, Tree
    <3>2. new \in SUBSET Element
      <4> HIDE DEF r
      <4> QED  BY <3>1
    <3>3. bound' = [bound EXCEPT ![c] = new]
      BY <1>6 DEF processBindings
    <3> HIDE DEF new
    <3> QED  BY <3>2, <3>3 DEF TypeOK
  <2>2. bindRecords' \in [Scope -> Seq(Record)]
    <3>1. Tail(bindRecords[c]) \in Seq(Record)
      BY <1>6, HeadTailProperties DEF processBindings, TypeOK
    <3> QED  BY <1>6, <3>1 DEF processBindings, TypeOK
  <2>3. /\ delivering' \in BOOLEAN
        /\ UNCHANGED <<domVars, appVars, records, scopeVars, modules, connected,
                       live>>
    BY <1>6 DEF processBindings, Pending
  <2> QED  BY <2>1, <2>2, <2>3 DEF domVars, appVars, scopeVars, TypeOK, OneLife
<1>7. CASE start
  BY <1>7 DEF start, domVars, scopeVars, contextVars, TypeOK, OneLife
<1>8. CASE domReady
  <2>1. /\ starting' \in BOOLEAN /\ started' \in BOOLEAN
        /\ UNCHANGED <<domVars, records, delivering, modules>>
    BY <1>8 DEF domReady
  <2>2. CASE UNCHANGED <<scopeVars, contextVars>>
    BY <2>1, <2>2 DEF domVars, scopeVars, contextVars, TypeOK, OneLife
  <2>3. CASE ~ UNCHANGED <<scopeVars, contextVars>>
    <3>1. PICK gone, new, changed \in SUBSET Element :
            Legal(gone, new, changed) /\ elementsChange(gone, new, changed)
      BY <1>8, <2>3, DomReadyLegal
    <3>2. /\ elements' \subseteq Element /\ tokens' \in [Element -> Seq(Identifier)]
          /\ missed' \subseteq Element
          /\ refs' \in [Scope -> Nat] /\ scopes' \subseteq Scope
          /\ ContextTypes' /\ OneLife'
      BY <2>1, <3>1, ElementsChangeLives
    <3> QED  BY <2>1, <3>2 DEF domVars, TypeOK, ContextTypes
  <2> QED  BY <2>2, <2>3
<1>9. CASE stop
  <2>1. records' \in Seq(Record)
    BY <1>9 DEF stop, observerStops, TypeOK
  <2>2. missed' \subseteq Element
    BY <1>9 DEF stop, observerStops, TypeOK
  <2>3. /\ started' \in BOOLEAN
        /\ UNCHANGED <<domVars, starting, delivering, elements, tokens, refs,
                       scopes, modules, contextVars>>
    BY <1>9 DEF stop, observerStops
  <2> QED  BY <2>1, <2>2, <2>3 DEF domVars, contextVars, TypeOK, OneLife
<1>10. ASSUME NEW id \in Identifier, loadDefinition(id)
       PROVE  IInv'
  <2> DEFINE off == IF id \in modules THEN ScopesOf(id) ELSE {}
             on == ScopesOf(id)
  <2>1. /\ modules' = modules \cup {id} /\ Reconnect(off, on)
        /\ delivering' \in BOOLEAN
        /\ UNCHANGED <<domVars, appVars, records, scopeVars>>
    BY <1>10 DEF loadDefinition
  <2>2. /\ off \in SUBSET connected /\ on \in SUBSET Scope
        /\ on \cap connected \subseteq off
    BY DEF ScopesOf, OneLife, TypeOK
  <2> HIDE DEF off, on
  <2>3. ContextTypes' /\ Lives' /\ connected' = (connected \ off) \cup on
    <3>1. ContextTypes /\ Lives
      BY DEF TypeOK, OneLife, ContextTypes, Lives
    <3> QED  BY <2>1, <2>2, <3>1, ReconnectLives, Zenon
  <2>4. connected' = {c \in scopes' : c[2] \in modules'}
    BY <2>1, <2>3 DEF off, on, ScopesOf, OneLife, scopeVars
  <2>5. OneLife'
    BY <2>1, <2>3, <2>4 DEF scopeVars, OneLife, Lives
  <2>6. modules' \subseteq Identifier
    BY <2>1 DEF TypeOK
  <2> QED  BY <2>1, <2>3, <2>5, <2>6
           DEF domVars, appVars, scopeVars, TypeOK, ContextTypes
<1>11. ASSUME NEW id \in Identifier, unloadIdentifier(id)
       PROVE  IInv'
  <2> DEFINE off == ScopesOf(id)
  <2>1. /\ id \in modules /\ modules' = modules \ {id} /\ Reconnect(off, {})
        /\ delivering' \in BOOLEAN
        /\ UNCHANGED <<domVars, appVars, records, scopeVars>>
    BY <1>11 DEF unloadIdentifier
  <2>2. /\ off \in SUBSET connected /\ {} \in SUBSET Scope
        /\ {} \cap connected \subseteq off
    BY <2>1 DEF ScopesOf, OneLife
  <2> HIDE DEF off
  <2>3. ContextTypes' /\ Lives' /\ connected' = (connected \ off) \cup {}
    <3>1. ContextTypes /\ Lives
      BY DEF TypeOK, OneLife, ContextTypes, Lives
    <3> QED  BY <2>1, <2>2, <3>1, ReconnectLives, Zenon
  <2>4. connected' = {c \in scopes' : c[2] \in modules'}
    BY <2>1, <2>3 DEF off, ScopesOf, OneLife, scopeVars
  <2>5. OneLife'
    BY <2>1, <2>3, <2>4 DEF scopeVars, OneLife, Lives
  <2>6. modules' \subseteq Identifier
    BY <2>1 DEF TypeOK
  <2> QED  BY <2>1, <2>3, <2>5, <2>6
           DEF domVars, appVars, scopeVars, TypeOK, ContextTypes
<1> QED  BY <1>1, <1>2, <1>3, <1>4, <1>5, <1>6, <1>7, <1>8, <1>9, <1>10, <1>11 DEF Next

\* The variables have their types in every document, however many elements,
\* identifiers and records there are: no controller is connected twice.
THEOREM TypeCorrect == Spec => []TypeOK
PROOF
<1>1. IInv => TypeOK
  BY DEF IInv
<1> QED  BY <1>1, InitIInv, NextIInv, PTL DEF Spec

\* Connect and disconnect of every controller alternate, and it is connected
\* exactly while a known token names it and its identifier is loaded.
THEOREM OneLifeHolds == Spec => []OneLife
PROOF
<1>1. IInv => OneLife
  BY DEF IInv
<1> QED  BY <1>1, InitIInv, NextIInv, PTL DEF Spec

-----------------------------------------------------------------------------

\* A list is counted in two parts: in front of a place, and from there on.
LEMMA CountSplit ==
  ASSUME NEW list \in Seq(Identifier), NEW id \in Identifier,
         NEW n \in 1 .. Len(list) + 1
  PROVE  LET front == {m \in 1 .. n - 1 : list[m] = id}
         IN  /\ Cardinality(front) \in Nat
             /\ Count(list, id) = Cardinality(front) + Count(From(list, n), id)
PROOF
<1> DEFINE len == Len(list)
           rest == From(list, n)
           A == {m \in 1 .. n - 1 : list[m] = id}
           B == {m \in n .. len : list[m] = id}
           C == {m \in DOMAIN rest : rest[m] = id}
           f == [m \in B |-> m - n + 1]
<1>1. len \in Nat /\ DOMAIN list = 1 .. len /\ list \in [1 .. len -> Identifier]
  BY LenProperties
<1>2. n \in Nat /\ 1 <= n /\ n <= len + 1
  BY <1>1
<1>3. /\ Len(rest) = len - n + 1
      /\ \A i \in 1 .. len - n + 1 : rest[i] = list[n + i - 1]
  <2>1. n \in Int /\ len \in Int /\ \A i \in n .. len : list[i] \in Identifier
    BY <1>1, <1>2
  <2>2. /\ Len(rest) = IF n <= len THEN len - n + 1 ELSE 0
        /\ \A i \in 1 .. len - n + 1 : rest[i] = list[n + i - 1]
    BY <2>1, SubSeqProperties DEF From
  <2> QED  BY <1>1, <1>2, <2>2
<1>4. DOMAIN rest = 1 .. len - n + 1
  BY <1>3, FromSeq, LenProperties
<1>5. IsFiniteSet(A) /\ IsFiniteSet(B)
  <2>1. IsFiniteSet(1 .. len)
    BY <1>1, FS_Interval
  <2>2. A \in SUBSET (1 .. len) /\ B \in SUBSET (1 .. len)
    BY <1>1, <1>2
  <2> QED  BY <2>1, <2>2, FS_Subset
<1>6. {m \in DOMAIN list : list[m] = id} = A \cup B
  BY <1>1, <1>2
<1>7. A \cap B = {}
  BY <1>1, <1>2
<1>8. f \in Bijection(B, C)
  <2> HIDE DEF rest
  <2>1. f \in [B -> C]
    <3>1. ASSUME NEW m \in B PROVE m - n + 1 \in C
      <4>1. m \in Int /\ n <= m /\ m <= len /\ list[m] = id
        BY <1>1, <1>2
      <4>2. m - n + 1 \in 1 .. len - n + 1
        BY <4>1, <1>1, <1>2
      <4>3. n + (m - n + 1) - 1 = m
        BY <4>1, <1>2
      <4> QED  BY <4>1, <4>2, <4>3, <1>3, <1>4
    <3> QED  BY <3>1
  <2>2. \A a, b \in B : f[a] = f[b] => a = b
    BY <1>1, <1>2
  <2>3. ASSUME NEW t \in C PROVE \E m \in B : f[m] = t
    <3>1. t \in 1 .. len - n + 1 /\ rest[t] = id
      BY <1>4
    <3>2. n + t - 1 \in B
      BY <3>1, <1>1, <1>2, <1>3
    <3>3. f[n + t - 1] = t
      BY <3>1, <3>2, <1>1, <1>2
    <3> QED  BY <3>2, <3>3
  <2> HIDE DEF f, B, C
  <2> QED  BY <2>1, <2>2, <2>3, Fun_IsBij
<1> HIDE DEF A, B, C, f
<1>9. Cardinality(C) = Cardinality(B)
  BY <1>5, <1>8, Fun_ExistsBij, FS_Bijection
<1>10. Cardinality(A \cup B) = Cardinality(A) + Cardinality(B)
  <2>1. Cardinality(A) \in Nat /\ Cardinality(B) \in Nat
    BY <1>5, FS_CardinalityType
  <2>2. Cardinality(A \cup B) = Cardinality(A) + Cardinality(B) - Cardinality(A \cap B)
    BY <1>5, FS_Union
  <2>3. Cardinality(A \cap B) = 0
    BY <1>7, FS_EmptySet
  <2> QED  BY <2>1, <2>2, <2>3
<1>11. Cardinality(A) \in Nat
  BY <1>5, FS_CardinalityType
<1>12. Count(list, id) = Cardinality(A \cup B) /\ Count(rest, id) = Cardinality(C)
  BY <1>6 DEF Count, C
<1> QED  BY <1>9, <1>10, <1>11, <1>12 DEF A

\* refreshTokensForElement: taking away the tokens from the first difference on
\* and adding the new ones from there gives the count of the new list.
LEMMA CountRefreshed ==
  ASSUME NEW old \in Seq(Identifier), NEW new \in Seq(Identifier),
         NEW id \in Identifier
  PROVE  LET n == FirstDiffering(old, new)
         IN  /\ Count(From(old, n), id) <= Count(old, id)
             /\ Count(new, id) = Count(old, id) - Count(From(old, n), id)
                                 + Count(From(new, n), id)
PROOF
<1> DEFINE n == FirstDiffering(old, new)
           front(list) == {m \in 1 .. n - 1 : list[m] = id}
<1>1. n \in 1 .. Len(old) + 1 /\ n \in 1 .. Len(new) + 1
  BY FirstDifferingPlace
<1>2. Len(old) \in Nat /\ Len(new) \in Nat
  BY LenProperties
<1>3. \A m \in 1 .. n - 1 : m \notin Differing(old, new)
  <2> DEFINE T == Differing(old, new)
  <2>1. T \in SUBSET Nat /\ Len(old) + 1 \in T
    BY <1>2 DEF Differing
  <2>2. \A m \in T : n <= m
    <3> HIDE DEF T
    <3>1. \E k \in T : \A m \in T : k <= m
      BY <2>1, LeastElement
    <3> QED  BY <3>1 DEF FirstDiffering, T
  <2> HIDE DEF T, n
  <2>3. \A m \in 1 .. n - 1 : m \notin T
    BY <1>1, <1>2, <2>1, <2>2
  <2> QED  BY <2>3 DEF T
<1> HIDE DEF n
<1>4. \A m \in 1 .. n - 1 : old[m] = new[m]
  BY <1>1, <1>2, <1>3 DEF Differing
<1>5. front(old) = front(new)
  BY <1>4
<1>6. /\ Cardinality(front(old)) \in Nat
      /\ Count(old, id) = Cardinality(front(old)) + Count(From(old, n), id)
  BY <1>1, CountSplit
<1>7. Count(new, id) = Cardinality(front(new)) + Count(From(new, n), id)
  BY <1>1, CountSplit
<1>8. Count(From(old, n), id) \in Nat /\ Count(From(new, n), id) \in Nat
  BY <1>1, FromSeq, CountNat
<1> HIDE DEF front
<1>9. /\ Count(From(old, n), id) <= Count(old, id)
      /\ Count(new, id) = Count(old, id) - Count(From(old, n), id)
                          + Count(From(new, n), id)
  BY <1>5, <1>6, <1>7, <1>8
<1> QED  BY <1>9 DEF n

LEMMA CountEmpty ==
  ASSUME NEW id PROVE Count(<<>>, id) = 0
PROOF
<1>1. {n \in DOMAIN <<>> : <<>>[n] = id} = {}
  OBVIOUS
<1> QED  BY <1>1, FS_EmptySet DEF Count

\* Tokens are recorded for known elements only.
TokensKnown == \A e \in Element : tokens[e] # <<>> => e \in elements

\* A count is the number of recorded tokens, since an element that comes had
\* none recorded.
LEMMA ElementsChangeCounts ==
  ASSUME TypeOK, RefsCount, TokensKnown,
         NEW gone \in SUBSET Element, NEW new \in SUBSET Element,
         NEW changed \in SUBSET Element, Legal(gone, new, changed),
         elementsChange(gone, new, changed)
  PROVE  RefsCount' /\ TokensKnown'
PROOF
<1> DEFINE first == [e \in changed |-> FirstDiffering(tokens[e], attr[e])]
           unmatched == [e \in Element |->
             IF e \in gone THEN tokens[e]
             ELSE IF e \in changed THEN From(tokens[e], first[e]) ELSE <<>>]
           matched == [e \in Element |->
             IF e \in new THEN attr[e]
             ELSE IF e \in changed THEN From(attr[e], first[e]) ELSE <<>>]
           less(c) == Count(unmatched[c[1]], c[2])
           more(c) == Count(matched[c[1]], c[2])
           left(c) == IF less(c) < refs[c] THEN refs[c] - less(c) ELSE 0
<1>1. /\ elementSet(gone, new)
      /\ tokens' = [e \in Element |->
           IF e \in gone THEN <<>>
           ELSE IF e \in new \cup changed THEN attr[e] ELSE tokens[e]]
      /\ scopesChange(unmatched, matched)
  BY DEF elementsChange
<1>2. \A c \in Scope : refs'[c] = left(c) + more(c)
  <2> HIDE DEF unmatched, matched
  <2> QED  BY <1>1 DEF scopesChange
<1>3. TokensKnown'
  BY <1>1 DEF elementSet, TokensKnown, Legal
<1>4. \A e \in new \cup changed : attr[e] \in Seq(Identifier)
  BY StimulusAssumption DEF TypeOK, Legal, matchElement
<1>5. ASSUME NEW c \in Scope
      PROVE  refs'[c] = Count(tokens'[c[1]], c[2])
  <2> DEFINE e == c[1]
             id == c[2]
  <2>1. e \in Element /\ id \in Identifier
    BY DEF Scope
  <2>2. /\ tokens[e] \in Seq(Identifier) /\ refs[c] = Count(tokens[e], id)
        /\ refs[c] \in Nat
    BY <2>1 DEF TypeOK, RefsCount
  <2>3. refs'[c] = left(c) + more(c)
    BY <1>2
  <2>4. Count(<<>>, id) = 0
    BY CountEmpty
  <2>5. CASE e \in gone
    <3>1. unmatched[e] = tokens[e] /\ matched[e] = <<>> /\ tokens'[e] = <<>>
      BY <2>1, <2>5, <1>1 DEF Legal
    <3> HIDE DEF unmatched, matched
    <3>2. less(c) = refs[c] /\ more(c) = 0
      BY <2>2, <2>4, <3>1
    <3> HIDE DEF less, more
    <3> QED  BY <2>2, <2>3, <2>4, <3>1, <3>2
  <2>6. CASE e \in new
    <3>1. /\ unmatched[e] = <<>> /\ matched[e] = attr[e] /\ tokens'[e] = attr[e]
          /\ tokens[e] = <<>>
      BY <2>1, <2>6, <1>1 DEF Legal, TokensKnown
    <3> HIDE DEF unmatched, matched
    <3>2. less(c) = 0 /\ more(c) = Count(tokens'[e], id) /\ refs[c] = 0
      BY <2>2, <2>4, <3>1
    <3>3. more(c) \in Nat
      BY <1>4, <2>1, <2>6, <3>1, CountNat
    <3> HIDE DEF less, more
    <3> QED  BY <2>3, <3>2, <3>3
  <2>7. CASE e \in changed
    <3> DEFINE n == FirstDiffering(tokens[e], attr[e])
    <3>1. /\ unmatched[e] = From(tokens[e], n) /\ matched[e] = From(attr[e], n)
          /\ tokens'[e] = attr[e]
      BY <2>1, <2>7, <1>1 DEF Legal
    <3> HIDE DEF unmatched, matched
    <3>2. attr[e] \in Seq(Identifier)
      BY <1>4, <2>7
    <3>3. /\ less(c) <= refs[c]
          /\ Count(attr[e], id) = refs[c] - less(c) + more(c)
      BY <2>1, <2>2, <3>1, <3>2, CountRefreshed
    <3>4. less(c) \in Nat /\ more(c) \in Nat
      BY <2>1, <2>2, <3>1, <3>2, FirstDifferingPlace, FromSeq, CountNat
    <3> HIDE DEF less, more
    <3> QED  BY <2>2, <2>3, <3>1, <3>3, <3>4
  <2>8. CASE e \notin gone \cup new \cup changed
    <3>1. unmatched[e] = <<>> /\ matched[e] = <<>> /\ tokens'[e] = tokens[e]
      BY <2>1, <2>8, <1>1
    <3> HIDE DEF unmatched, matched
    <3>2. less(c) = 0 /\ more(c) = 0
      BY <2>4, <3>1
    <3> HIDE DEF less, more
    <3> QED  BY <2>2, <2>3, <3>1, <3>2
  <2> QED  BY <2>5, <2>6, <2>7, <2>8
<1>6. RefsCount'
  BY <1>5 DEF RefsCount
<1> QED  BY <1>3, <1>6

LEMMA CountsInvariant == Spec => [](RefsCount /\ TokensKnown)
PROOF
<1> DEFINE RInv == RefsCount /\ TokensKnown
<1>1. Init => RInv
  <2> SUFFICES ASSUME Init PROVE RInv
    OBVIOUS
  <2>1. \A c \in Scope : c[1] \in Element
    BY DEF Scope
  <2>2. \A c \in Scope : refs[c] = 0 /\ tokens[c[1]] = <<>>
    BY <2>1 DEF Init
  <2>3. RefsCount
    BY <2>2, CountEmpty DEF RefsCount
  <2>4. TokensKnown
    BY DEF Init, TokensKnown
  <2> QED  BY <2>3, <2>4
<1>2. TypeOK /\ RInv /\ [Next]_vars => RInv'
  <2> SUFFICES ASSUME TypeOK, RInv, [Next]_vars PROVE RInv'
    OBVIOUS
  <2>1. CASE UNCHANGED <<elements, tokens, refs>>
    BY <2>1 DEF RefsCount, TokensKnown, Count
  <2>2. CASE processMutation
    BY <2>2, ProcessMutationLegal, ElementsChangeCounts
  <2>3. CASE domReady /\ ~ UNCHANGED <<scopeVars, contextVars>>
    BY <2>3, DomReadyLegal, ElementsChangeCounts
  <2>4. CASE UNCHANGED scopeVars
    BY <2>1, <2>4 DEF scopeVars
  <2>5. processMutation \/ domReady \/ UNCHANGED <<elements, tokens, refs>>
    BY DEF Next, vars, scopeVars, setAttribute, appendChild, remove,
           processBindings, start, stop, observerStops, loadDefinition, unloadIdentifier
  <2> QED  BY <2>1, <2>2, <2>3, <2>4, <2>5
<1> HIDE DEF RInv
<1>3. RInv => RefsCount /\ TokensKnown
  BY DEF RInv
<1> QED  BY <1>1, <1>2, <1>3, TypeCorrect, PTL DEF Spec

\* ScopeObserver's counts stay true to the tokens that TokenListObserver
\* recorded, whatever lists the scripts set.
THEOREM RefsCountHolds == Spec => []RefsCount
BY CountsInvariant, PTL
=============================================================================

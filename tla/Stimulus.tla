------------------------------ MODULE Stimulus ------------------------------
(* Stimulus (stimulus.js), the framework the page of a node runs on.  It     *)
(* watches the DOM with a MutationObserver, so it works on records of        *)
(* changes after the DOM has moved on, and keeps one context (a controller   *)
(* and its action bindings) per element and identifier in data-controller.   *)
(* Scripts change the DOM, start and stop the application and load and       *)
(* unload controllers; the browser delivers the records between scripts.     *)
EXTENDS Integers, Sequences, FiniteSets

CONSTANTS
  Element,
  Identifier,
  Page, Out,     \* the root the application watches; nowhere
  NoAttr,        \* no attribute data-controller
  Spots,         \* Spots[e]: where scripts may put e, besides Out
  Lists,         \* Lists[e]: what scripts may set data-controller of e to
  Acting,        \* Acting[e]: the identifiers of the actions in data-action of e
  MaxRecords     \* bound: a script makes so many changes before it ends

ASSUME StimulusAssumption ==
  /\ IsFiniteSet(Element)
  /\ {Page, Out} \cap Element = {} /\ Page # Out
  /\ Spots \in [Element -> SUBSET (Element \cup {Page})]
  /\ \A e \in Element : Lists[e] \subseteq Seq(Identifier) \cup {NoAttr}
  /\ Acting \in [Element -> SUBSET Identifier]
  /\ MaxRecords \in Nat

\* Scripts put elements into each other in one order only, as this page does,
\* which appends messages and rows to fixed containers: no element ever comes to
\* lie around one it was in.
ASSUME NestingAssumption ==
  \E depth \in [Element -> 1 .. Cardinality(Element)] :
    \A e \in Element : \A p \in Spots[e] \cap Element : depth[e] < depth[p]

VARIABLES
  place,       \* place[e]: the parent of e
  attr,        \* attr[e]: the tokens in data-controller of e
  starting,    \* Application.start waits for domReady
  started,     \* the dispatcher and the observer of the router run
  records,     \* the records for the observer of the router
  delivering,  \* the browser has begun to deliver the records
  elements,    \* ElementObserver.elements of the router
  tokens,      \* TokenListObserver.tokensByElement
  refs,        \* ScopeObserver.scopeReferenceCounts
  scopes,      \* Router.scopesByIdentifier
  modules,     \* Router.modulesByIdentifier
  connected,   \* Module.connectedContexts, by scope
  live,        \* live[c]: calls of connect without the matching disconnect
  bound,       \* bound[c]: the elements whose action c has a binding for
  bindRecords, \* bindRecords[c]: the records for the BindingObserver of c
  missed       \* history: elements whose last change of data-controller went
               \* by unobserved

domVars == <<place, attr>>
appVars == <<starting, started>>
scopeVars == <<elements, tokens, refs, scopes, missed>>
contextVars == <<connected, live, bound, bindRecords>>
vars == <<domVars, appVars, records, delivering, scopeVars, modules, contextVars>>

Scope == Element \X Identifier
Record == [kind : {"attr", "removed", "added"}, el : Element]

TypeOK ==
  /\ place \in [Element -> Element \cup {Page, Out}]
  /\ DOMAIN attr = Element /\ \A e \in Element : attr[e] \in Lists[e]
  /\ starting \in BOOLEAN /\ started \in BOOLEAN
  /\ records \in Seq(Record)
  /\ delivering \in BOOLEAN
  /\ elements \subseteq Element
  /\ tokens \in [Element -> Seq(Identifier)]
  /\ refs \in [Scope -> Nat]
  /\ scopes \subseteq Scope
  /\ modules \subseteq Identifier
  /\ connected \subseteq Scope
  /\ live \in [Scope -> {0, 1}]
  /\ bound \in [Scope -> SUBSET Element]
  /\ bindRecords \in [Scope -> Seq(Record)]
  /\ missed \subseteq Element

Init ==
  /\ place = [e \in Element |-> Out]
  /\ attr \in {a \in [Element -> UNION {Lists[e] : e \in Element}] :
                 \A e \in Element : a[e] \in Lists[e]}
  /\ starting = FALSE /\ started = FALSE
  /\ records = <<>> /\ delivering = FALSE
  /\ elements = {} /\ tokens = [e \in Element |-> <<>>]
  /\ refs = [c \in Scope |-> 0] /\ scopes = {}
  /\ modules = {}
  /\ connected = {}
  /\ live = [c \in Scope |-> 0]
  /\ bound = [c \in Scope |-> {}]
  /\ bindRecords = [c \in Scope |-> <<>>]
  /\ missed = {}

-----------------------------------------------------------------------------
(* The DOM *)

\* x with all that is around it.
Path(x) ==
  LET up[n \in 0 .. Cardinality(Element)] ==
        IF n = 0 THEN {x}
        ELSE LET near == up[n - 1]
             IN  near \cup {place[y] : y \in near \cap Element}
  IN  up[Cardinality(Element)]
Tree(x) == {y \in Element : x \in Path(y)}
Active(e) == Page \in Path(e)
Names(e, i) == attr[e] # NoAttr /\ \E n \in DOMAIN attr[e] : attr[e][n] = i

\* An observer of root sees a change of target, also in a tree that was removed
\* from root as long as the record of that is not delivered.
Sees(root, queue, target) ==
  \/ root \in Path(target)
  \/ \E n \in DOMAIN queue : queue[n].kind = "removed" /\ queue[n].el \in Path(target)

\* The browser records a change; the observers of bindings wait for data-action,
\* which does not change, and for nodes that come and go.
Recorded(kind, e, target) ==
  /\ records' = IF started /\ Sees(Page, records, target)
                THEN Append(records, [kind |-> kind, el |-> e]) ELSE records
  /\ bindRecords' = [c \in Scope |->
       IF /\ c \in connected /\ kind # "attr"
          /\ Sees(c[1], bindRecords[c], target)
       THEN Append(bindRecords[c], [kind |-> kind, el |-> e]) ELSE bindRecords[c]]

\* A script runs: not while records are delivered (no callback of a controller
\* changes the elements that hold controllers), and it ends after some changes.
Script ==
  /\ ~delivering
  /\ Len(records) < MaxRecords
  /\ \A c \in Scope : Len(bindRecords[c]) < MaxRecords

setAttribute(e, list) ==
  /\ Script
  /\ list # attr[e]
  /\ attr' = [attr EXCEPT ![e] = list]
  /\ Recorded("attr", e, e)
  /\ missed' = IF records' = records THEN missed \cup {e} ELSE missed
  /\ UNCHANGED <<place, appVars, delivering, elements, tokens, refs, scopes,
                 modules, connected, live, bound>>

appendChild(e, parent) ==
  /\ Script
  /\ place[e] = Out
  /\ place' = [place EXCEPT ![e] = parent]
  /\ Recorded("added", e, parent)
  /\ UNCHANGED <<attr, appVars, delivering, scopeVars, modules, connected, live,
                 bound>>

remove(e) ==
  /\ Script
  /\ place[e] # Out
  /\ place' = [place EXCEPT ![e] = Out]
  /\ Recorded("removed", e, place[e])
  /\ UNCHANGED <<attr, appVars, delivering, scopeVars, modules, connected, live,
                 bound>>

-----------------------------------------------------------------------------
(* Contexts and bindings *)

\* The elements under e with an action for i: what a BindingObserver finds when
\* it starts.
Actions(e, i) == {x \in Tree(e) : i \in Acting[x]}

Effect(off, on) ==
  /\ connected' = (connected \ off) \cup on
  /\ live' = [c \in Scope |-> live[c] - (IF c \in off THEN 1 ELSE 0)
                                      + (IF c \in on THEN 1 ELSE 0)]

\* Mutant: Context.disconnect does not stop its BindingObserver.
Reconnect_KeepBindings(off, on) ==
  /\ Effect(off, on)
  /\ bound' = [c \in Scope |-> IF c \in on THEN Actions(c[1], c[2]) ELSE bound[c]]
  /\ UNCHANGED bindRecords

\* Module.disconnectContextForScope for the scopes in off, which have a context,
\* and then connectContextForScope for those in on: the BindingObserver stops
\* and drops its records, or starts with what it finds.
Reconnect(off, on) ==
  /\ Effect(off, on)
  /\ bound' = [c \in Scope |->
       IF c \in on THEN Actions(c[1], c[2]) ELSE IF c \in off THEN {} ELSE bound[c]]
  /\ bindRecords' = [c \in Scope |->
       IF c \in on \cup off THEN <<>> ELSE bindRecords[c]]

Pending(queue, queues) == queue # <<>> \/ \E c \in Scope : queues[c] # <<>>

\* The ElementObserver of a BindingObserver processes its next record.  The
\* observer of the router was created first and has its records first.
processBindings(c) ==
  /\ records = <<>>
  /\ bindRecords[c] # <<>>
  /\ LET r == Head(bindRecords[c])
     IN  bound' = [bound EXCEPT ![c] =
           IF r.kind = "removed" THEN @ \ Actions(r.el, c[2])
           ELSE IF c[1] \in Path(r.el) THEN @ \cup Actions(r.el, c[2]) ELSE @]
  /\ bindRecords' = [bindRecords EXCEPT ![c] = Tail(@)]
  /\ delivering' = Pending(records, bindRecords')
  /\ UNCHANGED <<domVars, appVars, records, scopeVars, modules, connected, live>>

-----------------------------------------------------------------------------
(* Tokens and scopes *)

Count(list, i) == Cardinality({n \in DOMAIN list : list[n] = i})
Differing(old, new) ==
  {n \in 1 .. Len(old) + 1 : n > Len(old) \/ n > Len(new) \/ old[n] # new[n]}
FirstDiffering(old, new) ==
  CHOOSE n \in Differing(old, new) : \A m \in Differing(old, new) : n <= m
From(list, n) == SubSeq(list, n, Len(list))

\* Router.scopeDisconnected for the scopes in off, then scopeConnected for those
\* in on; the module, if there is one, gives them a context.
scopesConnect(off, on) ==
  /\ scopes' = (scopes \ off) \cup on
  /\ Reconnect({c \in off : c[2] \in modules}, {c \in on : c[2] \in modules})

\* Mutant: disconnects a scope with the first token that goes, whatever others
\* name it.
scopesChange_First(unmatched, matched) ==
  LET less(c) == Count(unmatched[c[1]], c[2])
      more(c) == Count(matched[c[1]], c[2])
      left(c) == IF less(c) < refs[c] THEN refs[c] - less(c) ELSE 0
      off == {c \in Scope : refs[c] > 0 /\ less(c) > 0}
      on == {c \in Scope : left(c) = 0 /\ more(c) > 0}
  IN  /\ refs' = [c \in Scope |-> left(c) + more(c)]
      /\ scopesConnect(off, on)

\* Mutant: counts a token that is repeated once.
scopesChange_Once(unmatched, matched) ==
  LET less(c) == Count(unmatched[c[1]], c[2])
      more(c) == IF Count(matched[c[1]], c[2]) > 0 THEN 1 ELSE 0
      left(c) == IF less(c) < refs[c] THEN refs[c] - less(c) ELSE 0
      off == {c \in Scope : refs[c] > 0 /\ left(c) = 0}
      on == {c \in Scope : left(c) = 0 /\ more(c) > 0}
  IN  /\ refs' = [c \in Scope |-> left(c) + more(c)]
      /\ scopesConnect(off, on)

\* ScopeObserver counts the tokens that name a scope, first those that went,
\* then those that came, and tells the router when the count leaves or reaches 0.
scopesChange(unmatched, matched) ==
  LET less(c) == Count(unmatched[c[1]], c[2])
      more(c) == Count(matched[c[1]], c[2])
      left(c) == IF less(c) < refs[c] THEN refs[c] - less(c) ELSE 0
      off == {c \in Scope : refs[c] > 0 /\ left(c) = 0}
      on == {c \in Scope : left(c) = 0 /\ more(c) > 0}
  IN  /\ refs' = [c \in Scope |-> left(c) + more(c)]
      /\ scopesConnect(off, on)

\* ElementObserver.removeElement and addElement.
elementSet(gone, new) == elements' = (elements \ gone) \cup new

\* The observer removes elements, adds some, and finds the tokens of others
\* changed; of these only the tokens from the first one that differs go and come.
elementsChange(gone, new, changed) ==
  LET first == [e \in changed |-> FirstDiffering(tokens[e], attr[e])]
      unmatched == [e \in Element |->
        IF e \in gone THEN tokens[e]
        ELSE IF e \in changed THEN From(tokens[e], first[e]) ELSE <<>>]
      matched == [e \in Element |->
        IF e \in new THEN attr[e]
        ELSE IF e \in changed THEN From(attr[e], first[e]) ELSE <<>>]
  IN  /\ elementSet(gone, new)
      /\ tokens' = [e \in Element |->
           IF e \in gone THEN <<>>
           ELSE IF e \in new \cup changed THEN attr[e] ELSE tokens[e]]
      /\ missed' = missed \ (gone \cup new \cup changed)
      /\ scopesChange(unmatched, matched)

-----------------------------------------------------------------------------
(* The ElementObserver of the router *)

matchElement(e) == attr[e] # NoAttr
matchElementsInTree(x) == {e \in Tree(x) : matchElement(e)}

processAttributeChange(e) ==
  \/ e \in elements /\ matchElement(e) /\ elementsChange({}, {}, {e})
  \/ e \in elements /\ ~matchElement(e) /\ elementsChange({e}, {}, {})
  \/ /\ e \notin elements
     /\ elementsChange({}, {x \in {e} : matchElement(x) /\ Active(x)}, {})

\* Mutant: removes the node, not the elements in it.
processRemovedNodes_Flat(e) == elementsChange(elements \cap {e}, {}, {})

processRemovedNodes(e) ==
  elementsChange(elements \cap matchElementsInTree(e), {}, {})

processAddedNodes(e) ==
  elementsChange({}, {x \in matchElementsInTree(e) \ elements : Active(e)}, {})

\* One record; a batch that has begun is delivered to its end.
processMutation ==
  /\ records # <<>>
  /\ LET r == Head(records)
     IN  \/ r.kind = "attr" /\ processAttributeChange(r.el)
         \/ r.kind = "removed" /\ processRemovedNodes(r.el)
         \/ r.kind = "added" /\ processAddedNodes(r.el)
  /\ records' = Tail(records)
  /\ delivering' = Pending(records', bindRecords')
  /\ UNCHANGED <<domVars, appVars, modules>>

-----------------------------------------------------------------------------
(* Application and Router *)

start ==
  /\ ~starting
  /\ starting' = TRUE
  /\ UNCHANGED <<domVars, started, records, delivering, scopeVars, modules,
                 contextVars>>

\* The DOM is ready: the observer starts, with a refresh that removes the
\* elements it knew and no longer finds, and adds those it did not know.
domReady ==
  /\ starting /\ ~delivering
  /\ starting' = FALSE
  /\ started' = TRUE
  /\ \/ started /\ UNCHANGED <<scopeVars, contextVars>>
     \/ /\ ~started
        /\ LET matches == {e \in Element : Active(e) /\ matchElement(e)}
           IN  elementsChange(elements \ matches, matches \ elements, {})
  /\ UNCHANGED <<domVars, records, delivering, modules>>

\* ElementObserver.stop takes the records that wait; records that are being
\* delivered are not among them.
observerStops ==
  /\ records' = IF delivering THEN records ELSE <<>>
  /\ missed' = IF delivering THEN missed
               ELSE missed \cup {e \in Element : \E n \in DOMAIN records :
                                   records[n] = [kind |-> "attr", el |-> e]}

\* The dispatcher no longer listens, and the observer stops; contexts stay as
\* they are.
stop ==
  /\ started
  /\ started' = FALSE
  /\ observerStops
  /\ UNCHANGED <<domVars, starting, delivering, elements, tokens, refs, scopes,
                 modules, contextVars>>

ScopesOf(i) == {c \in scopes : c[2] = i}

\* Mutant: does not unload the module it replaces.
loadDefinition_Twice(i) ==
  /\ modules' = modules \cup {i}
  /\ Reconnect({}, ScopesOf(i))
  /\ delivering' = (delivering /\ Pending(records, bindRecords'))
  /\ UNCHANGED <<domVars, appVars, records, scopeVars>>

\* Application.register: a module of that name is unloaded before.  Callbacks of
\* controllers load and unload, too, while records are delivered.
loadDefinition(i) ==
  /\ modules' = modules \cup {i}
  /\ Reconnect(IF i \in modules THEN ScopesOf(i) ELSE {}, ScopesOf(i))
  /\ delivering' = (delivering /\ Pending(records, bindRecords'))
  /\ UNCHANGED <<domVars, appVars, records, scopeVars>>

unloadIdentifier(i) ==
  /\ i \in modules
  /\ modules' = modules \ {i}
  /\ Reconnect(ScopesOf(i), {})
  /\ delivering' = (delivering /\ Pending(records, bindRecords'))
  /\ UNCHANGED <<domVars, appVars, records, scopeVars>>

Next ==
  \/ \E e \in Element : \/ \E list \in Lists[e] : setAttribute(e, list)
                        \/ \E p \in Spots[e] : appendChild(e, p)
                        \/ remove(e)
  \/ processMutation
  \/ \E c \in Scope : processBindings(c)
  \/ start \/ domReady \/ stop
  \/ \E i \in Identifier : loadDefinition(i) \/ unloadIdentifier(i)

Spec == Init /\ [][Next]_vars

\* The browser delivers records: a script ends, and the microtasks after it run.
FairSpec == Spec /\ WF_vars(processMutation)

-----------------------------------------------------------------------------
(* Events *)

\* The innermost element around x that names i, as a set.
Closest(x, i) ==
  {y \in Path(x) \cap Element :
     Names(y, i) /\ \A z \in Path(x) \cap Element : Names(z, i) => z \in Path(y)}

\* Mutant: an event in the element of the context is one for the context.
willBeInvokedByEvent_Around(c, el, target) ==
  c[1] \in Path(target) \/ Closest(el, c[2]) = {c[1]}

willBeInvokedByEvent(c, el, target) ==
  \/ c[1] = target
  \/ c[1] # target /\ c[1] \in Path(target) /\ Closest(target, c[2]) = {c[1]}
  \/ c[1] \notin Path(target) /\ Closest(el, c[2]) = {c[1]}

\* The contexts with a binding in the EventListener of el.  Their order by index
\* is left out: it matters only to a method that stops the event for the
\* bindings after its own, and no method of the page does.
bindings(el) == {c \in Scope : el \in bound[c]}

\* The contexts whose method an event at target invokes through the action of
\* el: the dispatcher listens at el while it is started, and passes the event to
\* the bindings for el.
handleEvent(el, target) ==
  {c \in bindings(el) : started /\ willBeInvokedByEvent(c, el, target)}

-----------------------------------------------------------------------------
(* Properties *)

Quiet == started /\ ~Pending(records, bindRecords)

\* Connect and disconnect of a controller alternate, and it is connected exactly
\* while some token of its element that the observer knows names it and its
\* identifier is loaded: however tokens repeat, lists change, and modules come
\* and go in between.
OneLife ==
  /\ scopes = {c \in Scope : refs[c] > 0}
  /\ connected = {c \in scopes : c[2] \in modules}
  /\ \A c \in Scope : live[c] = IF c \in connected THEN 1 ELSE 0

\* A reference count is the number of tokens recorded for the scope.
RefsCount == \A c \in Scope : refs[c] = Count(tokens[c[1]], c[2])

\* When all records are delivered, the contexts are those of the elements in the
\* page that name a loaded identifier, whatever the DOM went through in between,
\* except where data-controller changed behind a stopped observer.
InSync ==
  Quiet =>
    \A c \in Scope :
      c[1] \notin missed =>
        (c \in connected <=>
           Active(c[1]) /\ Names(c[1], c[2]) /\ c[2] \in modules)

\* A context has bindings only while it is connected, and when its records are
\* delivered they are for the actions in its element.
BoundRight ==
  \A c \in Scope :
    /\ c \notin connected => bound[c] = {} /\ bindRecords[c] = <<>>
    /\ c \in connected /\ ~Pending(records, bindRecords) =>
         bound[c] = Actions(c[1], c[2])

\* When all records are delivered, an event invokes each action around it in the
\* one innermost controller it is meant for, not in one around that.
InvokesInnermost ==
  Quiet /\ missed = {} =>
    \A target \in Element :
      Active(target) =>
        \A el \in Path(target) \cap Element : \A i \in Acting[el] \cap modules :
          {c \in handleEvent(el, target) : c[2] = i} =
            (Closest(target, i) \cap Path(el)) \X {i}

\* The controllers of an element that has left the page are disconnected in the
\* end, unless the element comes back or the application stops.
DetachedDisconnects ==
  \A e \in Element :
    started /\ ~Active(e) /\ (\E i \in Identifier : <<e, i>> \in connected)
      ~> ~started \/ Active(e) \/ \A i \in Identifier : <<e, i>> \notin connected
=============================================================================

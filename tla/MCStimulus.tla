----------------------------- MODULE MCStimulus -----------------------------
(* A small instance of Stimulus for TLC: two elements that may hold          *)
(* controllers, the second inside the first, and a button in that one.         *)
EXTENDS Stimulus, TLC

CONSTANTS outer, inner, button, i, j

SpotsIn == (outer :> {Page}) @@ (inner :> {outer}) @@ (button :> {inner})
ListsOf == (outer :> {NoAttr, <<i>>, <<i, j, i>>}) @@ (inner :> {<<i>>})
           @@ (button :> {NoAttr})
ActingIn == (outer :> {}) @@ (inner :> {}) @@ (button :> {i})
=============================================================================

---------------------------- MODULE MCLayerStore ----------------------------
(***************************************************************************)
(* Instances of LayerStore for TLC: which builds have which stages.        *)
(***************************************************************************)
EXTENDS LayerStore, TLC

CONSTANTS b1, b2, b3, i1, i2, c1, c2

One == [input |-> i1, content |-> c1]
Two == [input |-> i2, content |-> c2]

\* Two builds that share their first stage, one with a second stage on top.
Shared == b1 :> <<One, Two>> @@ b2 :> <<One>>

\* The same, and a later build of the whole.
SharedThenAgain == b1 :> <<One, Two>> @@ b2 :> <<One>> @@ b3 :> <<One, Two>>
=============================================================================

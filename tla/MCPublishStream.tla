--------------------------- MODULE MCPublishStream ---------------------------
(***************************************************************************)
(* Instances of PublishStream for TLC: artifacts longer than a channel.    *)
(***************************************************************************)
EXTENDS PublishStream

CONSTANTS u1, u2

Lengths == [f \in Formats |-> 2]
=============================================================================

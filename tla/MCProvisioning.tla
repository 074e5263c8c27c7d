--------------------------- MODULE MCProvisioning ---------------------------
(***************************************************************************)
(* Instances of Provisioning for TLC: which launch asks for which VM id.   *)
(***************************************************************************)
EXTENDS Provisioning, TLC

CONSTANTS s1, s2, a, b, tapA, tapB

\* Two VMs, with TAP names of their own; they may change places.
TwoVms  == s1 :> a @@ s2 :> b
OwnTaps == a :> tapA @@ b :> tapB
Swap    == {s1 :> s2 @@ s2 :> s1 @@ a :> b @@ b :> a @@ tapA :> tapB @@ tapB :> tapA}

\* Two launches of one VM id.
OneVm  == s1 :> a @@ s2 :> a
OneTap == a :> tapA
=============================================================================

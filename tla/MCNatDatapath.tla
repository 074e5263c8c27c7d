--------------------------- MODULE MCNatDatapath ---------------------------
(***************************************************************************)
(* NatDatapath with words of two bits.  One of the VM's addresses has the  *)
(* ones' complement sum of the guest's, the other has not.                 *)
(***************************************************************************)
EXTENDS NatDatapath

W == 3
G == <<1, 2>>
Meta == <<1, 1>>
H == {<<3, 0>>, <<2, 3>>}
P == {<<2, 0>>, <<0, 3>>}
=============================================================================

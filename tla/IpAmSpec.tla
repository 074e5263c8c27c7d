------------------------------ MODULE IpAmSpec ------------------------------
(***************************************************************************)
(* What IpAm promises its callers, with no bitset and no retry loop: an    *)
(* allocation takes the lowest address nobody holds, in one step; it fails *)
(* only at a moment when every address is held; a release returns exactly  *)
(* the caller's address to the pool.                                       *)
(***************************************************************************)
EXTENDS IpBits

CONSTANTS Callers, NoIp

VARIABLES
    held,     \* held[c]: the address c has been granted, or NoIp
    status    \* "idle" | "holding" | "exhausted": c's last answer

vars == <<held, status>>

Unheld == {i \in Slots : \A c \in Callers : held[c] # IpOf(i)}

Init ==
    /\ held = [c \in Callers |-> NoIp]
    /\ status = [c \in Callers |-> "idle"]

\* A launch whose last call was refused asks again.
Ask(c) ==
    /\ status[c] = "exhausted"
    /\ status' = [status EXCEPT ![c] = "idle"]
    /\ UNCHANGED held

Allocate(c) ==
    /\ status[c] = "idle"
    /\ \E i \in Unheld :
          /\ \A j \in Unheld : i <= j
          /\ held' = [held EXCEPT ![c] = IpOf(i)]
    /\ status' = [status EXCEPT ![c] = "holding"]

Refuse(c) ==
    /\ status[c] # "holding"
    /\ Unheld = {}
    /\ status' = [status EXCEPT ![c] = "exhausted"]
    /\ UNCHANGED held

Release(c) ==
    /\ status[c] = "holding"
    /\ held' = [held EXCEPT ![c] = NoIp]
    /\ status' = [status EXCEPT ![c] = "idle"]

Next == \E c \in Callers : Ask(c) \/ Allocate(c) \/ Refuse(c) \/ Release(c)

Spec == Init /\ [][Next]_vars
=============================================================================

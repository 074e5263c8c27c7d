-------------------------------- MODULE IpAm --------------------------------
(***************************************************************************)
(* IpAm::allocate and IpAm::release (control-plane/src/vmm/network.rs),    *)
(* one step per atomic access.  Callers are the launches that share one    *)
(* Orchestrator: each holds at most one address at a time and releases     *)
(* what it was granted, once (ProvisioningContext::host_ip is take()n).    *)
(***************************************************************************)
EXTENDS IpBits

CONSTANTS Callers, NoIp

ASSUME NoIpAssumption == NoIp \notin Ips

VARIABLES
    bits,   \* the AtomicU64: slots handed out
    pc,     \* pc[c]: where c is in the allocate loop
    cur,    \* cur[c]: the bitset c loaded, meaningful between load and CAS
    ip      \* ip[c]: the address c was granted, or NoIp

vars == <<bits, pc, cur, ip>>

\* "idle": no allocation under way; "cas": bits loaded, exchange pending;
\* "holding": Ok(ip) returned; "exhausted": Err("No free IPs") returned.
Pcs == {"idle", "cas", "holding", "exhausted"}

Init ==
    /\ bits = {}
    /\ pc = [c \in Callers |-> "idle"]
    /\ cur = [c \in Callers |-> {}]
    /\ ip = [c \in Callers |-> NoIp]

\* Mutant of Load: a pool with one free slot is taken for full.
LoadFullWhenOneLeft(c) ==
    /\ pc[c] \in {"idle", "exhausted"}
    /\ cur' = [cur EXCEPT ![c] = bits]
    /\ pc' = [pc EXCEPT ![c] =
                 IF \E i \in Slots : Slots \ {i} \subseteq bits
                 THEN "exhausted" ELSE "cas"]
    /\ UNCHANGED <<bits, ip>>

\* The load at the head of the loop, for a new call, and the early return
\* when no bit is clear in the loaded value.
Load(c) ==
    /\ pc[c] \in {"idle", "exhausted"}
    /\ cur' = [cur EXCEPT ![c] = bits]
    /\ pc' = [pc EXCEPT ![c] = IF NoneClear(bits) THEN "exhausted" ELSE "cas"]
    /\ UNCHANGED <<bits, ip>>

\* Mutant of Swap: a plain store where the exchange compares.
SwapUnchecked(c) ==
    /\ pc[c] = "cas"
    /\ \E i \in Slots :
          /\ LowestClear(cur[c], i)
          /\ bits' = cur[c] \cup {i}
          /\ ip' = [ip EXCEPT ![c] = IpOf(i)]
    /\ pc' = [pc EXCEPT ![c] = "holding"]
    /\ UNCHANGED cur

\* Mutant of Swap: the slot is returned without the base address.
SwapWithoutBase(c) ==
    /\ pc[c] = "cas"
    /\ bits = cur[c]
    /\ \E i \in Slots :
          /\ LowestClear(cur[c], i)
          /\ bits' = cur[c] \cup {i}
          /\ ip' = [ip EXCEPT ![c] = i]
    /\ pc' = [pc EXCEPT ![c] = "holding"]
    /\ UNCHANGED cur

\* compare_exchange succeeds: the bitset is still what was loaded.
Swap(c) ==
    /\ pc[c] = "cas"
    /\ bits = cur[c]
    /\ \E i \in Slots :
          /\ LowestClear(cur[c], i)
          /\ bits' = cur[c] \cup {i}
          /\ ip' = [ip EXCEPT ![c] = IpOf(i)]
    /\ pc' = [pc EXCEPT ![c] = "holding"]
    /\ UNCHANGED cur

\* Mutant of Retry: the loop goes round without loading.
RetryWithStaleValue(c) ==
    /\ pc[c] = "cas"
    /\ bits # cur[c]
    /\ UNCHANGED vars

\* compare_exchange fails and the loop loads the bitset again.  Nothing the
\* caller does lies between the failed exchange and the next load, so the
\* two are one step.
Retry(c) ==
    /\ pc[c] = "cas"
    /\ bits # cur[c]
    /\ cur' = [cur EXCEPT ![c] = bits]
    /\ pc' = [pc EXCEPT ![c] = IF NoneClear(bits) THEN "exhausted" ELSE "cas"]
    /\ UNCHANGED <<bits, ip>>

\* release(ip): one fetch_and.
Release(c) ==
    /\ pc[c] = "holding"
    /\ bits' = Cleared(bits, ip[c])
    /\ ip' = [ip EXCEPT ![c] = NoIp]
    /\ pc' = [pc EXCEPT ![c] = "idle"]
    /\ UNCHANGED cur

Next == \E c \in Callers : Load(c) \/ Swap(c) \/ Retry(c) \/ Release(c)

Spec == Init /\ [][Next]_vars

\* A thread inside allocate keeps running: the loop has no await.
Fairness == \A c \in Callers : WF_vars(Swap(c) \/ Retry(c))

FairSpec == Spec /\ Fairness
-----------------------------------------------------------------------------

TypeOK ==
    /\ bits \subseteq Slots
    /\ pc \in [Callers -> Pcs]
    /\ cur \in [Callers -> SUBSET Slots]
    /\ ip \in [Callers -> Ips \cup {NoIp}]

\* No two launches are ever given the same address, whatever loads,
\* exchanges and releases interleave, the case of a bitset that changed and
\* changed back between a load and its exchange included.
Exclusive ==
    \A c, d \in Callers : (c # d /\ ip[c] # NoIp) => ip[c] # ip[d]

\* The bitset is exactly the slots of the addresses held: a release frees the
\* slot of the address it is given and no other, and no address is lost.
BitsMatchHolders ==
    bits = {i \in Slots : \E c \in Callers : ip[c] = IpOf(i)}

\* Every linearized answer of allocate and release is one the abstract
\* allocator gives: in particular "No free IPs" is only returned by a call
\* during which all addresses were held at one moment.
Abs == INSTANCE IpAmSpec WITH
          held <- ip,
          status <- [c \in Callers |->
                        IF pc[c] = "cas" THEN "idle" ELSE pc[c]]

ImplementsIpAmSpec == Abs!Spec

\* The loop is lock-free: as long as some call is under way, calls keep
\* being answered.  (One call may lose the race for ever; all cannot.)
LockFree ==
    \/ []<>(\A c \in Callers : pc[c] # "cas")
    \/ []<><<\E c \in Callers : pc[c] = "cas" /\ pc'[c] # "cas">>_vars
=============================================================================

----------------------------- MODULE IpAmProofs -----------------------------
(***************************************************************************)
(* Proofs about IpAm for any number of slots, any base address and any set *)
(* of callers.  The inductive invariant joins the type invariant to the    *)
(* correspondence between bits and addresses held; Exclusive alone is not  *)
(* inductive, because whether the next exchange hands out a held address   *)
(* depends on the bitset.                                                  *)
(***************************************************************************)
EXTENDS IpAm, IpBitsProofs

\* What allocate returns is an address of the pool, a different one for every
\* slot, and never the absence of one.
LEMMA GrantedFacts ==
    /\ \A i \in Slots : IpOf(i) = BaseIp + i
    /\ \A i, j \in Slots : IpOf(i) = IpOf(j) => i = j
    /\ \A i \in Slots : IpOf(i) \in Ips /\ IpOf(i) # NoIp
BY IpOfFacts, NoIpAssumption

\* A caller holds an address exactly while its pc says so.
PcMatchesIp ==
    \A c \in Callers : (pc[c] = "holding") <=> (ip[c] # NoIp)

\* A value loaded for an exchange has a clear bit.
LoadedHasRoom ==
    \A c \in Callers : pc[c] = "cas" => ~NoneClear(cur[c])

IInv == TypeOK /\ Exclusive /\ BitsMatchHolders /\ PcMatchesIp /\ LoadedHasRoom

\* It holds for a new IpAm.
LEMMA InitIInv == Init => IInv
<1> SUFFICES ASSUME Init PROVE IInv
  OBVIOUS
<1>1. TypeOK
  BY DEF Init, TypeOK, Pcs
<1>2. Exclusive /\ PcMatchesIp /\ LoadedHasRoom
  BY DEF Init, Exclusive, PcMatchesIp, LoadedHasRoom
<1>3. BitsMatchHolders
  BY GrantedFacts DEF Init, BitsMatchHolders
<1>4. QED
  BY <1>1, <1>2, <1>3 DEF IInv

\* Every atomic access of allocate and release preserves it.
LEMMA NextIInv == IInv /\ [Next]_vars => IInv'
<1> SUFFICES ASSUME IInv, [Next]_vars PROVE IInv'
  OBVIOUS
<1> USE DEF IInv
<1>1. ASSUME NEW c \in Callers, Load(c) \/ Retry(c)
      PROVE  IInv'
  <2>1. /\ bits' = bits /\ ip' = ip
        /\ cur' = [cur EXCEPT ![c] = bits]
        /\ pc' = [pc EXCEPT ![c] = IF NoneClear(bits) THEN "exhausted" ELSE "cas"]
        /\ pc[c] # "holding"
    BY <1>1 DEF Load, Retry
  <2>2. TypeOK'
    BY <2>1 DEF TypeOK, Pcs
  <2>3. Exclusive' /\ BitsMatchHolders'
    BY <2>1 DEF Exclusive, BitsMatchHolders
  <2>4. PcMatchesIp'
    BY <2>1 DEF PcMatchesIp, TypeOK
  <2>5. LoadedHasRoom'
    BY <2>1 DEF LoadedHasRoom, TypeOK
  <2>6. QED
    BY <2>2, <2>3, <2>4, <2>5
<1>2. ASSUME NEW c \in Callers, Swap(c)
      PROVE  IInv'
  <2>1. PICK i \in Slots :
          /\ LowestClear(cur[c], i)
          /\ bits' = cur[c] \cup {i}
          /\ ip' = [ip EXCEPT ![c] = IpOf(i)]
    BY <1>2 DEF Swap
  <2>2. /\ pc' = [pc EXCEPT ![c] = "holding"]
        /\ cur' = cur /\ bits = cur[c] /\ pc[c] = "cas"
    BY <1>2 DEF Swap
  <2>3. i \notin bits
    BY <2>1, <2>2 DEF LowestClear
  <2>4. TypeOK'
    BY <2>1, <2>2, GrantedFacts DEF TypeOK, Pcs
  <2>5. \A d \in Callers : ip[d] # IpOf(i)
    BY <2>3 DEF BitsMatchHolders
  <2>6. Exclusive'
    BY <2>1, <2>5, GrantedFacts DEF Exclusive, TypeOK
  <2>7. ip[c] = NoIp
    BY <2>2 DEF PcMatchesIp
  <2>8. BitsMatchHolders'
    <3>1. ASSUME NEW j \in Slots
          PROVE  j \in bits' <=> \E d \in Callers : ip'[d] = IpOf(j)
      <4>1. CASE j = i
        BY <4>1, <2>1 DEF TypeOK
      <4>2. CASE j # i
        <5>1. \A d \in Callers : ip'[d] = IpOf(j) <=> ip[d] = IpOf(j)
          BY <4>2, <2>1, <2>7, GrantedFacts DEF TypeOK
        <5>2. j \in bits' <=> j \in bits
          BY <4>2, <2>1, <2>2
        <5>3. QED
          BY <5>1, <5>2 DEF BitsMatchHolders
      <4>3. QED
        BY <4>1, <4>2
    <3>2. QED
      BY <3>1, <2>4 DEF BitsMatchHolders, TypeOK
  <2>9. PcMatchesIp' /\ LoadedHasRoom'
    BY <2>1, <2>2, GrantedFacts DEF PcMatchesIp, LoadedHasRoom, TypeOK
  <2>10. QED
    BY <2>4, <2>6, <2>8, <2>9
<1>3. ASSUME NEW c \in Callers, Release(c)
      PROVE  IInv'
  <2>1. /\ bits' = Cleared(bits, ip[c])
        /\ ip' = [ip EXCEPT ![c] = NoIp]
        /\ pc' = [pc EXCEPT ![c] = "idle"]
        /\ cur' = cur /\ pc[c] = "holding"
    BY <1>3 DEF Release
  <2>2. PICK i \in Slots : ip[c] = IpOf(i)
    BY <2>1 DEF PcMatchesIp, TypeOK, Ips
  <2>3. bits' = bits \ {i}
    BY <2>1, <2>2, ClearedIp DEF TypeOK
  <2>4. TypeOK'
    BY <2>1, <2>3 DEF TypeOK, Pcs
  <2>5. Exclusive'
    BY <2>1 DEF Exclusive, TypeOK
  <2>6. BitsMatchHolders'
    <3>1. ASSUME NEW j \in Slots
          PROVE  j \in bits' <=> \E d \in Callers : ip'[d] = IpOf(j)
      <4>1. CASE j = i
        <5>1. \A d \in Callers : ip'[d] # IpOf(i)
          BY <2>1, <2>2, GrantedFacts DEF Exclusive, TypeOK
        <5>2. QED
          BY <4>1, <5>1, <2>3
      <4>2. CASE j # i
        <5>1. \A d \in Callers : ip'[d] = IpOf(j) <=> ip[d] = IpOf(j)
          BY <4>2, <2>1, <2>2, GrantedFacts DEF TypeOK
        <5>2. QED
          BY <4>2, <5>1, <2>3 DEF BitsMatchHolders
      <4>3. QED
        BY <4>1, <4>2
    <3>2. QED
      BY <3>1, <2>4 DEF BitsMatchHolders, TypeOK
  <2>7. PcMatchesIp' /\ LoadedHasRoom'
    BY <2>1 DEF PcMatchesIp, LoadedHasRoom, TypeOK
  <2>8. QED
    BY <2>4, <2>5, <2>6, <2>7
<1>4. CASE UNCHANGED vars
  BY <1>4 DEF vars, TypeOK, Exclusive, BitsMatchHolders, PcMatchesIp, LoadedHasRoom
<1>5. QED
  BY <1>1, <1>2, <1>3, <1>4 DEF Next

\* The strengthened invariant holds in every reachable state of the
\* allocate/release interleavings.
THEOREM Invariance == Spec => []IInv
  BY InitIInv, NextIInv, PTL DEF Spec

\* The bitset, the loop and the addresses handed out by IpAm stay typed: no
\* slot outside the bitset is ever taken.
THEOREM TypeCorrect == Spec => []TypeOK
<1>1. IInv => TypeOK
  BY DEF IInv
<1>2. QED
  BY <1>1, Invariance, PTL

\* No two concurrent launches are given the same address by IpAm::allocate,
\* for every size of the bitset and every number of launches.
THEOREM AddressesExclusive == Spec => []Exclusive
<1>1. IInv => Exclusive
  BY DEF IInv
<1>2. QED
  BY <1>1, Invariance, PTL

\* IpAm's bitset is exactly the set of addresses held: release loses none and
\* frees none that somebody still has.
THEOREM BitsetExact == Spec => []BitsMatchHolders
<1>1. IInv => BitsMatchHolders
  BY DEF IInv
<1>2. QED
  BY <1>1, Invariance, PTL

-----------------------------------------------------------------------------
\* Under the invariant the slots the abstract allocator may hand out are the
\* clear bits of IpAm's bitset.
LEMMA UnheldIsClear == IInv => Abs!Unheld = Slots \ bits
  BY DEF IInv, BitsMatchHolders, Abs!Unheld, Abs!Slots, Slots, Abs!IpOf, IpOf

\* The abstract status of every caller.
AbsStatus == [c \in Callers |-> IF pc[c] = "cas" THEN "idle" ELSE pc[c]]

\* Every atomic access is a step of the abstract allocator, or changes nothing
\* it can see.
LEMMA StepSimulation == IInv /\ [Next]_vars => [Abs!Next]_(Abs!vars)
<1> SUFFICES ASSUME IInv, [Next]_vars PROVE [Abs!Next]_(Abs!vars)
  OBVIOUS
<1>1. ASSUME NEW c \in Callers, Load(c) \/ Retry(c)
      PROVE  [Abs!Next]_(Abs!vars)
  <2>1. /\ bits' = bits /\ ip' = ip
        /\ pc' = [pc EXCEPT ![c] = IF NoneClear(bits) THEN "exhausted" ELSE "cas"]
        /\ pc[c] \in {"idle", "exhausted", "cas"}
    BY <1>1 DEF Load, Retry
  <2>2. pc \in [Callers -> Pcs]
    BY DEF IInv, TypeOK
  <2>3. CASE NoneClear(bits)
    <3>1. Abs!Unheld = {}
      BY <2>3, UnheldIsClear DEF NoneClear
    <3>2. AbsStatus' = [AbsStatus EXCEPT ![c] = "exhausted"]
      BY <2>1, <2>2, <2>3 DEF AbsStatus
    <3>3. AbsStatus[c] # "holding"
      BY <2>1 DEF AbsStatus
    <3>4. Abs!Refuse(c)
      BY <2>1, <3>1, <3>2, <3>3 DEF Abs!Refuse, AbsStatus
    <3>5. QED
      BY <3>4 DEF Abs!Next
  <2>4. CASE ~NoneClear(bits) /\ pc[c] = "exhausted"
    <3>1. AbsStatus' = [AbsStatus EXCEPT ![c] = "idle"]
      BY <2>1, <2>2, <2>4 DEF AbsStatus
    <3>2. AbsStatus[c] = "exhausted"
      BY <2>4 DEF AbsStatus
    <3>3. Abs!Ask(c)
      BY <2>1, <3>1, <3>2 DEF Abs!Ask, AbsStatus
    <3>4. QED
      BY <3>3 DEF Abs!Next
  <2>5. CASE ~NoneClear(bits) /\ pc[c] # "exhausted"
    <3>1. AbsStatus' = AbsStatus
      BY <2>1, <2>2, <2>5 DEF AbsStatus
    <3>2. QED
      BY <2>1, <3>1 DEF Abs!vars, AbsStatus
  <2>6. QED
    BY <2>3, <2>4, <2>5
<1>2. ASSUME NEW c \in Callers, Swap(c)
      PROVE  [Abs!Next]_(Abs!vars)
  <2>1. PICK i \in Slots :
          /\ LowestClear(cur[c], i)
          /\ ip' = [ip EXCEPT ![c] = IpOf(i)]
    BY <1>2 DEF Swap
  <2>2. /\ pc' = [pc EXCEPT ![c] = "holding"]
        /\ bits = cur[c] /\ pc[c] = "cas"
    BY <1>2 DEF Swap
  <2>3. i \in Abs!Unheld /\ \A j \in Abs!Unheld : i <= j
    BY <2>1, <2>2, UnheldIsClear DEF LowestClear
  <2>4. AbsStatus[c] = "idle" /\ AbsStatus' = [AbsStatus EXCEPT ![c] = "holding"]
    BY <2>2 DEF AbsStatus, IInv, TypeOK
  <2>5. ip' = [ip EXCEPT ![c] = Abs!IpOf(i)]
    BY <2>1 DEF Abs!IpOf, IpOf
  <2>6. Abs!Allocate(c)
    BY <2>3, <2>4, <2>5 DEF Abs!Allocate, AbsStatus
  <2>7. QED
    BY <2>6 DEF Abs!Next
<1>3. ASSUME NEW c \in Callers, Release(c)
      PROVE  [Abs!Next]_(Abs!vars)
  <2>1. /\ ip' = [ip EXCEPT ![c] = NoIp]
        /\ pc' = [pc EXCEPT ![c] = "idle"]
        /\ pc[c] = "holding"
    BY <1>3 DEF Release
  <2>2. AbsStatus[c] = "holding" /\ AbsStatus' = [AbsStatus EXCEPT ![c] = "idle"]
    BY <2>1 DEF AbsStatus, IInv, TypeOK
  <2>3. Abs!Release(c)
    BY <2>1, <2>2 DEF Abs!Release, AbsStatus
  <2>4. QED
    BY <2>3 DEF Abs!Next
<1>4. CASE UNCHANGED vars
  BY <1>4 DEF vars, Abs!vars
<1>5. QED
  BY <1>1, <1>2, <1>3, <1>4 DEF Next

\* The load / compare-and-exchange loop implements the one-step allocator:
\* every answer of IpAm::allocate and release is one the abstract pool gives.
THEOREM Refinement == Spec => ImplementsIpAmSpec
<1>1. Init => Abs!Init
  BY DEF Init, Abs!Init
<1>2. QED
  BY <1>1, Invariance, StepSimulation, PTL DEF Spec, ImplementsIpAmSpec, Abs!Spec
=============================================================================

---------------------------- MODULE IpBitsProofs ----------------------------
(***************************************************************************)
(* The arithmetic between slots and addresses, for IpAmProofs and          *)
(* ProvisioningProofs.                                                     *)
(***************************************************************************)
EXTENDS IpBits, TLAPS

\* The address of a slot does not wrap, so slots and addresses correspond
\* one to one (base_ip + first_free in IpAm::allocate).
LEMMA IpOfFacts ==
    /\ \A i \in Slots : IpOf(i) = BaseIp + i
    /\ \A i, j \in Slots : IpOf(i) = IpOf(j) => i = j
    /\ \A i \in Slots : IpOf(i) \in Ips
<1>1. ASSUME NEW i \in Slots
      PROVE  IpOf(i) = BaseIp + i
  BY IpBitsAssumption DEF Slots, IpOf
<1>2. ASSUME NEW i \in Slots, NEW j \in Slots, IpOf(i) = IpOf(j)
      PROVE  i = j
  BY <1>1, <1>2, IpBitsAssumption DEF Slots
<1>3. \A i \in Slots : IpOf(i) \in Ips
  BY DEF Ips
<1>4. QED
  BY <1>1, <1>2, <1>3

\* release clears the slot of the address it is given and nothing else
\* (IpAm::release: the two range checks never fire for a granted address).
LEMMA ClearedIp ==
    \A b \in SUBSET Slots, i \in Slots : Cleared(b, IpOf(i)) = b \ {i}
<1>1. ASSUME NEW b \in SUBSET Slots, NEW i \in Slots
      PROVE  Cleared(b, IpOf(i)) = b \ {i}
  <2>1. IpOf(i) = BaseIp + i
    BY IpOfFacts
  <2>2. ~(IpOf(i) < BaseIp) /\ IpOf(i) - BaseIp = i /\ ~(IpOf(i) - BaseIp >= NumIps)
    BY <2>1, IpBitsAssumption DEF Slots
  <2>3. QED
    BY <2>2 DEF Cleared
<1>2. QED
  BY <1>1
=============================================================================

------------------------------- MODULE IpBits -------------------------------
(***************************************************************************)
(* The address pool behind IpAm (control-plane/src/vmm/network.rs): a      *)
(* bitset of NumIps slots (64 in the code, the width of the AtomicU64) and *)
(* the arithmetic between slots and 32-bit addresses.  A bitset is the set *)
(* of its one bits.  Used by IpAm, which interleaves the atomic accesses,  *)
(* and by Provisioning, which takes each operation as one step.            *)
(***************************************************************************)
EXTENDS Naturals

CONSTANTS
    NumIps,   \* slots of the bitset: 64
    BaseIp,   \* IpAm::base_ip, 0x0A000001 in main.rs
    IpSpace   \* 2^32, the number of u32 addresses

\* The pool does not run past the last u32 address.  The only caller passes
\* 10.0.0.1; with a base above 2^32 - 64 the sum in allocate would overflow.
ASSUME IpBitsAssumption ==
    /\ NumIps \in Nat \ {0}
    /\ BaseIp \in Nat
    /\ IpSpace \in Nat
    /\ BaseIp + NumIps <= IpSpace

Slots == 0 .. NumIps - 1

\* base_ip + first_free, in u32 arithmetic.
IpOf(i) == (BaseIp + i) % IpSpace

Ips == {IpOf(i) : i \in Slots}

\* (!current).trailing_zeros() = i, for a bitset with a clear bit.
LowestClear(bits, i) ==
    /\ i \in Slots \ bits
    /\ \A j \in Slots \ bits : i <= j

\* first_free >= 64.
NoneClear(bits) == Slots \subseteq bits

\* Mutant of Cleared: the first address of the pool is taken to be outside.
ClearedLosingFirst(bits, ip) ==
    IF ip <= BaseIp \/ ip - BaseIp >= NumIps
    THEN bits
    ELSE bits \ {ip - BaseIp}

\* The bitset after release(ip): an address outside the pool is ignored.
Cleared(bits, ip) ==
    IF ip < BaseIp \/ ip - BaseIp >= NumIps
    THEN bits
    ELSE bits \ {ip - BaseIp}
=============================================================================

----------------------------- MODULE NatDatapath -----------------------------
(***************************************************************************)
(* The stateless NAT of one VM: the classifiers tc_egress and tc_ingress   *)
(* of control-plane/microvisor-ebpf/src/main.rs, the order in which        *)
(* load_nat_program (control-plane/src/vmm/network.rs) attaches them, and  *)
(* packets that cross the VM's TAP.                                        *)
(*                                                                         *)
(* A word is a number 0 .. M: 16 bits are M = 65535.  An address is two    *)
(* words; the other words of a header or a segment count only through      *)
(* their ones' complement sum, `rest' and `body'.                          *)
(***************************************************************************)
EXTENDS Integers

CONSTANTS
    M,          \* the largest word
    Guest,      \* GUEST_IP, the same in every VM
    Metadata,   \* METADATA_IP
    Hosts,      \* the addresses the VM may be given
    Peers,      \* other addresses
    None        \* no packet, no inner header

Word    == 0 .. M
Address == Word \X Word
Directions  == {"from_guest", "to_guest"}

ASSUME NatAssumption ==
    /\ M \in Nat \ {0}
    /\ Guest \in Address /\ Metadata \in Address
    /\ Hosts \subseteq Address /\ Peers \subseteq Address
    /\ Guest \notin Hosts \cup Peers
    /\ Metadata \notin Hosts \cup Peers \cup {Guest}
    /\ Hosts \cap Peers = {}

\* Hooks[d]: the classifier that sees the packets of direction d, by the attach
\* points load_nat_program chooses.  Egress of a TAP is what the host transmits
\* on it, the packets to the guest; ingress is what the guest sends.
Hooks == [d \in Directions |-> IF d = "to_guest" THEN "tc_egress" ELSE "tc_ingress"]

-----------------------------------------------------------------------------
(* Ones' complement checksums and the kernel's helpers.                    *)

OnesAdd(a, b) == IF a + b > M THEN a + b - M ELSE a + b
WordSum(addr) == OnesAdd(addr[1], addr[2])
Inverted(w)   == M - w

\* bpf_l3_csum_replace and bpf_l4_csum_replace of four bytes: the old checksum,
\* inverted as a 32 bit number, less `from' and plus `to', folded and inverted.
CsumReplace(c, from, to) ==
    Inverted(OnesAdd(OnesAdd(OnesAdd(M, Inverted(c)),
                             OnesAdd(Inverted(from[1]), Inverted(from[2]))),
                     WordSum(to)))

\* Mutant of CsumReplaceUdp: without BPF_F_MARK_MANGLED_0.
CsumReplaceUdpUnmarked(c, from, to) == CsumReplace(c, from, to)

\* With BPF_F_MARK_MANGLED_0 a result of zero is stored as all ones.
CsumReplaceUdp(c, from, to) ==
    LET n == CsumReplace(c, from, to) IN IF n = 0 THEN M ELSE n

Protocols == {"tcp", "udp", "icmp", "other"}

\* How much of a frame there is: nothing up to the EtherType, nothing of the IP
\* addresses, nothing of the L4 checksum and type, all but an inner header, all.
Lengths == 0 .. 4

Header == [src : Address, dst : Address, rest : Word, csum : Word]

\* type: of an ICMP message, "error" for Destination Unreachable and Time Exceeded.
Packet ==
    [ip : BOOLEAN, len : Lengths, proto : Protocols, src : Address, dst : Address,
     rest : Word, csum : Word, type : {"error", "other"}, body : Word, l4csum : Word,
     inner : Header \cup {None}]

ASSUME NoneAssumption == None \notin Packet \cup Header

HeaderSum(h) == OnesAdd(OnesAdd(WordSum(h.src), WordSum(h.dst)), h.rest)
HeaderOK(h)  == OnesAdd(HeaderSum(h), h.csum) = M

L4Sum(p) ==
    IF p.proto # "icmp" THEN OnesAdd(OnesAdd(WordSum(p.src), WordSum(p.dst)), p.body)
    ELSE IF p.inner = None THEN p.body
    ELSE OnesAdd(p.body, OnesAdd(HeaderSum(p.inner), p.inner.csum))

L4OK(p) ==
    \/ p.proto = "other"
    \/ p.proto = "udp" /\ p.l4csum = 0
    \/ OnesAdd(L4Sum(p), p.l4csum) = M

-----------------------------------------------------------------------------
(* The classifiers.  None stands for TC_ACT_SHOT.                          *)

\* Mutant of RewriteInner: the inner header keeps its checksum.
RewriteInnerAddress(p, from, to, side) ==
    IF p.type = "error" /\ p.len = 4 /\ p.inner[side] = from
    THEN [p EXCEPT !.inner[side] = to, !.l4csum = CsumReplace(@, from, to)]
    ELSE p

\* The header an ICMP error quotes: the address, its checksum, and the checksum
\* of the message.
RewriteInner(p, from, to, side) ==
    IF p.type = "error" /\ p.len = 4 /\ p.inner[side] = from
    THEN [p EXCEPT !.inner = [p.inner EXCEPT ![side] = to,
                                             !.csum = CsumReplace(p.inner.csum, from, to)],
                   !.l4csum = CsumReplace(@, from, to)]
    ELSE p

\* The part of both classifiers that depends on the protocol, once `from' is
\* replaced by `to' in the outer header.
RewriteL4(p, from, to, side) ==
    CASE p.proto = "tcp" ->
            [p EXCEPT !.l4csum = CsumReplace(@, from, to)]
      [] p.proto = "udp" ->
            IF p.l4csum = 0 THEN p ELSE [p EXCEPT !.l4csum = CsumReplaceUdp(@, from, to)]
      [] p.proto = "icmp" -> RewriteInner(p, from, to, side)
      [] OTHER -> p

try_egress(p, host_ip) ==
    IF p.len = 0 THEN None
    ELSE IF ~p.ip THEN p
    ELSE IF p.len = 1 \/ p.dst = Metadata \/ p.src # Guest THEN None
    ELSE IF p.len = 2 /\ p.proto # "other" THEN None
    ELSE RewriteL4([p EXCEPT !.src = host_ip, !.csum = CsumReplace(@, p.src, host_ip)],
                   p.src, host_ip, "dst")

try_ingress(p, host_ip) ==
    IF p.len = 0 THEN None
    ELSE IF ~p.ip THEN p
    ELSE IF p.len = 1 THEN None
    ELSE IF p.dst # host_ip THEN p
    ELSE IF p.len = 2 /\ p.proto # "other" THEN None
    ELSE RewriteL4([p EXCEPT !.dst = Guest, !.csum = CsumReplace(@, p.dst, Guest)],
                   p.dst, Guest, "src")

-----------------------------------------------------------------------------

VARIABLES
    host,       \* the address IpAm has given the VM
    stage,      \* the next step of load_nat_program
    config,     \* VM_CONFIG[0].host_ip
    at,         \* where the packet is
    pkt         \* the packet

loader  == <<host, stage, config>>
packets == <<at, pkt>>
vars    == <<loader, packets>>

Init ==
    /\ host \in Hosts
    /\ stage = "config"
    /\ config = <<0, 0>>
    /\ at = "idle"
    /\ pkt = None

(* load_nat_program.                                                       *)

\* Mutant of SetConfig: half of the address.
SetConfigTruncated ==
    /\ stage = "config"
    /\ config' = <<host[2]>>
    /\ stage' = "egress"
    /\ UNCHANGED <<host, packets>>

\* The map's entry is written before a program is attached.
SetConfig ==
    /\ stage = "config"
    /\ config' = host
    /\ stage' = "egress"
    /\ UNCHANGED <<host, packets>>

Attach ==
    /\ \/ stage = "egress" /\ stage' = "ingress"
       \/ stage = "ingress" /\ stage' = "ready"
    /\ UNCHANGED <<host, config, packets>>

\* An error of any step drops the Ebpf, which detaches what is attached.
LoadFails ==
    /\ stage \in {"config", "egress", "ingress"}
    /\ stage' = "failed"
    /\ UNCHANGED <<host, config, packets>>

Attached(c) == stage = "ready" \/ (c = "tc_egress" /\ stage = "ingress")

-----------------------------------------------------------------------------
(* Packets.  The VM starts when load_nat_program has returned.             *)

Checksum(sum) == Inverted(sum)
ChecksumUdp(sum) == IF sum = M THEN M ELSE Inverted(sum)

\* A frame of another EtherType, or too short to have one or the addresses.
OtherFrames ==
    [ip : {FALSE}, len : Lengths, proto : {"other"}, src : {Guest}, dst : {Guest},
     rest : {1}, csum : {0}, type : {"other"}, body : {1}, l4csum : {0}, inner : {None}]

\* IPv4 packets, long enough for the addresses.  The version is not zero, and
\* nor is a protocol.  Some have a wrong checksum, a UDP packet may have none.
IpPackets(srcs, dsts) ==
    {p \in [ip : {TRUE}, len : 1 .. 4, proto : Protocols, src : srcs, dst : dsts,
            rest : Word \ {0}, csum : Word, type : {"error", "other"},
            body : Word \ {0}, l4csum : Word, inner : {None}] :
        p.type = "error" => p.proto = "icmp" /\ p.len < 4}

\* What the other side answers to p: a packet of the same protocol, or an ICMP
\* error that quotes the header it got.
Reply(p, rest, body) ==
    LET q == [p EXCEPT !.src = p.dst, !.dst = p.src, !.rest = rest, !.body = body]
        s == [q EXCEPT !.csum = Checksum(HeaderSum(q))] IN
    [s EXCEPT !.l4csum = IF p.proto = "udp" THEN ChecksumUdp(L4Sum(s)) ELSE Checksum(L4Sum(s))]

Error(p, rest, body) ==
    LET h == [src |-> p.src, dst |-> p.dst, rest |-> p.rest, csum |-> p.csum]
        q == [p EXCEPT !.proto = "icmp", !.type = "error", !.inner = h] IN
    Reply([q EXCEPT !.len = 4], rest, body)

Answers(p) ==
    UNION {{Reply(p, rest, body), Error(p, rest, body)} : rest, body \in Word \ {0}}

\* A whole packet that its receiver accepts.
Whole(p) == p.ip /\ p.len = 4 /\ p.type = "other" /\ HeaderOK(p)

\* Packets of their own, and answers to the packets of the other side; what
\* protocol is answered shows only in a reply.
SentFrom(srcs, dsts) ==
    OtherFrames \cup IpPackets(srcs, dsts)
        \cup UNION {Answers(p) : p \in {q \in IpPackets(dsts, srcs) : Whole(q) /\ q.proto = "other"}}

Send(p, d) ==
    /\ at' = d
    /\ pkt' = p
    /\ UNCHANGED loader

GuestSends ==
    /\ at = "idle" /\ stage = "ready"
    /\ \E p \in SentFrom({Guest} \cup Peers, {host, Metadata} \cup Peers) : Send(p, "from_guest")

\* What the host transmits on the TAP; nothing keeps it from having the guest's
\* address as its source.
HostSends ==
    /\ at = "idle"
    /\ \E p \in SentFrom({Guest} \cup Peers, {host} \cup Peers) : Send(p, "to_guest")

Beyond(d) == IF d = "from_guest" THEN "net" ELSE "guest"

\* The packet p comes out of the hook of direction `at', None if it is shot.
Leave(p) ==
    /\ IF p = None THEN at' = "shot" /\ UNCHANGED pkt ELSE at' = Beyond(at) /\ pkt' = p
    /\ UNCHANGED loader

tc_egress ==
    /\ at \in Directions /\ Hooks[at] = "tc_egress" /\ Attached("tc_egress")
    /\ Leave(try_egress(pkt, config))

tc_ingress ==
    /\ at \in Directions /\ Hooks[at] = "tc_ingress" /\ Attached("tc_ingress")
    /\ Leave(try_ingress(pkt, config))

\* A hook without a program.
Unhooked ==
    /\ at \in Directions /\ ~Attached(Hooks[at])
    /\ Leave(pkt)

Done ==
    /\ at \in {"net", "guest", "shot"}
    /\ at' = "idle"
    /\ pkt' = None
    /\ UNCHANGED loader

Next ==
    \/ SetConfig \/ Attach \/ LoadFails
    \/ GuestSends \/ HostSends \/ tc_egress \/ tc_ingress \/ Unhooked
    \/ Done

Spec == Init /\ [][Next]_vars
-----------------------------------------------------------------------------

TypeOK ==
    /\ host \in Hosts
    /\ stage \in {"config", "egress", "ingress", "ready", "failed"}
    /\ config \in Address
    /\ at \in {"idle", "net", "guest", "shot"} \cup Directions
    /\ pkt \in Packet \cup {None} /\ (at # "idle" => pkt # None)

\* load_nat_program: "Egress: packets leaving the guest -> rewrite src IP (SNAT)".
\* The guest's address, the same in every VM, is not seen outside.
GuestAddressHidden ==
    at = "net" /\ pkt.ip => pkt.src # Guest

\* The packet a answers p, as p was sent: it comes from where p was sent to, goes
\* to where p was sent from, and an ICMP error quotes p's header as it was.
AnswerOf(a, p) ==
    /\ a # None
    /\ a.src = p.dst /\ a.dst = p.src
    /\ a.inner # None => a.inner.src = p.src /\ a.inner.dst = p.dst /\ HeaderOK(a.inner)

\* The classifiers undo each other, wherever they are attached.  Once the VM's
\* address is in the map, an answer to a packet tc_egress rewrote is what its
\* sender expects behind tc_ingress, and an answer to a packet tc_ingress
\* rewrote is behind tc_egress, unless it would go to the metadata service.
AnswersComeBack ==
    stage = "ready" /\ at \in Directions /\ Whole(pkt) =>
        /\ LET out == try_egress(pkt, config) IN
           out # None => \A a \in Answers(out) : AnswerOf(try_ingress(a, config), pkt)
        /\ LET in == try_ingress(pkt, config) IN
           pkt.dst = config /\ pkt.src # Metadata =>
               \A a \in Answers(in) : AnswerOf(try_egress(a, config), pkt)

Passed == at \in Directions /\ at' \in {"net", "guest"}
InnerRewritten == pkt.inner # pkt'.inner

\* A hook leaves a right checksum right and a wrong one wrong, in the IP header
\* and, but for an ICMP error it rewrites, in the segment; and a UDP checksum is
\* neither dropped nor made up.
ChecksumsKept ==
    [][Passed /\ pkt.ip =>
        /\ HeaderOK(pkt) <=> HeaderOK(pkt')
        /\ ~InnerRewritten => (L4OK(pkt) <=> L4OK(pkt'))
        /\ pkt.proto = "udp" => (pkt.l4csum = 0 <=> pkt'.l4csum = 0)]_vars
=============================================================================

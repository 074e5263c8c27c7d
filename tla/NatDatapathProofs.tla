------------------------- MODULE NatDatapathProofs -------------------------
(***************************************************************************)
(* Proofs about NatDatapath for words of any width and any addresses.      *)
(* First the ones' complement arithmetic of the kernel's helpers, then     *)
(* what one run of a classifier does to a packet, then the invariants.     *)
(***************************************************************************)
EXTENDS NatDatapath, TLAPS

\* Ones' complement addition stays in a word and has no zero but 0 + 0.
LEMMA OnesAddWord ==
  ASSUME NEW a \in Word, NEW b \in Word
  PROVE  /\ OnesAdd(a, b) \in Word
         /\ OnesAdd(a, b) = OnesAdd(b, a)
         /\ OnesAdd(a, b) = 0 <=> a = 0 /\ b = 0
BY NatAssumption DEF Word, OnesAdd

\* The order in which the words of a header are added does not matter.
LEMMA OnesAddAssociative ==
  ASSUME NEW a \in Word, NEW b \in Word, NEW c \in Word
  PROVE  OnesAdd(OnesAdd(a, b), c) = OnesAdd(a, OnesAdd(b, c))
BY NatAssumption DEF Word, OnesAdd

\* The inverted words of an address add up to the inverse of their sum.
LEMMA InvertedSum ==
  ASSUME NEW a \in Word, NEW b \in Word
  PROVE  /\ OnesAdd(Inverted(a), Inverted(b)) \in Word
         /\ OnesAdd(a, b) + OnesAdd(Inverted(a), Inverted(b)) \in {M, 2 * M}
BY NatAssumption DEF Word, OnesAdd, Inverted

\* The arithmetic of CsumReplace: F is the sum taken out, N its inverse, T the
\* sum put in, A the sum of everything else that is covered, which is not zero.
LEMMA ReplaceCore ==
  ASSUME NEW F \in Word, NEW T \in Word, NEW A \in Word \ {0}, NEW c \in Word, NEW N \in Word,
         NEW n \in Int, F + N \in {M, 2 * M},
         n = Inverted(OnesAdd(OnesAdd(OnesAdd(M, Inverted(c)), N), T))
  PROVE  /\ n \in Word /\ n # M
         /\ OnesAdd(OnesAdd(F, A), c) = M <=> OnesAdd(OnesAdd(T, A), n) = M
         /\ OnesAdd(A, c) = M => (OnesAdd(A, n) = M <=> OnesAdd(M, F) = OnesAdd(M, T))
<1> DEFINE c1 == OnesAdd(M, Inverted(c))
<1>1. c1 \in 1 .. M /\ c1 + c \in {M, 2 * M}
  BY NatAssumption DEF Word, OnesAdd, Inverted
<1> DEFINE c2 == OnesAdd(c1, N)
<1> HIDE DEF c1
<1>2. c2 \in 1 .. M /\ c2 \in {c1 + N, c1 + N - M}
  BY <1>1, NatAssumption DEF Word, OnesAdd
<1> DEFINE c3 == OnesAdd(c2, T)
<1>3. n = M - c3
  BY DEF c1, Inverted
<1> HIDE DEF c2
<1>4. c3 \in 1 .. M /\ c3 \in {c2 + T, c2 + T - M}
  BY <1>2, NatAssumption DEF Word, OnesAdd
<1> HIDE DEF c3
<1>5. n \in Word /\ n # M
  BY <1>3, <1>4, NatAssumption DEF Word
<1> DEFINE S == OnesAdd(F, A)
           R == OnesAdd(T, A)
<1>6. S \in 1 .. M /\ S \in {F + A, F + A - M}
  BY NatAssumption DEF Word, OnesAdd
<1>7. R \in 1 .. M /\ R \in {T + A, T + A - M}
  BY NatAssumption DEF Word, OnesAdd
<1> HIDE DEF S, R
<1>8. OnesAdd(S, c) = M <=> S + c \in {M, 2 * M}
  BY <1>6, NatAssumption DEF Word, OnesAdd
<1>9. OnesAdd(R, n) = M <=> R + n \in {M, 2 * M}
  BY <1>5, <1>7, NatAssumption DEF Word, OnesAdd
<1>10. S + c \in {M, 2 * M} <=> R + n \in {M, 2 * M}
  BY <1>1, <1>2, <1>3, <1>4, <1>6, <1>7, NatAssumption DEF Word
<1>11. /\ OnesAdd(A, c) = M <=> A + c \in {M, 2 * M}
       /\ OnesAdd(A, n) = M <=> A + n \in {M, 2 * M}
       /\ OnesAdd(M, F) = IF F = 0 THEN M ELSE F
       /\ OnesAdd(M, T) = IF T = 0 THEN M ELSE T
  BY <1>5, NatAssumption DEF Word, OnesAdd
<1>12. A + c \in {M, 2 * M} =>
          (A + n \in {M, 2 * M} <=> OnesAdd(M, F) = OnesAdd(M, T))
  BY <1>1, <1>2, <1>3, <1>4, <1>11, NatAssumption DEF Word
<1> QED
  BY <1>5, <1>8, <1>9, <1>10, <1>11, <1>12 DEF S, R

\* bpf_l3_csum_replace and bpf_l4_csum_replace: a checksum over an address and
\* the words A is right exactly if it was; over A alone, exactly if the two
\* addresses have one sum.
LEMMA CsumReplaceKeeps ==
  ASSUME NEW from \in Address, NEW to \in Address, NEW A \in Word, A # 0, NEW c \in Word
  PROVE  /\ CsumReplace(c, from, to) \in Word
         /\ OnesAdd(OnesAdd(WordSum(from), A), c) = M
              <=> OnesAdd(OnesAdd(WordSum(to), A), CsumReplace(c, from, to)) = M
         /\ OnesAdd(A, c) = M =>
              (OnesAdd(A, CsumReplace(c, from, to)) = M
                 <=> OnesAdd(M, WordSum(from)) = OnesAdd(M, WordSum(to)))
<1> DEFINE N == OnesAdd(Inverted(from[1]), Inverted(from[2]))
<1>1. from[1] \in Word /\ from[2] \in Word /\ to[1] \in Word /\ to[2] \in Word
  BY DEF Address
<1>2. WordSum(from) \in Word /\ WordSum(to) \in Word
  BY <1>1, OnesAddWord DEF WordSum
<1>3. N \in Word /\ WordSum(from) + N \in {M, 2 * M}
  BY <1>1, InvertedSum DEF WordSum
<1> DEFINE n == CsumReplace(c, from, to)
<1>4. n = Inverted(OnesAdd(OnesAdd(OnesAdd(M, Inverted(c)), N), WordSum(to)))
  BY DEF CsumReplace
<1>5. n \in Int
  <2>1. Inverted(c) \in Word /\ M \in Word
    BY NatAssumption DEF Inverted, Word
  <2>2. OnesAdd(OnesAdd(OnesAdd(M, Inverted(c)), N), WordSum(to)) \in Word
    BY <1>2, <1>3, <2>1, OnesAddWord
  <2> QED
    BY <1>4, <2>2, NatAssumption DEF Inverted, Word
<1> DEFINE F == WordSum(from)
           T == WordSum(to)
<1> HIDE DEF N, n, F, T
<1> QED
  <2>1. /\ n \in Word
        /\ OnesAdd(OnesAdd(WordSum(from), A), c) = M <=> OnesAdd(OnesAdd(WordSum(to), A), n) = M
        /\ OnesAdd(A, c) = M =>
             (OnesAdd(A, n) = M <=> OnesAdd(M, WordSum(from)) = OnesAdd(M, WordSum(to)))
    <3>1. F \in Word /\ T \in Word /\ F + N \in {M, 2 * M} /\ N \in Word
      BY <1>2, <1>3 DEF F, T
    <3>2. n = Inverted(OnesAdd(OnesAdd(OnesAdd(M, Inverted(c)), N), T))
      BY <1>4 DEF T
    <3>3. /\ n \in Word
          /\ OnesAdd(OnesAdd(F, A), c) = M <=> OnesAdd(OnesAdd(T, A), n) = M
          /\ OnesAdd(A, c) = M => (OnesAdd(A, n) = M <=> OnesAdd(M, F) = OnesAdd(M, T))
      BY <1>5, <3>1, <3>2, ReplaceCore
    <3> QED
      BY <3>3 DEF F, T
  <2> QED
    BY <2>1 DEF n

\* The same for UDP, where zero means that there is no checksum.
LEMMA CsumReplaceUdpKeeps ==
  ASSUME NEW from \in Address, NEW to \in Address, NEW A \in Word, A # 0, NEW c \in Word
  PROVE  /\ CsumReplaceUdp(c, from, to) \in Word /\ CsumReplaceUdp(c, from, to) # 0
         /\ OnesAdd(OnesAdd(WordSum(from), A), c) = M
              <=> OnesAdd(OnesAdd(WordSum(to), A), CsumReplaceUdp(c, from, to)) = M
<1>1. to[1] \in Word /\ to[2] \in Word
  BY DEF Address
<1>2. WordSum(to) \in Word
  BY <1>1, OnesAddWord DEF WordSum
<1> DEFINE R == OnesAdd(WordSum(to), A)
           n == CsumReplace(c, from, to)
<1>3. R \in Word /\ R # 0
  BY <1>2, OnesAddWord
<1>4. OnesAdd(R, 0) = M <=> OnesAdd(R, M) = M
  BY <1>3, NatAssumption DEF Word, OnesAdd
<1>5. /\ n \in Word
      /\ OnesAdd(OnesAdd(WordSum(from), A), c) = M <=> OnesAdd(R, n) = M
  BY CsumReplaceKeeps
<1>6. CsumReplaceUdp(c, from, to) = IF n = 0 THEN M ELSE n
  BY DEF CsumReplaceUdp
<1>7. M \in Word /\ M # 0
  BY NatAssumption DEF Word
<1> HIDE DEF n, R
<1> QED
  BY <1>4, <1>5, <1>6, <1>7 DEF R

\* The word sum of an address is a word.
LEMMA WordSumWord ==
  ASSUME NEW a \in Address
  PROVE  WordSum(a) \in Word
BY OnesAddWord DEF WordSum, Address

\* The checksum c of two addresses and of words that add up to r.
SumOK(a, b, r, c) == OnesAdd(OnesAdd(OnesAdd(WordSum(a), WordSum(b)), r), c) = M

\* One of two addresses is replaced, in the words that a header or a pseudo
\* header covers: a right checksum stays right and a wrong one wrong.
LEMMA AddressReplaced ==
  ASSUME NEW from \in Address, NEW to \in Address, NEW other \in Address,
         NEW r \in Word \ {0}, NEW c \in Word
  PROVE  /\ CsumReplace(c, from, to) \in Word
         /\ SumOK(from, other, r, c) <=> SumOK(to, other, r, CsumReplace(c, from, to))
         /\ SumOK(other, from, r, c) <=> SumOK(other, to, r, CsumReplace(c, from, to))
         /\ CsumReplaceUdp(c, from, to) \in Word /\ CsumReplaceUdp(c, from, to) # 0
         /\ SumOK(from, other, r, c) <=> SumOK(to, other, r, CsumReplaceUdp(c, from, to))
         /\ SumOK(other, from, r, c) <=> SumOK(other, to, r, CsumReplaceUdp(c, from, to))
<1> DEFINE F == WordSum(from)
           T == WordSum(to)
           O == WordSum(other)
           A == OnesAdd(O, r)
           n == CsumReplace(c, from, to)
           u == CsumReplaceUdp(c, from, to)
<1>1. F \in Word /\ T \in Word /\ O \in Word
  BY WordSumWord
<1>2. A \in Word /\ A # 0
  BY <1>1, OnesAddWord
<1>3. /\ n \in Word
      /\ OnesAdd(OnesAdd(F, A), c) = M <=> OnesAdd(OnesAdd(T, A), n) = M
  BY <1>2, CsumReplaceKeeps
<1>4. /\ u \in Word /\ u # 0
      /\ OnesAdd(OnesAdd(F, A), c) = M <=> OnesAdd(OnesAdd(T, A), u) = M
  BY <1>2, CsumReplaceUdpKeeps
<1> HIDE DEF F, T, O, n, u
<1>5. /\ OnesAdd(OnesAdd(F, O), r) = OnesAdd(F, A)
      /\ OnesAdd(OnesAdd(O, F), r) = OnesAdd(F, A)
      /\ OnesAdd(OnesAdd(T, O), r) = OnesAdd(T, A)
      /\ OnesAdd(OnesAdd(O, T), r) = OnesAdd(T, A)
  BY <1>1, OnesAddWord, OnesAddAssociative
<1> QED
  BY <1>3, <1>4, <1>5 DEF F, T, O, n, u, SumOK

-----------------------------------------------------------------------------
(* One run of a classifier.                                                *)

\* A header whose source, or destination, is replaced.
LEMMA HeaderReplaced ==
  ASSUME NEW h \in Header, h.rest # 0, NEW to \in Address
  PROVE  /\ LET g == [h EXCEPT !.src = to, !.csum = CsumReplace(@, h.src, to)]
            IN  g \in Header /\ (HeaderOK(h) <=> HeaderOK(g))
         /\ LET g == [h EXCEPT !.dst = to, !.csum = CsumReplace(@, h.dst, to)]
            IN  g \in Header /\ (HeaderOK(h) <=> HeaderOK(g))
<1>1. h.src \in Address /\ h.dst \in Address /\ h.rest \in Word \ {0} /\ h.csum \in Word
  BY DEF Header
<1> DEFINE g == [h EXCEPT !.src = to, !.csum = CsumReplace(@, h.src, to)]
<1>2. CsumReplace(h.csum, h.src, to) \in Word
  BY <1>1, AddressReplaced
<1>3. g \in Header
  BY <1>2 DEF Header
<1>4. HeaderOK(h) <=> HeaderOK(g)
  <2>1. g.src = to /\ g.dst = h.dst /\ g.rest = h.rest /\ g.csum = CsumReplace(h.csum, h.src, to)
    BY DEF Header
  <2>2. SumOK(h.src, h.dst, h.rest, h.csum)
           <=> SumOK(to, h.dst, h.rest, CsumReplace(h.csum, h.src, to))
    BY <1>1, AddressReplaced
  <2> HIDE DEF g
  <2> QED
    BY <2>1, <2>2 DEF HeaderOK, HeaderSum, SumOK
<1> DEFINE k == [h EXCEPT !.dst = to, !.csum = CsumReplace(@, h.dst, to)]
<1>5. CsumReplace(h.csum, h.dst, to) \in Word
  BY <1>1, AddressReplaced
<1>6. k \in Header
  BY <1>5 DEF Header
<1>7. HeaderOK(h) <=> HeaderOK(k)
  <2>1. k.src = h.src /\ k.dst = to /\ k.rest = h.rest /\ k.csum = CsumReplace(h.csum, h.dst, to)
    BY DEF Header
  <2>2. SumOK(h.src, h.dst, h.rest, h.csum)
           <=> SumOK(h.src, to, h.rest, CsumReplace(h.csum, h.dst, to))
    BY <1>1, AddressReplaced
  <2> HIDE DEF k
  <2> QED
    BY <2>1, <2>2 DEF HeaderOK, HeaderSum, SumOK
<1> QED
  BY <1>3, <1>4, <1>6, <1>7

\* What every packet of the model is: it has words that are not zero, and a
\* quoted header exactly if it is an ICMP error that is long enough for one.
PacketOK(p) ==
    /\ p \in Packet /\ p.rest # 0 /\ p.body # 0
    /\ p.inner = None => ~(p.type = "error" /\ p.len = 4)
    /\ p.inner # None =>
          /\ p.proto = "icmp" /\ p.type = "error" /\ p.len = 4
          /\ p.inner \in Header /\ p.inner.rest # 0 /\ HeaderOK(p.inner)
\* What a rewrite of `from' to `to' does to p, apart from the outer address; the
\* quoted header has the address on the other side.
Rewritten(p, q, from, to) ==
    /\ PacketOK(q)
    /\ q.ip = p.ip /\ q.len = p.len /\ q.proto = p.proto /\ q.type = p.type
    /\ HeaderOK(p) <=> HeaderOK(q)
    /\ q.inner = p.inner => (L4OK(p) <=> L4OK(q))
    /\ p.proto = "udp" => (p.l4csum = 0 <=> q.l4csum = 0)
    /\ q.inner # p.inner =>
          /\ p.inner # None /\ q.inner # None /\ q.body = p.body
          /\ q.l4csum = CsumReplace(p.l4csum, from, to)

\* The quoted header of q is that of p, with its destination (source) replaced.
QuotedDst(p, q, from, to) ==
    /\ p.inner = None => q.inner = None
    /\ p.inner # None =>
          /\ q.inner # None /\ q.inner.src = p.inner.src
          /\ q.inner.dst = IF p.inner.dst = from THEN to ELSE p.inner.dst

QuotedSrc(p, q, from, to) ==
    /\ p.inner = None => q.inner = None
    /\ p.inner # None =>
          /\ q.inner # None /\ q.inner.dst = p.inner.dst
          /\ q.inner.src = IF p.inner.src = from THEN to ELSE p.inner.src

\* try_egress, after its checks.
LEMMA SourceRewritten ==
  ASSUME NEW p, PacketOK(p), NEW to \in Address, p.src # to, NEW q,
         q = RewriteL4([p EXCEPT !.src = to, !.csum = CsumReplace(@, p.src, to)],
                       p.src, to, "dst")
  PROVE  /\ q.src = to /\ q.dst = p.dst
         /\ Rewritten(p, q, p.src, to) /\ QuotedDst(p, q, p.src, to)
<1> DEFINE from == p.src
           o == [p EXCEPT !.src = to, !.csum = CsumReplace(@, p.src, to)]
<1>1. /\ p.src \in Address /\ p.dst \in Address /\ p.rest \in Word \ {0} /\ p.body \in Word \ {0}
      /\ p.csum \in Word /\ p.l4csum \in Word /\ p.inner \in Header \cup {None}
      /\ p.proto \in Protocols
  BY DEF PacketOK, Packet
<1>2. CsumReplace(p.csum, from, to) \in Word
  BY <1>1, AddressReplaced
<1>3. /\ o \in Packet
      /\ o.src = to /\ o.dst = p.dst /\ o.ip = p.ip /\ o.len = p.len /\ o.proto = p.proto
      /\ o.type = p.type /\ o.rest = p.rest /\ o.body = p.body /\ o.inner = p.inner
      /\ o.l4csum = p.l4csum /\ o.csum = CsumReplace(p.csum, from, to)
  BY <1>1, <1>2 DEF PacketOK, Packet
<1>4. q = RewriteL4(o, from, to, "dst")
  OBVIOUS
<1> HIDE DEF o
<1>5. SumOK(p.src, p.dst, p.rest, p.csum)
         <=> SumOK(to, p.dst, p.rest, CsumReplace(p.csum, from, to))
  BY <1>1, AddressReplaced
<1>6. HeaderOK(p) <=> HeaderOK(o)
  BY <1>3, <1>5 DEF HeaderOK, HeaderSum, SumOK
<1>7. CASE p.proto = "tcp"
  <2>1. q = [o EXCEPT !.l4csum = CsumReplace(@, from, to)]
    BY <1>3, <1>4, <1>7 DEF RewriteL4
  <2>2. CsumReplace(p.l4csum, from, to) \in Word
    BY <1>1, AddressReplaced
  <2>3. /\ q \in Packet
        /\ q.src = to /\ q.dst = p.dst /\ q.ip = p.ip /\ q.len = p.len /\ q.proto = p.proto
        /\ q.type = p.type /\ q.rest = p.rest /\ q.body = p.body /\ q.inner = p.inner
        /\ q.l4csum = CsumReplace(p.l4csum, from, to) /\ q.csum = o.csum
    BY <1>3, <2>1, <2>2 DEF Packet
  <2>4. SumOK(p.src, p.dst, p.body, p.l4csum)
           <=> SumOK(to, p.dst, p.body, CsumReplace(p.l4csum, from, to))
    BY <1>1, AddressReplaced
  <2>5. L4OK(p) <=> L4OK(q)
    BY <1>7, <2>3, <2>4 DEF L4OK, L4Sum, SumOK
  <2>6. HeaderOK(p) <=> HeaderOK(q)
    BY <1>3, <1>6, <2>3 DEF HeaderOK, HeaderSum
  <2> QED
    BY <1>7, <2>3, <2>5, <2>6 DEF PacketOK, Rewritten, QuotedDst
<1>8. CASE p.proto = "udp"
  <2>1. CASE p.l4csum = 0
    <3>1. q = o
      BY <1>3, <1>4, <1>8, <2>1 DEF RewriteL4
    <3>2. L4OK(p) /\ L4OK(q)
      BY <1>3, <1>8, <2>1, <3>1 DEF L4OK
    <3> QED
      BY <1>3, <1>6, <1>8, <3>1, <3>2 DEF PacketOK, Rewritten, QuotedDst
  <2>2. CASE p.l4csum # 0
    <3>1. q = [o EXCEPT !.l4csum = CsumReplaceUdp(@, from, to)]
      BY <1>3, <1>4, <1>8, <2>2 DEF RewriteL4
    <3>2. CsumReplaceUdp(p.l4csum, from, to) \in Word /\ CsumReplaceUdp(p.l4csum, from, to) # 0
      BY <1>1, AddressReplaced
    <3>3. /\ q \in Packet
          /\ q.src = to /\ q.dst = p.dst /\ q.ip = p.ip /\ q.len = p.len /\ q.proto = p.proto
          /\ q.type = p.type /\ q.rest = p.rest /\ q.body = p.body /\ q.inner = p.inner
          /\ q.l4csum = CsumReplaceUdp(p.l4csum, from, to) /\ q.csum = o.csum
      BY <1>3, <3>1, <3>2 DEF Packet
    <3>4. SumOK(p.src, p.dst, p.body, p.l4csum)
             <=> SumOK(to, p.dst, p.body, CsumReplaceUdp(p.l4csum, from, to))
      BY <1>1, AddressReplaced
    <3>5. L4OK(p) <=> L4OK(q)
      BY <1>8, <2>2, <3>2, <3>3, <3>4 DEF L4OK, L4Sum, SumOK
    <3>6. HeaderOK(p) <=> HeaderOK(q)
      BY <1>3, <1>6, <3>3 DEF HeaderOK, HeaderSum
    <3> QED
      BY <1>8, <2>2, <3>2, <3>3, <3>5, <3>6 DEF PacketOK, Rewritten, QuotedDst
  <2> QED
    BY <2>1, <2>2
<1>9. CASE p.proto = "icmp"
  <2>1. q = RewriteInner(o, from, to, "dst")
    BY <1>3, <1>4, <1>9 DEF RewriteL4
  <2>2. CASE p.inner # None /\ p.inner.dst = from
    <3> DEFINE g == [p.inner EXCEPT !.dst = to, !.csum = CsumReplace(@, p.inner.dst, to)]
    <3>1. p.inner \in Header /\ p.inner.rest # 0 /\ HeaderOK(p.inner) /\ p.type = "error" /\ p.len = 4
      BY <2>2 DEF PacketOK
    <3>2. g \in Header /\ HeaderOK(g)
      BY <3>1, HeaderReplaced
    <3>3. g.dst = to /\ g.src = p.inner.src /\ g.rest = p.inner.rest
      BY <3>1 DEF Header
    <3>4. q = [o EXCEPT !.inner = g, !.l4csum = CsumReplace(@, from, to)]
      <4> DEFINE f == [o.inner EXCEPT !["dst"] = to, !.csum = CsumReplace(@, from, to)]
      <4>1. o.inner["dst"] = from
        BY <1>3, <2>2, <3>1 DEF Header
      <4>2. q = [o EXCEPT !.inner = f, !.l4csum = CsumReplace(@, from, to)]
        <5>1. o.type = "error" /\ o.len = 4
          BY <1>3, <3>1
        <5> QED
          BY <2>1, <4>1, <5>1, Zenon DEF RewriteInner
      <4>3. f = g
        BY <1>3, <2>2, <3>1 DEF Header
      <4> QED
        BY <4>2, <4>3
    <3>5. CsumReplace(p.l4csum, from, to) \in Word
      BY <1>1, AddressReplaced
    <3> HIDE DEF g
    <3>6. /\ q \in Packet
          /\ q.src = to /\ q.dst = p.dst /\ q.ip = p.ip /\ q.len = p.len /\ q.proto = p.proto
          /\ q.type = p.type /\ q.rest = p.rest /\ q.body = p.body /\ q.inner = g
          /\ q.l4csum = CsumReplace(p.l4csum, from, to) /\ q.csum = o.csum
      <4> DEFINE HN == Header \cup {None}
                 n == CsumReplace(p.l4csum, from, to)
      <4>1. g \in HN /\ n \in Word
        BY <3>2, <3>5
      <4>2. o \in [ip : BOOLEAN, len : Lengths, proto : Protocols, src : Address, dst : Address,
                   rest : Word, csum : Word, type : {"error", "other"}, body : Word,
                   l4csum : Word, inner : HN]
        BY <1>3 DEF Packet
      <4>3. q = [o EXCEPT !.inner = g, !.l4csum = n]
        BY <1>3, <3>4
      <4> HIDE DEF HN, n
      <4>4. /\ q \in [ip : BOOLEAN, len : Lengths, proto : Protocols, src : Address, dst : Address,
                      rest : Word, csum : Word, type : {"error", "other"}, body : Word,
                      l4csum : Word, inner : HN]
            /\ q.src = o.src /\ q.dst = o.dst /\ q.ip = o.ip /\ q.len = o.len /\ q.proto = o.proto
            /\ q.type = o.type /\ q.rest = o.rest /\ q.body = o.body /\ q.inner = g
            /\ q.l4csum = n /\ q.csum = o.csum
        BY <4>1, <4>2, <4>3
      <4> QED
        BY <1>3, <4>4 DEF HN, n, Packet
    <3>7. HeaderOK(p) <=> HeaderOK(q)
      BY <1>3, <1>6, <3>6 DEF HeaderOK, HeaderSum
    <3>8. g # p.inner /\ g # None
      BY <2>2, <3>2, <3>3, NoneAssumption
    <3> QED
      BY <1>9, <2>2, <3>1, <3>2, <3>3, <3>6, <3>7, <3>8 DEF PacketOK, Rewritten, QuotedDst
  <2>3. CASE ~(p.inner # None /\ p.inner.dst = from)
    <3>1. q = o
      BY <1>3, <2>1, <2>3 DEF RewriteInner, PacketOK
    <3>2. L4OK(p) <=> L4OK(q)
      BY <1>3, <1>9, <3>1 DEF L4OK, L4Sum
    <3> QED
      BY <1>3, <1>6, <1>9, <2>3, <3>1, <3>2 DEF PacketOK, Rewritten, QuotedDst
  <2> QED
    BY <2>2, <2>3
<1>10. CASE p.proto = "other"
  <2>1. q = o
    BY <1>3, <1>4, <1>10 DEF RewriteL4
  <2>2. L4OK(p) /\ L4OK(q)
    BY <1>3, <1>10, <2>1 DEF L4OK
  <2> QED
    BY <1>3, <1>6, <1>10, <2>1, <2>2 DEF PacketOK, Rewritten, QuotedDst
<1> QED
  BY <1>1, <1>7, <1>8, <1>9, <1>10 DEF Protocols

\* try_ingress, after its checks.
LEMMA DestinationRewritten ==
  ASSUME NEW p, PacketOK(p), NEW to \in Address, p.dst # to, NEW q,
         q = RewriteL4([p EXCEPT !.dst = to, !.csum = CsumReplace(@, p.dst, to)],
                       p.dst, to, "src")
  PROVE  /\ q.dst = to /\ q.src = p.src
         /\ Rewritten(p, q, p.dst, to) /\ QuotedSrc(p, q, p.dst, to)
<1> DEFINE from == p.dst
           o == [p EXCEPT !.dst = to, !.csum = CsumReplace(@, p.dst, to)]
<1>1. /\ p.src \in Address /\ p.dst \in Address /\ p.rest \in Word \ {0} /\ p.body \in Word \ {0}
      /\ p.csum \in Word /\ p.l4csum \in Word /\ p.inner \in Header \cup {None}
      /\ p.proto \in Protocols
  BY DEF PacketOK, Packet
<1>2. CsumReplace(p.csum, from, to) \in Word
  BY <1>1, AddressReplaced
<1>3. /\ o \in Packet
      /\ o.dst = to /\ o.src = p.src /\ o.ip = p.ip /\ o.len = p.len /\ o.proto = p.proto
      /\ o.type = p.type /\ o.rest = p.rest /\ o.body = p.body /\ o.inner = p.inner
      /\ o.l4csum = p.l4csum /\ o.csum = CsumReplace(p.csum, from, to)
  BY <1>1, <1>2 DEF PacketOK, Packet
<1>4. q = RewriteL4(o, from, to, "src")
  OBVIOUS
<1> HIDE DEF o
<1>5. SumOK(p.src, p.dst, p.rest, p.csum)
         <=> SumOK(p.src, to, p.rest, CsumReplace(p.csum, from, to))
  BY <1>1, AddressReplaced
<1>6. HeaderOK(p) <=> HeaderOK(o)
  BY <1>3, <1>5 DEF HeaderOK, HeaderSum, SumOK
<1>7. CASE p.proto = "tcp"
  <2>1. q = [o EXCEPT !.l4csum = CsumReplace(@, from, to)]
    BY <1>3, <1>4, <1>7 DEF RewriteL4
  <2>2. CsumReplace(p.l4csum, from, to) \in Word
    BY <1>1, AddressReplaced
  <2>3. /\ q \in Packet
        /\ q.dst = to /\ q.src = p.src /\ q.ip = p.ip /\ q.len = p.len /\ q.proto = p.proto
        /\ q.type = p.type /\ q.rest = p.rest /\ q.body = p.body /\ q.inner = p.inner
        /\ q.l4csum = CsumReplace(p.l4csum, from, to) /\ q.csum = o.csum
    BY <1>3, <2>1, <2>2 DEF Packet
  <2>4. SumOK(p.src, p.dst, p.body, p.l4csum)
           <=> SumOK(p.src, to, p.body, CsumReplace(p.l4csum, from, to))
    BY <1>1, AddressReplaced
  <2>5. L4OK(p) <=> L4OK(q)
    BY <1>7, <2>3, <2>4 DEF L4OK, L4Sum, SumOK
  <2>6. HeaderOK(p) <=> HeaderOK(q)
    BY <1>3, <1>6, <2>3 DEF HeaderOK, HeaderSum
  <2> QED
    BY <1>7, <2>3, <2>5, <2>6 DEF PacketOK, Rewritten, QuotedSrc
<1>8. CASE p.proto = "udp"
  <2>1. CASE p.l4csum = 0
    <3>1. q = o
      BY <1>3, <1>4, <1>8, <2>1 DEF RewriteL4
    <3>2. L4OK(p) /\ L4OK(q)
      BY <1>3, <1>8, <2>1, <3>1 DEF L4OK
    <3> QED
      BY <1>3, <1>6, <1>8, <3>1, <3>2 DEF PacketOK, Rewritten, QuotedSrc
  <2>2. CASE p.l4csum # 0
    <3>1. q = [o EXCEPT !.l4csum = CsumReplaceUdp(@, from, to)]
      BY <1>3, <1>4, <1>8, <2>2 DEF RewriteL4
    <3>2. CsumReplaceUdp(p.l4csum, from, to) \in Word /\ CsumReplaceUdp(p.l4csum, from, to) # 0
      BY <1>1, AddressReplaced
    <3>3. /\ q \in Packet
          /\ q.dst = to /\ q.src = p.src /\ q.ip = p.ip /\ q.len = p.len /\ q.proto = p.proto
          /\ q.type = p.type /\ q.rest = p.rest /\ q.body = p.body /\ q.inner = p.inner
          /\ q.l4csum = CsumReplaceUdp(p.l4csum, from, to) /\ q.csum = o.csum
      BY <1>3, <3>1, <3>2 DEF Packet
    <3>4. SumOK(p.src, p.dst, p.body, p.l4csum)
             <=> SumOK(p.src, to, p.body, CsumReplaceUdp(p.l4csum, from, to))
      BY <1>1, AddressReplaced
    <3>5. L4OK(p) <=> L4OK(q)
      BY <1>8, <2>2, <3>2, <3>3, <3>4 DEF L4OK, L4Sum, SumOK
    <3>6. HeaderOK(p) <=> HeaderOK(q)
      BY <1>3, <1>6, <3>3 DEF HeaderOK, HeaderSum
    <3> QED
      BY <1>8, <2>2, <3>2, <3>3, <3>5, <3>6 DEF PacketOK, Rewritten, QuotedSrc
  <2> QED
    BY <2>1, <2>2
<1>9. CASE p.proto = "icmp"
  <2>1. q = RewriteInner(o, from, to, "src")
    BY <1>3, <1>4, <1>9 DEF RewriteL4
  <2>2. CASE p.inner # None /\ p.inner.src = from
    <3> DEFINE g == [p.inner EXCEPT !.src = to, !.csum = CsumReplace(@, p.inner.src, to)]
    <3>1. p.inner \in Header /\ p.inner.rest # 0 /\ HeaderOK(p.inner) /\ p.type = "error" /\ p.len = 4
      BY <2>2 DEF PacketOK
    <3>2. g \in Header /\ HeaderOK(g)
      BY <3>1, HeaderReplaced
    <3>3. g.src = to /\ g.dst = p.inner.dst /\ g.rest = p.inner.rest
      BY <3>1 DEF Header
    <3>4. q = [o EXCEPT !.inner = g, !.l4csum = CsumReplace(@, from, to)]
      <4> DEFINE f == [o.inner EXCEPT !["src"] = to, !.csum = CsumReplace(@, from, to)]
      <4>1. o.inner["src"] = from
        BY <1>3, <2>2, <3>1 DEF Header
      <4>2. q = [o EXCEPT !.inner = f, !.l4csum = CsumReplace(@, from, to)]
        <5>1. o.type = "error" /\ o.len = 4
          BY <1>3, <3>1
        <5> QED
          BY <2>1, <4>1, <5>1, Zenon DEF RewriteInner
      <4>3. f = g
        BY <1>3, <2>2, <3>1 DEF Header
      <4> QED
        BY <4>2, <4>3
    <3>5. CsumReplace(p.l4csum, from, to) \in Word
      BY <1>1, AddressReplaced
    <3> HIDE DEF g
    <3>6. /\ q \in Packet
          /\ q.dst = to /\ q.src = p.src /\ q.ip = p.ip /\ q.len = p.len /\ q.proto = p.proto
          /\ q.type = p.type /\ q.rest = p.rest /\ q.body = p.body /\ q.inner = g
          /\ q.l4csum = CsumReplace(p.l4csum, from, to) /\ q.csum = o.csum
      <4> DEFINE HN == Header \cup {None}
                 n == CsumReplace(p.l4csum, from, to)
      <4>1. g \in HN /\ n \in Word
        BY <3>2, <3>5
      <4>2. o \in [ip : BOOLEAN, len : Lengths, proto : Protocols, src : Address, dst : Address,
                   rest : Word, csum : Word, type : {"error", "other"}, body : Word,
                   l4csum : Word, inner : HN]
        BY <1>3 DEF Packet
      <4>3. q = [o EXCEPT !.inner = g, !.l4csum = n]
        BY <1>3, <3>4
      <4> HIDE DEF HN, n
      <4>4. /\ q \in [ip : BOOLEAN, len : Lengths, proto : Protocols, src : Address, dst : Address,
                      rest : Word, csum : Word, type : {"error", "other"}, body : Word,
                      l4csum : Word, inner : HN]
            /\ q.src = o.src /\ q.dst = o.dst /\ q.ip = o.ip /\ q.len = o.len /\ q.proto = o.proto
            /\ q.type = o.type /\ q.rest = o.rest /\ q.body = o.body /\ q.inner = g
            /\ q.l4csum = n /\ q.csum = o.csum
        BY <4>1, <4>2, <4>3
      <4> QED
        BY <1>3, <4>4 DEF HN, n, Packet
    <3>7. HeaderOK(p) <=> HeaderOK(q)
      BY <1>3, <1>6, <3>6 DEF HeaderOK, HeaderSum
    <3>8. g # p.inner /\ g # None
      BY <2>2, <3>2, <3>3, NoneAssumption
    <3> QED
      BY <1>9, <2>2, <3>1, <3>2, <3>3, <3>6, <3>7, <3>8 DEF PacketOK, Rewritten, QuotedSrc
  <2>3. CASE ~(p.inner # None /\ p.inner.src = from)
    <3>1. q = o
      BY <1>3, <2>1, <2>3 DEF RewriteInner, PacketOK
    <3>2. L4OK(p) <=> L4OK(q)
      BY <1>3, <1>9, <3>1 DEF L4OK, L4Sum
    <3> QED
      BY <1>3, <1>6, <1>9, <2>3, <3>1, <3>2 DEF PacketOK, Rewritten, QuotedSrc
  <2> QED
    BY <2>2, <2>3
<1>10. CASE p.proto = "other"
  <2>1. q = o
    BY <1>3, <1>4, <1>10 DEF RewriteL4
  <2>2. L4OK(p) /\ L4OK(q)
    BY <1>3, <1>10, <2>1 DEF L4OK
  <2> QED
    BY <1>3, <1>6, <1>10, <2>1, <2>2 DEF PacketOK, Rewritten, QuotedSrc
<1> QED
  BY <1>1, <1>7, <1>8, <1>9, <1>10 DEF Protocols
\* tc_egress.
LEMMA EgressPasses ==
  ASSUME NEW p, PacketOK(p), NEW h \in Hosts, NEW q, q = try_egress(p, h), q # None
  PROVE  /\ PacketOK(q)
         /\ ~p.ip => q = p
         /\ p.ip => /\ p.src = Guest /\ p.dst # Metadata
                    /\ q.src = h /\ q.dst = p.dst
                    /\ Rewritten(p, q, Guest, h) /\ QuotedDst(p, q, Guest, h)
<1>1. CASE ~p.ip
  BY <1>1 DEF try_egress
<1>2. CASE p.ip
  <2>1. /\ p.src = Guest /\ p.dst # Metadata
        /\ q = RewriteL4([p EXCEPT !.src = h, !.csum = CsumReplace(@, p.src, h)], p.src, h, "dst")
    BY <1>2 DEF try_egress
  <2>2. h \in Address /\ p.src # h
    BY <2>1, NatAssumption
  <2>3. q.src = h /\ q.dst = p.dst /\ Rewritten(p, q, p.src, h) /\ QuotedDst(p, q, p.src, h)
    BY <2>1, <2>2, SourceRewritten
  <2> QED
    BY <1>2, <2>1, <2>3 DEF Rewritten
<1> QED
  BY <1>1, <1>2

\* tc_ingress.
LEMMA IngressPasses ==
  ASSUME NEW p, PacketOK(p), NEW h \in Hosts, NEW q, q = try_ingress(p, h), q # None
  PROVE  /\ PacketOK(q)
         /\ ~p.ip \/ p.dst # h => q = p
         /\ p.ip /\ p.dst = h =>
               /\ q.dst = Guest /\ q.src = p.src
               /\ Rewritten(p, q, h, Guest) /\ QuotedSrc(p, q, h, Guest)
<1>1. CASE ~p.ip \/ p.dst # h
  BY <1>1 DEF try_ingress
<1>2. CASE p.ip /\ p.dst = h
  <2>1. q = RewriteL4([p EXCEPT !.dst = Guest, !.csum = CsumReplace(@, p.dst, Guest)],
                      p.dst, Guest, "src")
    BY <1>2 DEF try_ingress
  <2>2. Guest \in Address /\ p.dst # Guest
    BY <1>2, NatAssumption
  <2>3. /\ q.dst = Guest /\ q.src = p.src
        /\ Rewritten(p, q, p.dst, Guest) /\ QuotedSrc(p, q, p.dst, Guest)
    BY <2>1, <2>2, DestinationRewritten
  <2> QED
    BY <1>2, <2>3 DEF Rewritten
<1> QED
  BY <1>1, <1>2

\* The quoted header with its checksum adds nothing to an ICMP message.
LEMMA QuoteAddsNothing ==
  ASSUME NEW p, PacketOK(p), p.inner # None, p.l4csum \in Word
  PROVE  L4OK(p) <=> OnesAdd(p.body, p.l4csum) = M
<1>1. p.proto = "icmp" /\ OnesAdd(HeaderSum(p.inner), p.inner.csum) = M
  BY DEF PacketOK, HeaderOK
<1>2. p.body \in Word /\ p.body # 0
  BY DEF PacketOK, Packet
<1>3. OnesAdd(p.body, M) = p.body
  BY <1>2, NatAssumption DEF OnesAdd, Word
<1>4. L4Sum(p) = p.body
  BY <1>1, <1>3 DEF L4Sum
<1> QED
  BY <1>1, <1>4 DEF L4OK
\* A checksum that is computed is right.
LEMMA ChecksumRight ==
  ASSUME NEW w \in Word
  PROVE  /\ Checksum(w) \in Word /\ ChecksumUdp(w) \in Word
         /\ OnesAdd(w, Checksum(w)) = M
BY NatAssumption DEF Checksum, ChecksumUdp, Inverted, OnesAdd, Word

\* The sums of a header and of a segment are words.
LEMMA SumsAreWords ==
  ASSUME NEW p \in Packet
  PROVE  HeaderSum(p) \in Word /\ L4Sum(p) \in Word
<1>1. /\ WordSum(p.src) \in Word /\ WordSum(p.dst) \in Word /\ p.rest \in Word /\ p.body \in Word
      /\ p.inner \in Header \cup {None}
  BY WordSumWord DEF Packet
<1>2. HeaderSum(p) \in Word
  BY <1>1, OnesAddWord DEF HeaderSum
<1>3. CASE p.proto # "icmp"
  BY <1>1, <1>2, <1>3, OnesAddWord DEF L4Sum
<1>4. CASE p.proto = "icmp" /\ p.inner = None
  BY <1>1, <1>2, <1>4 DEF L4Sum
<1>5. CASE p.proto = "icmp" /\ p.inner # None
  <2>1. /\ WordSum(p.inner.src) \in Word /\ WordSum(p.inner.dst) \in Word
        /\ p.inner.rest \in Word /\ p.inner.csum \in Word
    BY <1>1, <1>5, WordSumWord DEF Header
  <2>2. OnesAdd(HeaderSum(p.inner), p.inner.csum) \in Word
    BY <2>1, OnesAddWord DEF HeaderSum
  <2> QED
    BY <1>1, <1>2, <1>5, <2>2, OnesAddWord DEF L4Sum
<1> QED
  BY <1>2, <1>3, <1>4, <1>5

\* A packet of the other direction, with right checksums.
LEMMA ReplyIsRight ==
  ASSUME NEW p \in Packet, NEW rest \in Word \ {0}, NEW body \in Word \ {0}, NEW a,
         a = Reply(p, rest, body)
  PROVE  /\ a \in Packet /\ a.rest # 0 /\ a.body # 0
         /\ a.src = p.dst /\ a.dst = p.src /\ a.inner = p.inner
         /\ a.ip = p.ip /\ a.len = p.len /\ a.type = p.type /\ a.proto = p.proto
         /\ p.proto = "icmp" => L4OK(a)
<1> DEFINE q == [p EXCEPT !.src = p.dst, !.dst = p.src, !.rest = rest, !.body = body]
<1>1. /\ q \in Packet /\ q.rest # 0 /\ q.body # 0
      /\ q.src = p.dst /\ q.dst = p.src /\ q.inner = p.inner
      /\ q.ip = p.ip /\ q.len = p.len /\ q.type = p.type /\ q.proto = p.proto
  BY DEF Packet
<1> DEFINE s == [q EXCEPT !.csum = Checksum(HeaderSum(q))]
           c == IF p.proto = "udp" THEN ChecksumUdp(L4Sum(s)) ELSE Checksum(L4Sum(s))
<1>2. a = [s EXCEPT !.l4csum = c]
  BY DEF Reply
<1> HIDE DEF q
<1>3. Checksum(HeaderSum(q)) \in Word
  BY <1>1, SumsAreWords, ChecksumRight
<1>4. /\ s \in Packet /\ s.rest # 0 /\ s.body # 0
      /\ s.src = p.dst /\ s.dst = p.src /\ s.inner = p.inner
      /\ s.ip = p.ip /\ s.len = p.len /\ s.type = p.type /\ s.proto = p.proto
  BY <1>1, <1>3 DEF Packet
<1> HIDE DEF s
<1>5. L4Sum(s) \in Word
  BY <1>4, SumsAreWords
<1>6. c \in Word /\ (p.proto = "icmp" => OnesAdd(L4Sum(s), c) = M)
  BY <1>5, ChecksumRight
<1> HIDE DEF c
<1>7. /\ a \in Packet /\ a.rest = s.rest /\ a.body = s.body /\ a.src = s.src /\ a.dst = s.dst
      /\ a.inner = s.inner /\ a.ip = s.ip /\ a.len = s.len /\ a.type = s.type
      /\ a.proto = s.proto /\ a.l4csum = c
  BY <1>2, <1>4, <1>6 DEF Packet
<1>8. p.proto = "icmp" => L4OK(a)
  <2>1. ASSUME p.proto = "icmp" PROVE L4Sum(a) = L4Sum(s)
    BY <1>4, <1>7, <2>1 DEF L4Sum
  <2> QED
    BY <1>6, <1>7, <2>1 DEF L4OK
<1> QED
  BY <1>4, <1>7, <1>8

\* What is answered to a packet that arrived.
LEMMA AnswersAreRight ==
  ASSUME NEW p, PacketOK(p), p.type = "other", HeaderOK(p),
         NEW rest \in Word \ {0}, NEW body \in Word \ {0}, NEW a,
         a \in {Reply(p, rest, body), Error(p, rest, body)}
  PROVE  /\ PacketOK(a) /\ a.ip = p.ip
         /\ p.len = 4 => a.len = 4
         /\ a.src = p.dst /\ a.dst = p.src
         /\ a.inner # None => L4OK(a) /\ a.inner.src = p.src /\ a.inner.dst = p.dst
<1>1. p \in Packet /\ p.inner = None
  BY DEF PacketOK
<1>2. CASE a = Reply(p, rest, body)
  <2>1. /\ a \in Packet /\ a.rest # 0 /\ a.body # 0
        /\ a.src = p.dst /\ a.dst = p.src /\ a.inner = p.inner
        /\ a.ip = p.ip /\ a.len = p.len /\ a.type = p.type
    BY <1>1, <1>2, ReplyIsRight
  <2> QED
    BY <1>1, <2>1 DEF PacketOK
<1>3. CASE a = Error(p, rest, body)
  <2> DEFINE h == [src |-> p.src, dst |-> p.dst, rest |-> p.rest, csum |-> p.csum]
             e == [[p EXCEPT !.proto = "icmp", !.type = "error", !.inner = h] EXCEPT !.len = 4]
  <2>1. /\ h \in Header /\ h.rest # 0 /\ h.src = p.src /\ h.dst = p.dst /\ h # None
    BY <1>1, NoneAssumption DEF PacketOK, Packet, Header
  <2>2. HeaderOK(h)
    BY DEF HeaderOK, HeaderSum
  <2>3. a = Reply(e, rest, body)
    BY <1>3 DEF Error
  <2> HIDE DEF h
  <2>4. /\ e \in Packet /\ e.inner = h /\ e.proto = "icmp" /\ e.type = "error" /\ e.len = 4
        /\ e.src = p.src /\ e.dst = p.dst /\ e.ip = p.ip
    <3> DEFINE HN == Header \cup {None}
    <3>1. h \in HN
      BY <2>1
    <3>2. p \in [ip : BOOLEAN, len : Lengths, proto : Protocols, src : Address, dst : Address,
                 rest : Word, csum : Word, type : {"error", "other"}, body : Word,
                 l4csum : Word, inner : HN]
      BY <1>1 DEF Packet
    <3>3. 4 \in Lengths /\ "icmp" \in Protocols
      BY DEF Lengths, Protocols
    <3> HIDE DEF HN
    <3>4. /\ e \in [ip : BOOLEAN, len : Lengths, proto : Protocols, src : Address, dst : Address,
                    rest : Word, csum : Word, type : {"error", "other"}, body : Word,
                    l4csum : Word, inner : HN]
          /\ e.inner = h /\ e.proto = "icmp" /\ e.type = "error" /\ e.len = 4
          /\ e.src = p.src /\ e.dst = p.dst /\ e.ip = p.ip
      BY <3>1, <3>2, <3>3
    <3> QED
      BY <3>4 DEF HN, Packet
  <2> HIDE DEF e
  <2>5. /\ a \in Packet /\ a.rest # 0 /\ a.body # 0
        /\ a.src = e.dst /\ a.dst = e.src /\ a.inner = e.inner
        /\ a.ip = e.ip /\ a.len = e.len /\ a.type = e.type /\ a.proto = e.proto
        /\ L4OK(a)
    BY <2>3, <2>4, ReplyIsRight
  <2> QED
    BY <2>1, <2>2, <2>4, <2>5 DEF PacketOK
<1> QED
  BY <1>2, <1>3
-----------------------------------------------------------------------------
(* The invariant.                                                          *)

\* The configuration is set before a program can see a packet, and an ICMP error
\* that has not passed a hook yet has a right checksum.
NatInv ==
    /\ TypeOK
    /\ stage \in {"egress", "ingress", "ready"} => config = host
    /\ pkt # None => PacketOK(pkt)
    /\ at \in Directions /\ pkt.inner # None => L4OK(pkt)

\* Every packet of one's own is a packet, and quotes nothing.
LEMMA OwnPackets ==
  ASSUME NEW S \in SUBSET Address, NEW D \in SUBSET Address, NEW p \in OtherFrames \cup IpPackets(S, D)
  PROVE  PacketOK(p) /\ p.inner = None /\ p # None
<1>1. Guest \in Address
  BY NatAssumption
<1>2. 0 \in Word /\ 1 \in Word
  BY NatAssumption DEF Word
<1>3. p \in Packet /\ p.rest # 0 /\ p.body # 0 /\ p.inner = None /\ ~(p.type = "error" /\ p.len = 4)
  <2> DEFINE HN == Header \cup {None}
             P == [ip : BOOLEAN, len : Lengths, proto : Protocols, src : Address, dst : Address,
                   rest : Word, csum : Word, type : {"error", "other"}, body : Word,
                   l4csum : Word, inner : HN]
  <2>1. None \in HN
    OBVIOUS
  <2>2. "other" \in Protocols /\ 1 .. 4 \subseteq Lengths
    BY DEF Protocols, Lengths
  <2>3. P = Packet
    BY DEF Packet
  <2> HIDE DEF HN
  <2>4. CASE p \in OtherFrames
    <3>1. /\ p \in [ip : {FALSE}, len : Lengths, proto : {"other"}, src : {Guest}, dst : {Guest},
                    rest : {1}, csum : {0}, type : {"other"}, body : {1}, l4csum : {0},
                    inner : {None}]
      BY <2>4 DEF OtherFrames
    <3>2. /\ p.ip \in BOOLEAN /\ p.len \in Lengths /\ p.proto \in Protocols /\ p.src \in Address
          /\ p.dst \in Address /\ p.rest \in Word /\ p.csum \in Word
          /\ p.type \in {"error", "other"} /\ p.body \in Word /\ p.l4csum \in Word
          /\ p.inner \in HN
          /\ p.rest # 0 /\ p.body # 0 /\ p.inner = None /\ p.type # "error"
      <4>1. /\ p.ip \in {FALSE} /\ p.len \in Lengths /\ p.proto \in {"other"} /\ p.src \in {Guest}
            /\ p.dst \in {Guest} /\ p.rest \in {1} /\ p.csum \in {0} /\ p.type \in {"other"}
            /\ p.body \in {1} /\ p.l4csum \in {0} /\ p.inner \in {None}
        BY <3>1
      <4>2. p.ip \in BOOLEAN
        BY <4>1, Zenon
      <4> QED
        BY <1>1, <1>2, <2>1, <2>2, <4>1, <4>2
    <3>3. p = [ip |-> p.ip, len |-> p.len, proto |-> p.proto, src |-> p.src, dst |-> p.dst,
               rest |-> p.rest, csum |-> p.csum, type |-> p.type, body |-> p.body,
               l4csum |-> p.l4csum, inner |-> p.inner]
      BY <3>1
    <3>4. p \in P
      BY <3>2, <3>3
    <3> QED
      BY <2>3, <3>2, <3>4
  <2>5. CASE p \in IpPackets(S, D)
    <3>1. /\ p \in [ip : {TRUE}, len : 1 .. 4, proto : Protocols, src : S, dst : D,
                    rest : Word \ {0}, csum : Word, type : {"error", "other"},
                    body : Word \ {0}, l4csum : Word, inner : {None}]
          /\ p.type = "error" => p.len < 4
      BY <2>5 DEF IpPackets
    <3>2. /\ p.ip \in BOOLEAN /\ p.len \in Lengths /\ p.proto \in Protocols /\ p.src \in Address
          /\ p.dst \in Address /\ p.rest \in Word /\ p.csum \in Word
          /\ p.type \in {"error", "other"} /\ p.body \in Word /\ p.l4csum \in Word
          /\ p.inner \in HN
          /\ p.rest # 0 /\ p.body # 0 /\ p.inner = None /\ ~(p.type = "error" /\ p.len = 4)
      <4>1. /\ p.ip \in {TRUE} /\ p.len \in 1 .. 4 /\ p.proto \in Protocols /\ p.src \in S
            /\ p.dst \in D /\ p.rest \in Word \ {0} /\ p.csum \in Word
            /\ p.type \in {"error", "other"} /\ p.body \in Word \ {0} /\ p.l4csum \in Word
            /\ p.inner \in {None}
        BY <3>1
      <4>2. p.ip \in BOOLEAN
        BY <4>1, Zenon
      <4> QED
        BY <2>1, <2>2, <2>5, <3>1, <4>1, <4>2
    <3>3. p = [ip |-> p.ip, len |-> p.len, proto |-> p.proto, src |-> p.src, dst |-> p.dst,
               rest |-> p.rest, csum |-> p.csum, type |-> p.type, body |-> p.body,
               l4csum |-> p.l4csum, inner |-> p.inner]
      BY <3>1
    <3>4. p \in P
      BY <3>2, <3>3
    <3> QED
      BY <2>3, <3>2, <3>4
  <2> QED
    BY <2>4, <2>5
<1> QED
  BY <1>3, NoneAssumption DEF PacketOK

\* Every packet the model sends is a packet, and an error has a right checksum.
LEMMA SentPackets ==
  ASSUME NEW S \in SUBSET Address, NEW D \in SUBSET Address, NEW p \in SentFrom(S, D)
  PROVE  PacketOK(p) /\ p # None /\ (p.inner # None => L4OK(p))
<1>1. CASE p \in OtherFrames \cup IpPackets(S, D)
  BY <1>1, OwnPackets
<1>2. CASE p \notin OtherFrames \cup IpPackets(S, D)
  <2>1. PICK q \in IpPackets(D, S) : Whole(q) /\ p \in Answers(q)
    BY <1>2 DEF SentFrom
  <2>2. PICK rest \in Word \ {0}, body \in Word \ {0} : p \in {Reply(q, rest, body), Error(q, rest, body)}
    BY <2>1 DEF Answers
  <2>3. PacketOK(q) /\ q.type = "other" /\ HeaderOK(q)
    BY <2>1, OwnPackets DEF Whole
  <2>4. PacketOK(p) /\ (p.inner # None => L4OK(p))
    BY <2>2, <2>3, AnswersAreRight
  <2> QED
    BY <2>4, NoneAssumption DEF PacketOK
<1> QED
  BY <1>1, <1>2

\* A hook lets a packet through, or shoots it.
LEMMA LeaveKeepsInv ==
  ASSUME NatInv, at \in Directions, NEW q, Leave(q), q # None => PacketOK(q)
  PROVE  NatInv'
<1>1. CASE q = None
  <2>1. at' = "shot" /\ pkt' = pkt /\ host' = host /\ stage' = stage /\ config' = config
    BY <1>1 DEF Leave, loader
  <2> QED
    BY <2>1 DEF NatInv, TypeOK, Directions
<1>2. CASE q # None
  <2>1. at' \in {"net", "guest"} /\ pkt' = q /\ host' = host /\ stage' = stage /\ config' = config
    BY <1>2 DEF Leave, loader, Beyond
  <2>2. q \in Packet /\ PacketOK(q)
    BY <1>2 DEF PacketOK
  <2> QED
    BY <1>2, <2>1, <2>2 DEF NatInv, TypeOK, Directions
<1> QED
  BY <1>1, <1>2

\* The first state.
LEMMA NatInvInit == Init => NatInv
<1> SUFFICES ASSUME Init PROVE NatInv
  OBVIOUS
<1>1. <<0, 0>> \in Address
  BY NatAssumption DEF Address, Word
<1> QED
  BY <1>1 DEF Init, NatInv, TypeOK, Directions

\* Every step.
LEMMA NatInvNext == NatInv /\ [Next]_vars => NatInv'
<1> SUFFICES ASSUME NatInv, [Next]_vars PROVE NatInv'
  OBVIOUS
<1>1. CASE SetConfig
  BY <1>1, NatAssumption DEF SetConfig, NatInv, TypeOK, packets, Directions
<1>2. CASE Attach
  BY <1>2 DEF Attach, NatInv, TypeOK, packets, Directions
<1>3. CASE LoadFails
  BY <1>3 DEF LoadFails, NatInv, TypeOK, packets, Directions
<1>4. CASE GuestSends \/ HostSends
  <2>1. /\ {Guest} \cup Peers \in SUBSET Address /\ {host, Metadata} \cup Peers \in SUBSET Address
        /\ {host} \cup Peers \in SUBSET Address
    BY NatAssumption DEF NatInv, TypeOK
  <2>0. PICK D \in SUBSET Address :
           \E x \in SentFrom({Guest} \cup Peers, D), d \in Directions : Send(x, d)
    BY <1>4, <2>1 DEF GuestSends, HostSends, Directions
  <2>2. PICK p \in SentFrom({Guest} \cup Peers, D), d \in Directions : Send(p, d)
    BY <2>0
  <2>3. PacketOK(p) /\ p # None /\ (p.inner # None => L4OK(p))
    BY <2>1, SentPackets
  <2>4. p \in Packet
    BY <2>3 DEF PacketOK
  <2> QED
    BY <2>2, <2>3, <2>4 DEF Send, NatInv, TypeOK, loader, Directions
<1>5. CASE tc_egress
  <2>1. at \in Directions /\ config = host /\ config \in Hosts /\ PacketOK(pkt)
    BY <1>5 DEF tc_egress, Attached, NatInv, TypeOK, Directions
  <2>2. Leave(try_egress(pkt, config))
    BY <1>5 DEF tc_egress
  <2> QED
    BY <2>1, <2>2, EgressPasses, LeaveKeepsInv
<1>6. CASE tc_ingress
  <2>1. at \in Directions /\ config = host /\ config \in Hosts /\ PacketOK(pkt)
    BY <1>6 DEF tc_ingress, Attached, NatInv, TypeOK, Directions
  <2>2. Leave(try_ingress(pkt, config))
    BY <1>6 DEF tc_ingress
  <2> QED
    BY <2>1, <2>2, IngressPasses, LeaveKeepsInv
<1>7. CASE Unhooked
  <2>1. at \in Directions /\ Leave(pkt) /\ (pkt # None => PacketOK(pkt))
    BY <1>7 DEF Unhooked, NatInv
  <2> QED
    BY <2>1, LeaveKeepsInv
<1>9. CASE Done
  BY <1>9 DEF Done, NatInv, TypeOK, loader, Directions
<1>10. CASE UNCHANGED vars
  BY <1>10 DEF vars, loader, packets, NatInv, TypeOK
<1> QED
  BY <1>1, <1>2, <1>3, <1>4, <1>5, <1>6, <1>7, <1>9, <1>10 DEF Next

\* Packets stay packets and addresses addresses, through both classifiers.
THEOREM TypeCorrect == Spec => []TypeOK
<1>1. NatInv => TypeOK
  BY DEF NatInv
<1> QED
  BY <1>1, NatInvInit, NatInvNext, PTL DEF Spec

\* A packet that comes out of a hook: as it went in, or rewritten between the
\* guest's address and the VM's.
LEMMA PassedIsRewritten ==
  ASSUME NatInv, [Next]_vars, Passed, pkt.ip
  PROVE  \/ pkt' = pkt
         \/ Rewritten(pkt, pkt', Guest, host)
         \/ Rewritten(pkt, pkt', host, Guest)
<1>1. at \in Directions /\ at' \in {"net", "guest"} /\ PacketOK(pkt)
  BY DEF Passed, NatInv, TypeOK, Directions
<1>2. \/ tc_egress \/ tc_ingress \/ Unhooked
  BY <1>1 DEF Next, vars, packets, SetConfig, Attach, LoadFails, GuestSends, HostSends, Done,
              Directions
<1>3. CASE tc_egress
  <2>1. config = host /\ config \in Hosts /\ Leave(try_egress(pkt, config))
    BY <1>3 DEF tc_egress, Attached, NatInv, TypeOK
  <2>2. pkt' = try_egress(pkt, config) /\ pkt' # None
    BY <1>1, <2>1 DEF Leave
  <2> QED
    BY <1>1, <2>1, <2>2, EgressPasses
<1>4. CASE tc_ingress
  <2>1. config = host /\ config \in Hosts /\ Leave(try_ingress(pkt, config))
    BY <1>4 DEF tc_ingress, Attached, NatInv, TypeOK
  <2>2. pkt' = try_ingress(pkt, config) /\ pkt' # None
    BY <1>1, <2>1 DEF Leave
  <2> QED
    BY <1>1, <2>1, <2>2, IngressPasses
<1>5. CASE Unhooked
  BY <1>5 DEF Unhooked, Leave
<1> QED
  BY <1>2, <1>3, <1>4, <1>5

\* For any word width and any addresses, the checksums of a packet are
\* right behind a hook exactly if they were before it, but for a rewritten ICMP
\* error; a UDP packet has a checksum exactly if it had one.
THEOREM ChecksumsAlwaysKept == Spec => ChecksumsKept
<1> DEFINE A == Passed /\ pkt.ip =>
                  /\ HeaderOK(pkt) <=> HeaderOK(pkt')
                  /\ ~InnerRewritten => (L4OK(pkt) <=> L4OK(pkt'))
                  /\ pkt.proto = "udp" => (pkt.l4csum = 0 <=> pkt'.l4csum = 0)
<1>1. ASSUME NatInv, [Next]_vars PROVE [A]_vars
  <2>1. SUFFICES ASSUME Passed, pkt.ip
                 PROVE  /\ HeaderOK(pkt) <=> HeaderOK(pkt')
                        /\ ~InnerRewritten => (L4OK(pkt) <=> L4OK(pkt'))
                        /\ pkt.proto = "udp" => (pkt.l4csum = 0 <=> pkt'.l4csum = 0)
    OBVIOUS
  <2> QED
    BY <1>1, <2>1, PassedIsRewritten DEF Rewritten, InnerRewritten
<1> QED
  BY <1>1, NatInvInit, NatInvNext, PTL DEF Spec, ChecksumsKept

\* The ICMP error the hook rewrites.  The new address and the new checksum of
\* the inner header cancel out, so the message's old checksum would still be
\* right; the one the code stores is, only if both addresses have one sum.
IcmpErrorChecksum ==
    [][Passed /\ pkt.ip /\ InnerRewritten =>
        /\ L4OK([pkt' EXCEPT !.l4csum = pkt.l4csum])
        /\ L4OK(pkt') <=> OnesAdd(M, WordSum(Guest)) = OnesAdd(M, WordSum(host))]_vars

\* The checksum of an ICMP error whose quoted header is rewritten is right behind
\* the hook only if the addresses have one sum; left alone it would be right.
THEOREM IcmpErrorsCharacterised == Spec => IcmpErrorChecksum
<1> DEFINE A == Passed /\ pkt.ip /\ InnerRewritten =>
                  /\ L4OK([pkt' EXCEPT !.l4csum = pkt.l4csum])
                  /\ L4OK(pkt') <=> OnesAdd(M, WordSum(Guest)) = OnesAdd(M, WordSum(host))
<1>1. ASSUME NatInv, [Next]_vars PROVE [A]_vars
  <2>1. SUFFICES ASSUME Passed, pkt.ip, InnerRewritten
                 PROVE  /\ L4OK([pkt' EXCEPT !.l4csum = pkt.l4csum])
                        /\ L4OK(pkt') <=> OnesAdd(M, WordSum(Guest)) = OnesAdd(M, WordSum(host))
    OBVIOUS
  <2>2. PICK from \in {Guest, host}, to \in {Guest, host} :
           Rewritten(pkt, pkt', from, to) /\ {from, to} = {Guest, host}
    BY <1>1, <2>1, PassedIsRewritten DEF InnerRewritten
  <2>3. from \in Address /\ to \in Address
    BY <1>1, NatAssumption DEF NatInv, TypeOK
  <2>4. /\ PacketOK(pkt) /\ PacketOK(pkt') /\ pkt.inner # None /\ pkt'.inner # None
        /\ pkt'.body = pkt.body /\ pkt'.l4csum = CsumReplace(pkt.l4csum, from, to)
        /\ L4OK(pkt)
    BY <1>1, <2>1, <2>2 DEF NatInv, TypeOK, Passed, Directions, Rewritten, InnerRewritten
  <2>5. /\ pkt.body \in Word /\ pkt.body # 0 /\ pkt.l4csum \in Word /\ pkt'.l4csum \in Word
        /\ pkt' \in Packet
    BY <2>4 DEF PacketOK, Packet
  <2>6. OnesAdd(pkt.body, pkt.l4csum) = M
    BY <2>4, <2>5, QuoteAddsNothing
  <2>7. L4OK(pkt') <=> OnesAdd(pkt.body, CsumReplace(pkt.l4csum, from, to)) = M
    BY <2>4, <2>5, QuoteAddsNothing
  <2>8. OnesAdd(pkt.body, CsumReplace(pkt.l4csum, from, to)) = M
           <=> OnesAdd(M, WordSum(from)) = OnesAdd(M, WordSum(to))
    BY <2>3, <2>5, <2>6, CsumReplaceKeeps
  <2>9. L4OK([pkt' EXCEPT !.l4csum = pkt.l4csum])
    <3> DEFINE r == [pkt' EXCEPT !.l4csum = pkt.l4csum]
    <3>1. /\ r \in Packet /\ r.rest = pkt'.rest /\ r.body = pkt'.body /\ r.inner = pkt'.inner
          /\ r.type = pkt'.type /\ r.len = pkt'.len /\ r.proto = pkt'.proto
          /\ r.l4csum = pkt.l4csum
      BY <2>5 DEF Packet
    <3> HIDE DEF r
    <3>2. PacketOK(r) /\ r.inner # None
      BY <2>4, <3>1 DEF PacketOK
    <3>3. L4OK(r) <=> OnesAdd(pkt.body, pkt.l4csum) = M
      BY <2>4, <2>5, <3>1, <3>2, QuoteAddsNothing
    <3> QED
      BY <2>6, <3>3 DEF r
  <2> QED
    BY <2>2, <2>7, <2>8, <2>9
<1> QED
  BY <1>1, NatInvInit, NatInvNext, PTL DEF Spec, IcmpErrorChecksum
-----------------------------------------------------------------------------
(* The classifiers undo each other.                                        *)

\* tc_egress lets a whole packet of the guest out.
LEMMA EgressLets ==
  ASSUME NEW p, PacketOK(p), NEW h \in Hosts, p.ip, p.len = 4, p.src = Guest, p.dst # Metadata
  PROVE  try_egress(p, h) # None
<1>1. try_egress(p, h) = RewriteL4([p EXCEPT !.src = h, !.csum = CsumReplace(@, p.src, h)],
                                   p.src, h, "dst")
  BY DEF try_egress
<1>2. h \in Address /\ p.src # h
  BY NatAssumption
<1>3. Rewritten(p, try_egress(p, h), p.src, h)
  BY <1>1, <1>2, SourceRewritten
<1> QED
  BY <1>3, NoneAssumption DEF Rewritten, PacketOK

\* tc_ingress lets a whole packet to the VM in.
LEMMA IngressLets ==
  ASSUME NEW p, PacketOK(p), NEW h \in Hosts, p.ip, p.len = 4, p.dst = h
  PROVE  try_ingress(p, h) # None
<1>1. try_ingress(p, h) = RewriteL4([p EXCEPT !.dst = Guest, !.csum = CsumReplace(@, p.dst, Guest)],
                                    p.dst, Guest, "src")
  BY DEF try_ingress
<1>2. Guest \in Address /\ p.dst # Guest
  BY NatAssumption
<1>3. Rewritten(p, try_ingress(p, h), p.dst, Guest)
  BY <1>1, <1>2, DestinationRewritten
<1> QED
  BY <1>3, NoneAssumption DEF Rewritten, PacketOK

\* An answer to what tc_egress made of p comes back through tc_ingress.
LEMMA OutAndBack ==
  ASSUME NEW p, PacketOK(p), Whole(p), NEW h \in Hosts, NEW out, out = try_egress(p, h), out # None,
         NEW a \in Answers(out)
  PROVE  AnswerOf(try_ingress(a, h), p)
<1>1. /\ PacketOK(out) /\ p.src = Guest /\ out.src = h /\ out.dst = p.dst
      /\ Rewritten(p, out, Guest, h)
  BY EgressPasses DEF Whole
<1>2. out.ip /\ out.len = 4 /\ out.type = "other" /\ HeaderOK(out)
  BY <1>1 DEF Whole, Rewritten
<1>3. PICK rest \in Word \ {0}, body \in Word \ {0} : a \in {Reply(out, rest, body), Error(out, rest, body)}
  BY DEF Answers
<1>4. /\ PacketOK(a) /\ a.ip /\ a.len = 4
      /\ a.src = out.dst /\ a.dst = out.src
      /\ a.inner # None => a.inner.src = out.src /\ a.inner.dst = out.dst
  <2>1. PacketOK(out) /\ out.type = "other" /\ HeaderOK(out)
    BY <1>1, <1>2
  <2>2. /\ PacketOK(a) /\ a.ip = out.ip
        /\ out.len = 4 => a.len = 4
        /\ a.src = out.dst /\ a.dst = out.src
        /\ a.inner # None => L4OK(a) /\ a.inner.src = out.src /\ a.inner.dst = out.dst
    BY <1>3, <2>1, AnswersAreRight
  <2> QED
    BY <1>2, <2>2
<1>5. PICK b : b = try_ingress(a, h)
  OBVIOUS
<1>6. b # None
  BY <1>1, <1>2, <1>4, <1>5, IngressLets
<1>7. /\ PacketOK(b) /\ b.dst = Guest /\ b.src = a.src
      /\ Rewritten(a, b, h, Guest) /\ QuotedSrc(a, b, h, Guest)
  <2>1. a.ip /\ a.dst = h
    BY <1>1, <1>4
  <2>2. /\ PacketOK(b)
        /\ a.ip /\ a.dst = h =>
              /\ b.dst = Guest /\ b.src = a.src
              /\ Rewritten(a, b, h, Guest) /\ QuotedSrc(a, b, h, Guest)
    BY <1>4, <1>5, <1>6, IngressPasses
  <2> QED
    BY <2>1, <2>2
<1> QED
  BY <1>1, <1>4, <1>5, <1>6, <1>7 DEF AnswerOf, Rewritten, QuotedSrc, PacketOK

\* An answer to what tc_ingress made of p goes back through tc_egress.
LEMMA InAndBack ==
  ASSUME NEW p, PacketOK(p), Whole(p), NEW h \in Hosts, p.dst = h, p.src # Metadata,
         NEW in, in = try_ingress(p, h), NEW a \in Answers(in)
  PROVE  AnswerOf(try_egress(a, h), p)
<1>0. in # None
  BY IngressLets DEF Whole
<1>1. /\ PacketOK(in) /\ in.dst = Guest /\ in.src = p.src /\ Rewritten(p, in, h, Guest)
  BY <1>0, IngressPasses DEF Whole
<1>2. in.ip /\ in.len = 4 /\ in.type = "other" /\ HeaderOK(in)
  BY <1>1 DEF Whole, Rewritten
<1>3. PICK rest \in Word \ {0}, body \in Word \ {0} : a \in {Reply(in, rest, body), Error(in, rest, body)}
  BY DEF Answers
<1>4. /\ PacketOK(a) /\ a.ip /\ a.len = 4
      /\ a.src = in.dst /\ a.dst = in.src
      /\ a.inner # None => a.inner.src = in.src /\ a.inner.dst = in.dst
  <2>1. PacketOK(in) /\ in.type = "other" /\ HeaderOK(in)
    BY <1>1, <1>2
  <2>2. /\ PacketOK(a) /\ a.ip = in.ip
        /\ in.len = 4 => a.len = 4
        /\ a.src = in.dst /\ a.dst = in.src
        /\ a.inner # None => L4OK(a) /\ a.inner.src = in.src /\ a.inner.dst = in.dst
    BY <1>3, <2>1, AnswersAreRight
  <2> QED
    BY <1>2, <2>2
<1>5. PICK b : b = try_egress(a, h)
  OBVIOUS
<1>6. b # None
  BY <1>1, <1>2, <1>4, <1>5, EgressLets
<1>7. /\ PacketOK(b) /\ b.src = h /\ b.dst = a.dst
      /\ Rewritten(a, b, Guest, h) /\ QuotedDst(a, b, Guest, h)
  <2>1. /\ PacketOK(b)
        /\ a.ip => /\ b.src = h /\ b.dst = a.dst
                   /\ Rewritten(a, b, Guest, h) /\ QuotedDst(a, b, Guest, h)
    BY <1>4, <1>5, <1>6, EgressPasses
  <2> QED
    BY <1>4, <2>1
<1> QED
  BY <1>1, <1>4, <1>5, <1>6, <1>7 DEF AnswerOf, Rewritten, QuotedDst, PacketOK

\* For any word width, any addresses and every packet, what one classifier does
\* to a packet the other undoes in the answers to it, the headers that ICMP
\* errors quote included.
THEOREM ClassifiersUndoEachOther == Spec => []AnswersComeBack
<1>1. NatInv => AnswersComeBack
  <2> SUFFICES ASSUME NatInv, stage = "ready", at \in Directions, Whole(pkt)
               PROVE  /\ try_egress(pkt, config) # None =>
                             \A a \in Answers(try_egress(pkt, config)) :
                                 AnswerOf(try_ingress(a, config), pkt)
                      /\ pkt.dst = config /\ pkt.src # Metadata =>
                             \A a \in Answers(try_ingress(pkt, config)) :
                                 AnswerOf(try_egress(a, config), pkt)
    BY DEF AnswersComeBack
  <2>1. PacketOK(pkt) /\ config \in Hosts
    BY DEF NatInv, TypeOK, Directions
  <2>2. ASSUME try_egress(pkt, config) # None, NEW a \in Answers(try_egress(pkt, config))
        PROVE  AnswerOf(try_ingress(a, config), pkt)
    BY <2>1, <2>2, OutAndBack
  <2>3. ASSUME pkt.dst = config, pkt.src # Metadata, NEW a \in Answers(try_ingress(pkt, config))
        PROVE  AnswerOf(try_egress(a, config), pkt)
    BY <2>1, <2>3, InAndBack
  <2> QED
    BY <2>2, <2>3
<1> QED
  BY <1>1, NatInvInit, NatInvNext, PTL DEF Spec
=============================================================================

------------------------- MODULE PublishStreamProofs -------------------------
(***************************************************************************)
(* Proofs about PublishStream, for any number of uploads, artifacts of any *)
(* length, channels of any capacity and any faults.                        *)
(***************************************************************************)
EXTENDS PublishStream, TLAPS

\* How many chunks of f have reached the server.
Received(u, f) == Len(file[u][f]) + Len(chan[u][f])

\* b may come right after a on the wire.
Follows(a, b) ==
    \/ a[1] \in Formats /\ b = Chunk(a[1], a[2] + 1)
    \/ a[1] \in {"meta", "deploy"} /\ b = Chunk("cache", 1)
    \/ a = Meta /\ b = Chunk("deploy", 1)

\* The sender is done with f.
Finished(u, f) == sending[u] = "closed" \/ (f = "deploy" /\ sending[u] = "cache")

\* What the server has of f, in the file and then in the channel, is a prefix of it.
Prefix(u, f) ==
    /\ \A k \in 1 .. Len(file[u][f]) : file[u][f][k] = Chunk(f, k)
    /\ \A k \in 1 .. Len(chan[u][f]) : chan[u][f][k] = Chunk(f, Len(file[u][f]) + k)

\* The metadata is first on the wire, and what follows it are chunks.
Framed(u) ==
    /\ \A k \in 1 .. Len(wire[u]) :
           wire[u][k][1] \in Formats => wire[u][k][2] \in 1 .. Chunks[wire[u][k][1]]
    /\ demux[u] # "idle" => \A k \in 1 .. Len(wire[u]) : wire[u][k][1] \in Formats
    /\ At(u, "first") =>
           /\ wire[u] # << >> /\ wire[u][1] = Meta
           /\ \A k \in 2 .. Len(wire[u]) : wire[u][k][1] \in Formats
    /\ handler[u] \in {"idle", "first"} => file[u] = Nothing /\ chan[u] = Nothing

\* The chunks come in order, without a gap from what the server has to what the
\* sender is at.
InOrder(u) ==
    /\ \A k \in 1 .. Len(wire[u]) - 1 : Follows(wire[u][k], wire[u][k + 1])
    /\ demux[u] = "recv" /\ wire[u] # << >> =>
           /\ wire[u][1][2] = Received(u, wire[u][1][1]) + 1
           /\ wire[u][1][1] = "deploy" => Received(u, "cache") = 0
    /\ sending[u] = "deploy" \/ (sending[u] = "cache" /\ sent[u] = 0) =>
           /\ Received(u, "cache") = 0
           /\ \A k \in 1 .. Len(wire[u]) : wire[u][k][1] # "cache"
    /\ sending[u] = "deploy" /\ sent[u] = 0 =>
           Received(u, "deploy") = 0 /\ wire[u] \in {<< >>, <<Meta>>}
    /\ sending[u] \in Formats /\ sent[u] > 0 =>
           IF wire[u] = << >> THEN Received(u, sending[u]) = sent[u]
                              ELSE wire[u][Len(wire[u])] = Chunk(sending[u], sent[u])

\* Nothing of an artifact is missing once the sender is done with it.
Complete(u) ==
    /\ \A f \in Formats \ unread : Finished(u, f) =>
           \/ Received(u, f) = Chunks[f]
           \/ \E k \in 1 .. Len(wire[u]) : wire[u][k] = Chunk(f, Chunks[f])
    /\ demux[u] = "ended" => wire[u] = << >> /\ sending[u] = "closed"

StreamInv(u) ==
    /\ \A f \in Formats : Prefix(u, f)
    /\ Framed(u)
    /\ ~Over(u) => InOrder(u) /\ Complete(u)

\* The handler, the demultiplexer and the put_blobs.
HandlerInv(u) ==
    /\ handler[u] = "idle" <=> sending[u] = "idle"
    /\ handler[u] = "idle" => conn[u] = "open" /\ sent[u] = 0 /\ wire[u] = << >>
    /\ handler[u] \in {"idle", "first"} <=> demux[u] = "idle"
    /\ handler[u] \in {"idle", "first", "has_layer"} => \A f \in Formats : put[u][f] = "todo"
    /\ handler[u] \in {"layer_meta", "register"} => \A f \in Formats : put[u][f] = "ok"
    /\ handler[u] = "register" => layer # Absent
    /\ handler[u] = "ok" => blobs["deploy"] # Absent
    /\ \A f \in Formats :
           /\ put[u][f] = "todo" => file[u][f] = << >>
           /\ put[u][f] = "ok" =>
                 /\ blobs[f] # Absent
                 /\ f \notin unread => file[u][f] \in {<< >>, Whole(f)}

\* Nothing has gone wrong: no call was lost or failed, and a store that has an
\* artifact has the layer, or an upload under way.
FaultFree ==
    faults = 0 =>
        /\ unread = {}
        /\ \A u \in Uploads : conn[u] = "open" /\ handler[u] # "err" /\ \A f \in Formats : put[u][f] # "err"
        /\ (\E f \in Formats : blobs[f] # Absent) =>
               index \/ \E u \in Uploads : handler[u] \in {"put", "layer_meta", "register"}

\* A step of the upload u.
Act(u) == Begin(u) \/ Sender(u) \/ Cut(u) \/ Demux(u) \/ Handler(u)

-----------------------------------------------------------------------------
(* Typing.                                                                 *)

ClientTypes ==
    /\ sending \in [Uploads -> {"idle", "closed"} \cup Formats]
    /\ sent \in [Uploads -> Nat]
    /\ unread \subseteq Formats

WireTypes ==
    /\ wire \in [Uploads -> Seq((Formats \cup {"meta"}) \X Nat)]
    /\ conn \in [Uploads -> {"open", "lost"}]
    /\ \A u \in Uploads : Len(wire[u]) <= WireCap

HandlerTypes ==
    /\ handler \in [Uploads -> Handlers]
    /\ demux \in [Uploads -> {"idle", "recv", "ended"}]
    /\ put \in [Uploads -> [Formats -> {"todo", "copying", "ok", "err"}]]

ChanTypes ==
    /\ chan \in [Uploads -> [Formats -> Seq(Formats \X Nat)]]
    /\ \A u \in Uploads, f \in Formats : Len(chan[u][f]) <= ChanCap
    /\ file \in [Uploads -> [Formats -> Seq(Formats \X Nat)]]

StoreTypes ==
    /\ blobs \in [Formats -> Seq(Formats \X Nat) \cup {Absent}]
    /\ layer \in [Formats -> Seq(Formats \X Nat)] \cup {Absent}
    /\ faults \in 0 .. MaxFaults
    /\ index \in BOOLEAN

\* The client's variables.
LEMMA ClientTyped ==
  ASSUME ClientTypes, NEW u \in Uploads, Act(u)
  PROVE  ClientTypes'
<1> USE PublishStreamAssumption DEF ClientTypes, Formats, client, server, store
<1>1. CASE Begin(u)
  BY <1>1 DEF Begin
<1>2. CASE SendChunk(u)
  BY <1>2 DEF SendChunk
<1>3. CASE EndArtifact(u)
  BY <1>3 DEF EndArtifact, Fault
<1>4. CASE SendFails(u)
  BY <1>4 DEF SendFails
<1>5. CASE Cut(u)
  BY <1>5 DEF Cut, Fault, Over, Drop
<1>6. CASE Forward(u)
  BY <1>6 DEF Forward, Over
<1>7. CASE DemuxEnd(u)
  BY <1>7 DEF DemuxEnd, Over
<1>8. CASE TakeMeta(u)
  BY <1>8 DEF TakeMeta, At, Goto
<1>9. CASE HasLayer(u)
  BY <1>9 DEF HasLayer, At, Goto, Return, Continue, Drop
<1>10. ASSUME NEW f \in Formats, CheckBlob(u, f)
      PROVE  ClientTypes'
  BY <1>10 DEF CheckBlob, At, SetPut
<1>11. ASSUME NEW f \in Formats, CopyChunk(u, f)
      PROVE  ClientTypes'
  BY <1>11 DEF CopyChunk, At
<1>12. ASSUME NEW f \in Formats, PutFails(u, f)
      PROVE  ClientTypes'
  BY <1>12 DEF PutFails, At, SetPut, Fault
<1>13. ASSUME NEW f \in Formats, Rename(u, f)
      PROVE  ClientTypes'
  BY <1>13 DEF Rename, At, SetPut
<1>14. CASE Join(u)
  BY <1>14 DEF Join, At, Goto, Return, Continue, Drop
<1>15. CASE PutLayerMeta(u)
  BY <1>15 DEF PutLayerMeta, At, Goto, Return, Continue, Drop, Fault, Finalize
<1>16. CASE RegisterInputHash(u)
  BY <1>16 DEF RegisterInputHash, At, Goto, Return, Continue, Drop, Fault
<1> QED
  BY <1>1, <1>2, <1>3, <1>4, <1>5, <1>6, <1>7, <1>8, <1>9, <1>10, <1>11, <1>12, <1>13, <1>14, <1>15, <1>16 DEF Act, Sender, Demux, Handler

\* The tasks of the server.
LEMMA HandlerTyped ==
  ASSUME HandlerTypes, NEW u \in Uploads, Act(u)
  PROVE  HandlerTypes'
<1> USE PublishStreamAssumption DEF HandlerTypes, Handlers, client, server, store
<1>1. CASE Begin(u)
  BY <1>1 DEF Begin
<1>2. CASE SendChunk(u)
  BY <1>2 DEF SendChunk
<1>3. CASE EndArtifact(u)
  BY <1>3 DEF EndArtifact, Fault
<1>4. CASE SendFails(u)
  BY <1>4 DEF SendFails
<1>5. CASE Cut(u)
  BY <1>5 DEF Cut, Fault, Over, Drop
<1>6. CASE Forward(u)
  BY <1>6 DEF Forward, Over
<1>7. CASE DemuxEnd(u)
  BY <1>7 DEF DemuxEnd, Over
<1>8. CASE TakeMeta(u)
  BY <1>8 DEF TakeMeta, At, Goto
<1>9. CASE HasLayer(u)
  BY <1>9 DEF HasLayer, At, Goto, Return, Continue, Drop
<1>10. ASSUME NEW f \in Formats, CheckBlob(u, f)
      PROVE  HandlerTypes'
  BY <1>10 DEF CheckBlob, At, SetPut
<1>11. ASSUME NEW f \in Formats, CopyChunk(u, f)
      PROVE  HandlerTypes'
  BY <1>11 DEF CopyChunk, At
<1>12. ASSUME NEW f \in Formats, PutFails(u, f)
      PROVE  HandlerTypes'
  BY <1>12 DEF PutFails, At, SetPut, Fault
<1>13. ASSUME NEW f \in Formats, Rename(u, f)
      PROVE  HandlerTypes'
  BY <1>13 DEF Rename, At, SetPut
<1>14. CASE Join(u)
  BY <1>14 DEF Join, At, Goto, Return, Continue, Drop
<1>15. CASE PutLayerMeta(u)
  BY <1>15 DEF PutLayerMeta, At, Goto, Return, Continue, Drop, Fault, Finalize
<1>16. CASE RegisterInputHash(u)
  BY <1>16 DEF RegisterInputHash, At, Goto, Return, Continue, Drop, Fault
<1> QED
  BY <1>1, <1>2, <1>3, <1>4, <1>5, <1>6, <1>7, <1>8, <1>9, <1>10, <1>11, <1>12, <1>13, <1>14, <1>15, <1>16 DEF Act, Sender, Demux, Handler

\* The wire, which holds at most WireCap messages.
LEMMA WireTyped ==
  ASSUME WireTypes, ClientTypes, NEW u \in Uploads, Framed(u), Act(u)
  PROVE  WireTypes'
<1> USE PublishStreamAssumption DEF WireTypes, client, server, store
<1>1. CASE Begin(u)
  <2>1. Meta \in (Formats \cup {"meta"}) \X Nat
    BY DEF Meta
  <2>2. <<Meta>> \in Seq((Formats \cup {"meta"}) \X Nat) /\ Len(<<Meta>>) = 1
    BY <2>1
  <2> QED
    BY <1>1, <2>2 DEF Begin
<1>2. CASE SendChunk(u)
  <2>1. Chunk(sending[u], sent[u] + 1) \in (Formats \cup {"meta"}) \X Nat
    BY <1>2 DEF SendChunk, Chunk, ClientTypes
  <2> QED
    BY <1>2, <2>1 DEF SendChunk
<1>3. CASE EndArtifact(u)
  BY <1>3 DEF EndArtifact, Fault
<1>4. CASE SendFails(u)
  BY <1>4 DEF SendFails
<1>5. CASE Cut(u)
  BY <1>5 DEF Cut, Fault, Over, Drop
<1>6. CASE Forward(u)
  <2>1. /\ Tail(wire[u]) \in Seq((Formats \cup {"meta"}) \X Nat)
        /\ Len(Tail(wire[u])) = Len(wire[u]) - 1 /\ Len(wire[u]) \in Nat
    BY <1>6 DEF Forward
  <2> QED
    BY <1>6, <2>1 DEF Forward
<1>7. CASE DemuxEnd(u)
  BY <1>7 DEF DemuxEnd, Over
<1>8. CASE TakeMeta(u)
  <2>1. wire[u] # << >>
    BY <1>8 DEF TakeMeta, Framed
  <2>2. /\ Tail(wire[u]) \in Seq((Formats \cup {"meta"}) \X Nat)
        /\ Len(Tail(wire[u])) = Len(wire[u]) - 1 /\ Len(wire[u]) \in Nat
    BY <2>1
  <2> QED
    BY <1>8, <2>2 DEF TakeMeta
<1>9. CASE HasLayer(u)
  BY <1>9 DEF HasLayer, At, Goto, Return, Continue, Drop
<1>10. ASSUME NEW f \in Formats, CheckBlob(u, f)
      PROVE  WireTypes'
  BY <1>10 DEF CheckBlob, At, SetPut
<1>11. ASSUME NEW f \in Formats, CopyChunk(u, f)
      PROVE  WireTypes'
  BY <1>11 DEF CopyChunk, At
<1>12. ASSUME NEW f \in Formats, PutFails(u, f)
      PROVE  WireTypes'
  BY <1>12 DEF PutFails, At, SetPut, Fault
<1>13. ASSUME NEW f \in Formats, Rename(u, f)
      PROVE  WireTypes'
  BY <1>13 DEF Rename, At, SetPut
<1>14. CASE Join(u)
  BY <1>14 DEF Join, At, Goto, Return, Continue, Drop
<1>15. CASE PutLayerMeta(u)
  BY <1>15 DEF PutLayerMeta, At, Goto, Return, Continue, Drop, Fault, Finalize
<1>16. CASE RegisterInputHash(u)
  BY <1>16 DEF RegisterInputHash, At, Goto, Return, Continue, Drop, Fault
<1> QED
  BY <1>1, <1>2, <1>3, <1>4, <1>5, <1>6, <1>7, <1>8, <1>9, <1>10, <1>11, <1>12, <1>13, <1>14, <1>15, <1>16 DEF Act, Sender, Demux, Handler

\* Dropping the readers empties the channels and forgets the files.
LEMMA DropTyped ==
  ASSUME ChanTypes, NEW u \in Uploads, Drop(u) \/ UNCHANGED <<chan, file>>
  PROVE  ChanTypes'
<1>1. Nothing \in [Formats -> Seq(Formats \X Nat)] /\ \A f \in Formats : Len(Nothing[f]) = 0
  BY DEF Nothing
<1>2. CASE Drop(u)
  BY <1>1, <1>2, PublishStreamAssumption DEF Drop, ChanTypes
<1>3. CASE UNCHANGED <<chan, file>>
  BY <1>3 DEF ChanTypes
<1> QED
  BY <1>2, <1>3

\* The demultiplexer puts a chunk into the channel of its artifact.
LEMMA ForwardSteps ==
  ASSUME ChanTypes, WireTypes, HandlerTypes, NEW u \in Uploads, Framed(u), Forward(u)
  PROVE  \E f \in Formats, k \in Nat :
             /\ wire[u] # << >> /\ wire[u][1] = <<f, k>>
             /\ Len(chan[u][f]) < ChanCap
             /\ chan' = [chan EXCEPT ![u] = [chan[u] EXCEPT ![f] = Append(chan[u][f], <<f, k>>)]]
             /\ wire' = [wire EXCEPT ![u] = Tail(wire[u])]
<1>1. demux[u] = "recv" /\ wire[u] # << >>
  BY DEF Forward
<1>2. wire[u] \in Seq((Formats \cup {"meta"}) \X Nat) /\ Len(wire[u]) \in Nat \ {0}
  BY <1>1 DEF WireTypes
<1>3. wire[u][1] \in (Formats \cup {"meta"}) \X Nat /\ Head(wire[u]) = wire[u][1]
  BY <1>1, <1>2
<1>4. wire[u][1][1] \in Formats
  BY <1>1, <1>2 DEF Framed
<1> DEFINE f == wire[u][1][1]
           k == wire[u][1][2]
<1>5. wire[u][1] = <<f, k>> /\ f \in Formats /\ k \in Nat
  BY <1>3, <1>4
<1>6. /\ Len(chan[u][f]) < ChanCap
      /\ chan' = [chan EXCEPT ![u][f] = Append(@, wire[u][1])]
      /\ wire' = [wire EXCEPT ![u] = Tail(wire[u])]
  BY <1>3 DEF Forward, WireTypes
<1>7. chan' = [chan EXCEPT ![u] = [chan[u] EXCEPT ![f] = Append(chan[u][f], wire[u][1])]]
  BY <1>6, <1>5 DEF ChanTypes
<1> HIDE DEF f, k
<1> QED
  BY <1>1, <1>5, <1>6, <1>7

\* put_blob moves a chunk from the channel to the file.
LEMMA CopySteps ==
  ASSUME ChanTypes, NEW u \in Uploads, NEW f \in Formats, CopyChunk(u, f)
  PROVE  /\ chan[u][f] # << >>
         /\ chan' = [chan EXCEPT ![u] = [chan[u] EXCEPT ![f] = Tail(chan[u][f])]]
         /\ file' = [file EXCEPT ![u] = [file[u] EXCEPT ![f] = Append(file[u][f], chan[u][f][1])]]
         /\ chan[u][f][1] \in Formats \X Nat
<1>1. /\ chan[u][f] # << >>
      /\ chan' = [chan EXCEPT ![u][f] = Tail(@)]
      /\ file' = [file EXCEPT ![u][f] = Append(@, Head(chan[u][f]))]
  BY DEF CopyChunk
<1>2. chan[u][f] \in Seq(Formats \X Nat) /\ Head(chan[u][f]) = chan[u][f][1]
  BY <1>1 DEF ChanTypes
<1>3. chan[u][f][1] \in Formats \X Nat
  BY <1>1, <1>2
<1>4. chan' = [chan EXCEPT ![u] = [chan[u] EXCEPT ![f] = Tail(chan[u][f])]]
  BY <1>1 DEF ChanTypes
<1>5. file' = [file EXCEPT ![u] = [file[u] EXCEPT ![f] = Append(file[u][f], chan[u][f][1])]]
  BY <1>1, <1>2 DEF ChanTypes
<1> QED
  BY <1>1, <1>3, <1>4, <1>5

\* The channels, which hold at most ChanCap chunks, and the temporary files.
LEMMA ChanTyped ==
  ASSUME ChanTypes, WireTypes, HandlerTypes, NEW u \in Uploads, Framed(u), Act(u)
  PROVE  ChanTypes'
<1> USE PublishStreamAssumption DEF client, server, store
<1>1. CASE Begin(u)
  BY <1>1, DropTyped DEF Begin
<1>2. CASE SendChunk(u)
  BY <1>2, DropTyped DEF SendChunk
<1>3. CASE EndArtifact(u)
  BY <1>3, DropTyped DEF EndArtifact
<1>4. CASE SendFails(u)
  BY <1>4, DropTyped DEF SendFails
<1>5. CASE Cut(u)
  BY <1>5, DropTyped DEF Cut
<1>6. CASE Forward(u)
  <2>1. PICK f \in Formats, k \in Nat :
             /\ Len(chan[u][f]) < ChanCap
             /\ chan' = [chan EXCEPT ![u] = [chan[u] EXCEPT ![f] = Append(chan[u][f], <<f, k>>)]]
    BY <1>6, ForwardSteps
  <2>2. chan[u][f] \in Seq(Formats \X Nat) /\ <<f, k>> \in Formats \X Nat
    BY DEF ChanTypes
  <2>3. /\ Append(chan[u][f], <<f, k>>) \in Seq(Formats \X Nat)
        /\ Len(Append(chan[u][f], <<f, k>>)) <= ChanCap
    BY <2>1, <2>2
  <2>4. file' = file
    BY <1>6 DEF Forward
  <2> QED
    BY <2>1, <2>3, <2>4 DEF ChanTypes
<1>7. CASE DemuxEnd(u)
  BY <1>7, DropTyped DEF DemuxEnd
<1>8. CASE TakeMeta(u)
  BY <1>8, DropTyped DEF TakeMeta
<1>9. CASE HasLayer(u)
  BY <1>9, DropTyped DEF HasLayer, Return, Continue
<1>10. ASSUME NEW f \in Formats, CheckBlob(u, f)
      PROVE  ChanTypes'
  BY <1>10, DropTyped DEF CheckBlob
<1>11. ASSUME NEW f \in Formats, CopyChunk(u, f)
      PROVE  ChanTypes'
  <2>0. chan[u][f] # << >> /\ chan[u][f][1] \in Formats \X Nat
    BY <1>11, CopySteps
  <2>1. chan[u][f] \in Seq(Formats \X Nat) /\ file[u][f] \in Seq(Formats \X Nat)
    BY DEF ChanTypes
  <2>2. /\ Tail(chan[u][f]) \in Seq(Formats \X Nat)
        /\ Len(Tail(chan[u][f])) = Len(chan[u][f]) - 1 /\ Len(chan[u][f]) \in Nat
        /\ Append(file[u][f], chan[u][f][1]) \in Seq(Formats \X Nat)
    BY <2>0, <2>1
  <2>3. Len(Tail(chan[u][f])) <= ChanCap
    BY <2>2 DEF ChanTypes
  <2>4. /\ chan' = [chan EXCEPT ![u] = [chan[u] EXCEPT ![f] = Tail(chan[u][f])]]
        /\ file' = [file EXCEPT ![u] = [file[u] EXCEPT ![f] = Append(file[u][f], chan[u][f][1])]]
    BY <1>11, CopySteps
  <2> QED
    BY <2>2, <2>3, <2>4 DEF ChanTypes
<1>12. ASSUME NEW f \in Formats, PutFails(u, f)
      PROVE  ChanTypes'
  BY <1>12, DropTyped DEF PutFails
<1>13. ASSUME NEW f \in Formats, Rename(u, f)
      PROVE  ChanTypes'
  BY <1>13, DropTyped DEF Rename
<1>14. CASE Join(u)
  BY <1>14, DropTyped DEF Join, Return, Continue
<1>15. CASE PutLayerMeta(u)
  BY <1>15, DropTyped DEF PutLayerMeta, Return, Continue
<1>16. CASE RegisterInputHash(u)
  BY <1>16, DropTyped DEF RegisterInputHash, Return, Continue
<1> QED
  BY <1>1, <1>2, <1>3, <1>4, <1>5, <1>6, <1>7, <1>8, <1>9, <1>10, <1>11, <1>12, <1>13, <1>14, <1>15, <1>16 DEF Act, Sender, Demux, Handler

\* The store.
LEMMA StoreTyped ==
  ASSUME StoreTypes, ChanTypes, NEW u \in Uploads, Act(u)
  PROVE  StoreTypes'
<1> USE PublishStreamAssumption DEF StoreTypes, client, server, store
<1>1. CASE Begin(u)
  BY <1>1 DEF Begin
<1>2. CASE SendChunk(u)
  BY <1>2 DEF SendChunk
<1>3. CASE EndArtifact(u)
  BY <1>3 DEF EndArtifact, Fault
<1>4. CASE SendFails(u)
  BY <1>4 DEF SendFails
<1>5. CASE Cut(u)
  BY <1>5 DEF Cut, Fault, Over, Drop
<1>6. CASE Forward(u)
  BY <1>6 DEF Forward, Over
<1>7. CASE DemuxEnd(u)
  BY <1>7 DEF DemuxEnd, Over
<1>8. CASE TakeMeta(u)
  BY <1>8 DEF TakeMeta, At, Goto
<1>9. CASE HasLayer(u)
  BY <1>9 DEF HasLayer, At, Goto, Return, Continue, Drop, Fault
<1>10. ASSUME NEW f \in Formats, CheckBlob(u, f)
      PROVE  StoreTypes'
  BY <1>10 DEF CheckBlob, At, SetPut
<1>11. ASSUME NEW f \in Formats, CopyChunk(u, f)
      PROVE  StoreTypes'
  BY <1>11 DEF CopyChunk, At
<1>12. ASSUME NEW f \in Formats, PutFails(u, f)
      PROVE  StoreTypes'
  BY <1>12 DEF PutFails, At, SetPut, Fault
<1>13. ASSUME NEW f \in Formats, Rename(u, f)
      PROVE  StoreTypes'
  BY <1>13 DEF Rename, ChanTypes
<1>14. CASE Join(u)
  BY <1>14 DEF Join, At, Goto, Return, Continue, Drop
<1>15. CASE PutLayerMeta(u)
  BY <1>15 DEF PutLayerMeta, Finalize, Fault, ChanTypes
<1>16. CASE RegisterInputHash(u)
  <2>1. UNCHANGED <<blobs, layer>> /\ (UNCHANGED faults \/ Fault("write")) /\ (index' = TRUE \/ index' = index)
    BY <1>16 DEF RegisterInputHash
  <2>2. faults' \in 0 .. MaxFaults
    BY <2>1 DEF Fault
  <2>3. index' \in BOOLEAN
    BY <2>1
  <2> QED
    BY <2>1, <2>2, <2>3
<1> QED
  BY <1>1, <1>2, <1>3, <1>4, <1>5, <1>6, <1>7, <1>8, <1>9, <1>10, <1>11, <1>12, <1>13, <1>14, <1>15, <1>16 DEF Act, Sender, Demux, Handler

-----------------------------------------------------------------------------
(* A step of one upload leaves the others alone, and the store only grows. *)

\* What belongs to an upload is changed by its own steps only.
LEMMA OthersStay ==
  ASSUME ClientTypes, WireTypes, HandlerTypes, ChanTypes,
         NEW u \in Uploads, NEW v \in Uploads \ {u}, Act(u)
  PROVE  /\ sending'[v] = sending[v] /\ sent'[v] = sent[v] /\ wire'[v] = wire[v]
         /\ conn'[v] = conn[v] /\ handler'[v] = handler[v] /\ demux'[v] = demux[v]
         /\ chan'[v] = chan[v] /\ file'[v] = file[v] /\ put'[v] = put[v]
<1> USE PublishStreamAssumption DEF ClientTypes, WireTypes, HandlerTypes, ChanTypes, client, server, store
<1>1. CASE Begin(u)
  BY <1>1 DEF Begin
<1>2. CASE SendChunk(u)
  BY <1>2 DEF SendChunk
<1>3. CASE EndArtifact(u)
  BY <1>3 DEF EndArtifact, Fault
<1>4. CASE SendFails(u)
  BY <1>4 DEF SendFails
<1>5. CASE Cut(u)
  BY <1>5 DEF Cut, Fault, Over, Drop
<1>6. CASE Forward(u)
  BY <1>6 DEF Forward, Over
<1>7. CASE DemuxEnd(u)
  BY <1>7 DEF DemuxEnd, Over
<1>8. CASE TakeMeta(u)
  BY <1>8 DEF TakeMeta, At, Goto
<1>9. CASE HasLayer(u)
  BY <1>9 DEF HasLayer, At, Goto, Return, Continue, Drop
<1>10. ASSUME NEW f \in Formats, CheckBlob(u, f)
      PROVE  /\ sending'[v] = sending[v] /\ sent'[v] = sent[v] /\ wire'[v] = wire[v]
             /\ conn'[v] = conn[v] /\ handler'[v] = handler[v] /\ demux'[v] = demux[v]
             /\ chan'[v] = chan[v] /\ file'[v] = file[v] /\ put'[v] = put[v]
  BY <1>10 DEF CheckBlob, At, SetPut
<1>11. ASSUME NEW f \in Formats, CopyChunk(u, f)
      PROVE  /\ sending'[v] = sending[v] /\ sent'[v] = sent[v] /\ wire'[v] = wire[v]
             /\ conn'[v] = conn[v] /\ handler'[v] = handler[v] /\ demux'[v] = demux[v]
             /\ chan'[v] = chan[v] /\ file'[v] = file[v] /\ put'[v] = put[v]
  BY <1>11 DEF CopyChunk, At
<1>12. ASSUME NEW f \in Formats, PutFails(u, f)
      PROVE  /\ sending'[v] = sending[v] /\ sent'[v] = sent[v] /\ wire'[v] = wire[v]
             /\ conn'[v] = conn[v] /\ handler'[v] = handler[v] /\ demux'[v] = demux[v]
             /\ chan'[v] = chan[v] /\ file'[v] = file[v] /\ put'[v] = put[v]
  BY <1>12 DEF PutFails, At, SetPut, Fault
<1>13. ASSUME NEW f \in Formats, Rename(u, f)
      PROVE  /\ sending'[v] = sending[v] /\ sent'[v] = sent[v] /\ wire'[v] = wire[v]
             /\ conn'[v] = conn[v] /\ handler'[v] = handler[v] /\ demux'[v] = demux[v]
             /\ chan'[v] = chan[v] /\ file'[v] = file[v] /\ put'[v] = put[v]
  BY <1>13 DEF Rename, At, SetPut
<1>14. CASE Join(u)
  BY <1>14 DEF Join, At, Goto, Return, Continue, Drop
<1>15. CASE PutLayerMeta(u)
  BY <1>15 DEF PutLayerMeta, At, Goto, Return, Continue, Drop, Fault, Finalize
<1>16. CASE RegisterInputHash(u)
  BY <1>16 DEF RegisterInputHash, At, Goto, Return, Continue, Drop, Fault
<1> QED
  BY <1>1, <1>2, <1>3, <1>4, <1>5, <1>6, <1>7, <1>8, <1>9, <1>10, <1>11, <1>12, <1>13, <1>14, <1>15, <1>16 DEF Act, Sender, Demux, Handler

\* Neither an artifact nor the metadata ever goes away, and what could not be read stays so.
LEMMA StoreGrows ==
  ASSUME StoreTypes, ChanTypes, NEW u \in Uploads, Act(u)
  PROVE  /\ unread \subseteq unread'
         /\ \A f \in Formats : blobs[f] # Absent => blobs'[f] # Absent
         /\ layer # Absent => layer' # Absent
<1> USE PublishStreamAssumption DEF StoreTypes, ChanTypes, client, server, store
<1>1. CASE Begin(u)
  BY <1>1 DEF Begin
<1>2. CASE SendChunk(u)
  BY <1>2 DEF SendChunk
<1>3. CASE EndArtifact(u)
  BY <1>3 DEF EndArtifact, Fault
<1>4. CASE SendFails(u)
  BY <1>4 DEF SendFails
<1>5. CASE Cut(u)
  BY <1>5 DEF Cut, Fault, Over, Drop
<1>6. CASE Forward(u)
  BY <1>6 DEF Forward, Over
<1>7. CASE DemuxEnd(u)
  BY <1>7 DEF DemuxEnd, Over
<1>8. CASE TakeMeta(u)
  BY <1>8 DEF TakeMeta, At, Goto
<1>9. CASE HasLayer(u)
  BY <1>9 DEF HasLayer, At, Goto, Return, Continue, Drop
<1>10. ASSUME NEW f \in Formats, CheckBlob(u, f)
      PROVE  /\ unread \subseteq unread'
             /\ \A g \in Formats : blobs[g] # Absent => blobs'[g] # Absent
             /\ layer # Absent => layer' # Absent
  BY <1>10 DEF CheckBlob, At, SetPut
<1>11. ASSUME NEW f \in Formats, CopyChunk(u, f)
      PROVE  /\ unread \subseteq unread'
             /\ \A g \in Formats : blobs[g] # Absent => blobs'[g] # Absent
             /\ layer # Absent => layer' # Absent
  BY <1>11 DEF CopyChunk, At
<1>12. ASSUME NEW f \in Formats, PutFails(u, f)
      PROVE  /\ unread \subseteq unread'
             /\ \A g \in Formats : blobs[g] # Absent => blobs'[g] # Absent
             /\ layer # Absent => layer' # Absent
  BY <1>12 DEF PutFails, At, SetPut, Fault
<1>13. ASSUME NEW f \in Formats, Rename(u, f)
      PROVE  /\ unread \subseteq unread'
             /\ \A g \in Formats : blobs[g] # Absent => blobs'[g] # Absent
             /\ layer # Absent => layer' # Absent
  BY <1>13 DEF Rename, At, SetPut
<1>14. CASE Join(u)
  BY <1>14 DEF Join, At, Goto, Return, Continue, Drop
<1>15. CASE PutLayerMeta(u)
  BY <1>15 DEF PutLayerMeta, At, Goto, Return, Continue, Drop, Fault, Finalize
<1>16. CASE RegisterInputHash(u)
  BY <1>16 DEF RegisterInputHash, At, Goto, Return, Continue, Drop, Fault
<1> QED
  BY <1>1, <1>2, <1>3, <1>4, <1>5, <1>6, <1>7, <1>8, <1>9, <1>10, <1>11, <1>12, <1>13, <1>14, <1>15, <1>16 DEF Act, Sender, Demux, Handler

\* So the invariants of the others survive.
LEMMA StreamOther ==
  ASSUME ClientTypes, WireTypes, HandlerTypes, ChanTypes, StoreTypes,
         NEW u \in Uploads, NEW v \in Uploads \ {u}, Act(u), StreamInv(v)
  PROVE  StreamInv(v)'
<1>1. /\ sending'[v] = sending[v] /\ sent'[v] = sent[v] /\ wire'[v] = wire[v]
      /\ conn'[v] = conn[v] /\ handler'[v] = handler[v] /\ demux'[v] = demux[v]
      /\ chan'[v] = chan[v] /\ file'[v] = file[v] /\ put'[v] = put[v]
  BY OthersStay
<1>2. unread \subseteq unread'
  BY StoreGrows
<1>3. \A f \in Formats : Received(v, f)' = Received(v, f) /\ (Finished(v, f)' <=> Finished(v, f))
  BY <1>1 DEF Received, Finished
<1>4. Framed(v)' /\ \A f \in Formats : Prefix(v, f)'
  BY <1>1 DEF StreamInv, Framed, Prefix, At
<1>5. Over(v)' <=> Over(v)
  BY <1>1 DEF Over
<1>6. InOrder(v) => InOrder(v)'
  BY <1>1 DEF InOrder, Received
<1>7. Complete(v) => Complete(v)'
  BY <1>1, <1>2, <1>3 DEF Complete
<1> QED
  BY <1>4, <1>5, <1>6, <1>7 DEF StreamInv

\* The handler of another upload: the store only grows under it.
LEMMA HandlerOther ==
  ASSUME ClientTypes, WireTypes, HandlerTypes, ChanTypes, StoreTypes,
         NEW u \in Uploads, NEW v \in Uploads \ {u}, Act(u), HandlerInv(v)
  PROVE  HandlerInv(v)'
<1>1. /\ sending'[v] = sending[v] /\ sent'[v] = sent[v] /\ wire'[v] = wire[v]
      /\ conn'[v] = conn[v] /\ handler'[v] = handler[v] /\ demux'[v] = demux[v]
      /\ chan'[v] = chan[v] /\ file'[v] = file[v] /\ put'[v] = put[v]
  BY OthersStay
<1>2. /\ unread \subseteq unread'
      /\ \A f \in Formats : blobs[f] # Absent => blobs'[f] # Absent
      /\ layer # Absent => layer' # Absent
  BY StoreGrows
<1> QED
  BY <1>1, <1>2 DEF HandlerInv, Formats

-----------------------------------------------------------------------------
(* The stream, step by step.                                               *)

\* Append, Tail and the messages of the wire.
LEMMA AppendFacts ==
  ASSUME NEW S, NEW q \in Seq(S), NEW e \in S
  PROVE  /\ Append(q, e) \in Seq(S) /\ Len(Append(q, e)) = Len(q) + 1 /\ Len(q) \in Nat
         /\ \A k \in 1 .. Len(q) : Append(q, e)[k] = q[k]
         /\ Append(q, e)[Len(q) + 1] = e
         /\ Append(q, e) # << >>
OBVIOUS

\* The same for taking the first element.
LEMMA TailFacts ==
  ASSUME NEW S, NEW q \in Seq(S), q # << >>
  PROVE  /\ Tail(q) \in Seq(S) /\ Len(q) \in Nat \ {0} /\ Len(Tail(q)) = Len(q) - 1
         /\ \A k \in 1 .. Len(q) - 1 : Tail(q)[k] = q[k + 1]
         /\ Tail(q) = << >> <=> Len(q) = 1
<1>1. /\ Tail(q) \in Seq(S) /\ Len(q) \in Nat \ {0} /\ Len(Tail(q)) = Len(q) - 1
      /\ \A k \in 1 .. Len(q) - 1 : Tail(q)[k] = q[k + 1]
  OBVIOUS
<1>2. Tail(q) = << >> <=> Len(Tail(q)) = 0
  BY <1>1
<1> QED
  BY <1>1, <1>2

\* What the server has of an artifact is a number of chunks.
LEMMA ReceivedIsNat ==
  ASSUME ChanTypes, NEW u \in Uploads, NEW f \in Formats
  PROVE  Received(u, f) \in Nat /\ Len(file[u][f]) \in Nat /\ Len(chan[u][f]) \in Nat
<1> DEFINE a == Len(file[u][f])
           b == Len(chan[u][f])
<1>1. a \in Nat /\ b \in Nat
  BY DEF ChanTypes
<1> HIDE DEF a, b
<1>2. a + b \in Nat
  BY <1>1
<1> QED
  BY <1>1, <1>2 DEF Received, a, b

\* The two artifacts; the metadata is neither.
LEMMA FormatsAre == /\ Formats = {"deploy", "cache"} /\ "meta" \notin Formats
BY DEF Formats

\* tx_task.send: the chunk follows what is on the wire, or what the server has.
LEMMA StreamSend ==
  ASSUME ClientTypes, WireTypes, HandlerTypes, ChanTypes, NEW u \in Uploads,
         SendChunk(u), StreamInv(u), HandlerInv(u)
  PROVE  StreamInv(u)'
<1> DEFINE f == sending[u]
           n == sent[u]
           w == wire[u]
           c == Chunk(f, n + 1)
<1>1. /\ f \in Formats /\ n \in Nat /\ n + 1 \in 1 .. Chunks[f] /\ demux[u] # "ended"
      /\ wire'[u] = Append(w, c) /\ sent'[u] = n + 1
  BY PublishStreamAssumption DEF SendChunk, ClientTypes, WireTypes
<1>2. UNCHANGED <<sending, unread, conn, handler, demux, chan, file, put>>
  BY DEF SendChunk, server
<1>3. c \in (Formats \cup {"meta"}) \X Nat /\ w \in Seq((Formats \cup {"meta"}) \X Nat) /\ c[1] = f /\ c[2] = n + 1
  BY <1>1 DEF Chunk, WireTypes
<1> DEFINE x == wire'[u]
<1>4. /\ Len(x) = Len(w) + 1 /\ Len(w) \in Nat /\ \A k \in 1 .. Len(w) : x[k] = w[k]
      /\ x[Len(w) + 1] = c /\ x # << >>
  <2>1. w \in Seq((Formats \cup {"meta"}) \X Nat) /\ c \in (Formats \cup {"meta"}) \X Nat
    BY <1>3
  <2> HIDE DEF w, c
  <2>2. /\ Len(Append(w, c)) = Len(w) + 1 /\ Len(w) \in Nat
        /\ \A k \in 1 .. Len(w) : Append(w, c)[k] = w[k]
        /\ Append(w, c)[Len(w) + 1] = c /\ Append(w, c) # << >>
    BY <2>1, AppendFacts
  <2> QED
    BY <1>1, <2>2
<1>5. \A k \in 1 .. Len(x) : k = Len(w) + 1 \/ k \in 1 .. Len(w)
  BY <1>4
<1>6. \A g \in Formats : Prefix(u, g)' /\ Received(u, g)' = Received(u, g)
  BY <1>2 DEF StreamInv, Prefix, Received
<1> HIDE DEF f, n, w, c, x
<1>7. Framed(u)'
  <2> USE DEF Framed, StreamInv
  <2>1. \A k \in 1 .. Len(x) : x[k][1] \in Formats => x[k][2] \in 1 .. Chunks[x[k][1]]
    BY <1>1, <1>3, <1>4, <1>5 DEF w
  <2>2. demux[u] # "idle" => \A k \in 1 .. Len(x) : x[k][1] \in Formats
    BY <1>1, <1>3, <1>4, <1>5 DEF w
  <2>3. At(u, "first") => x[1] = Meta /\ \A k \in 2 .. Len(x) : x[k][1] \in Formats
    <3>1. SUFFICES ASSUME At(u, "first")
                   PROVE  x[1] = Meta /\ \A k \in 2 .. Len(x) : x[k][1] \in Formats
      OBVIOUS
    <3>2. Len(w) >= 1
      BY <1>3, <3>1 DEF w
    <3>3. \A k \in 2 .. Len(x) : k = Len(w) + 1 \/ k \in 2 .. Len(w)
      BY <1>4
    <3> QED
      BY <1>1, <1>3, <1>4, <3>1, <3>2, <3>3 DEF w
  <2> QED
    BY <1>2, <1>4, <2>1, <2>2, <2>3 DEF x, At
<1>8. ASSUME ~Over(u)' PROVE InOrder(u)'
  <2>0. InOrder(u)
    BY <1>2, <1>8 DEF Over, StreamInv
  <2>1. ASSUME w # << >> PROVE Follows(w[Len(w)], c)
    <3>1. CASE n > 0
      BY <1>1, <1>3, <2>0, <2>1, <3>1 DEF InOrder, Follows, Chunk, w, f, n, c
    <3>2. CASE n = 0 /\ f = "deploy"
      <4>1. w = <<Meta>>
        BY <2>0, <2>1, <3>2 DEF InOrder, w, f, n
      <4> QED
        BY <3>2, <4>1 DEF Follows, Chunk, c
    <3>3. CASE n = 0 /\ f = "cache"
      <4>1. w[Len(w)][1] \in {"deploy", "meta"}
        <5>1. Len(w) \in 1 .. Len(w)
          BY <1>3, <2>1
        <5>2. w[Len(w)] \in (Formats \cup {"meta"}) \X Nat
          BY <1>3, <5>1
        <5>3. w[Len(w)][1] # "cache"
          BY <2>0, <3>3, <5>1 DEF InOrder, w, f, n
        <5> QED
          BY <5>2, <5>3, FormatsAre
      <4> QED
        BY <3>3, <4>1 DEF Follows, Chunk, c
    <3> QED
      BY <1>1, <3>1, <3>2, <3>3, FormatsAre
  <2>2. \A k \in 1 .. Len(x) - 1 : Follows(x[k], x[k + 1])
    <3>1. ASSUME NEW k \in 1 .. Len(x) - 1 PROVE Follows(x[k], x[k + 1])
      <4>1. CASE k = Len(w)
        <5>1. w # << >>
          BY <1>3, <1>4, <4>1
        <5> QED
          BY <1>4, <2>1, <4>1, <5>1
      <4>2. CASE k # Len(w)
        <5>1. k \in 1 .. Len(w) - 1 /\ k + 1 \in 1 .. Len(w)
          BY <1>4, <4>2
        <5>2. Follows(w[k], w[k + 1])
          BY <2>0, <5>1 DEF InOrder, w
        <5> QED
          BY <1>4, <5>1, <5>2
      <4> QED
        BY <4>1, <4>2
    <3> QED
      BY <3>1
  <2>3. ASSUME demux[u] = "recv"
        PROVE  /\ x[1][2] = Received(u, x[1][1]) + 1
               /\ x[1][1] = "deploy" => Received(u, "cache") = 0
    <3>1. CASE w # << >>
      <4>1. 1 \in 1 .. Len(w)
        BY <1>3, <3>1
      <4> QED
        BY <1>4, <2>0, <2>3, <3>1, <4>1 DEF InOrder, w
    <3>2. CASE w = << >>
      <4>1. x[1] = c
        BY <1>4, <3>2
      <4>2. Received(u, f) = n
        BY <1>1, <2>0, <3>2, FormatsAre DEF InOrder, w, f, n
      <4> QED
        BY <1>3, <2>0, <4>1, <4>2 DEF InOrder, w, f, n
    <3> QED
      BY <3>1, <3>2
  <2>4. f = "deploy" => /\ Received(u, "cache") = 0
                        /\ \A k \in 1 .. Len(x) : x[k][1] # "cache"
    BY <1>3, <1>4, <1>5, <2>0 DEF InOrder, w, f
  <2>5. x[Len(x)] = Chunk(f, n + 1)
    BY <1>4 DEF c
  <2>6. \A g : Received(u, g)' = Received(u, g)
    BY <1>2 DEF Received
  <2>7. Received(u, wire[u][1][1])' = Received(u, x[1][1])
    BY <1>2 DEF Received, x
  <2>8. sent'[u] # 0 /\ sent'[u] = n + 1 /\ sending'[u] = f /\ demux'[u] = demux[u]
    BY <1>1, <1>2 DEF f
  <2>9. x[Len(x)] = Chunk(sending'[u], sent'[u])
    BY <2>5, <2>8
  <2> QED
    BY <1>4, <2>2, <2>3, <2>4, <2>6, <2>7, <2>8, <2>9 DEF InOrder, x
<1>9. ASSUME ~Over(u)' PROVE Complete(u)'
  <2>0. Complete(u)
    BY <1>2, <1>9 DEF Over, StreamInv
  <2>1. \A g \in Formats : Finished(u, g)' <=> Finished(u, g)
    BY <1>2 DEF Finished
  <2>2. \A g \in Formats \ unread : Finished(u, g) =>
           \/ Received(u, g) = Chunks[g]
           \/ \E k \in 1 .. Len(x) : x[k] = Chunk(g, Chunks[g])
    BY <1>4, <2>0 DEF Complete, w
  <2> QED
    BY <1>1, <1>2, <1>6, <2>1, <2>2 DEF Complete, x
<1> QED
  BY <1>6, <1>7, <1>8, <1>9 DEF StreamInv

\* stream.message(): the next chunk goes to the channel of its artifact, where
\* it continues what is there.
LEMMA StreamForward ==
  ASSUME ClientTypes, WireTypes, HandlerTypes, ChanTypes, NEW u \in Uploads,
         Forward(u), StreamInv(u), HandlerInv(u)
  PROVE  StreamInv(u)'
<1>0. Framed(u) /\ ~Over(u) /\ InOrder(u) /\ Complete(u) /\ \A g \in Formats : Prefix(u, g)
  BY DEF StreamInv, Forward
<1>1. PICK f \in Formats, n \in Nat :
             /\ wire[u] # << >> /\ wire[u][1] = <<f, n>>
             /\ chan' = [chan EXCEPT ![u] = [chan[u] EXCEPT ![f] = Append(chan[u][f], <<f, n>>)]]
             /\ wire' = [wire EXCEPT ![u] = Tail(wire[u])]
  BY <1>0, ForwardSteps
<1>2. UNCHANGED <<sending, sent, unread, conn, handler, demux, file, put>> /\ demux[u] = "recv"
  BY DEF Forward, client
<1> DEFINE w == wire[u]
           q == chan[u][f]
           m == Len(file[u][f])
           l == Len(q)
<1>3. w \in Seq((Formats \cup {"meta"}) \X Nat) /\ q \in Seq(Formats \X Nat) /\ w # << >>
      /\ <<f, n>> \in Formats \X Nat
  BY <1>1 DEF WireTypes, ChanTypes
<1>4. wire'[u] = Tail(w) /\ chan'[u][f] = Append(q, <<f, n>>)
      /\ \A g \in Formats \ {f} : chan'[u][g] = chan[u][g]
  BY <1>1 DEF WireTypes, ChanTypes
<1> HIDE DEF w, q
<1>5. /\ Len(wire'[u]) = Len(w) - 1 /\ Len(w) \in Nat \ {0}
      /\ \A k \in 1 .. Len(w) - 1 : wire'[u][k] = w[k + 1]
      /\ wire'[u] = << >> <=> Len(w) = 1
  BY <1>3, <1>4, TailFacts
<1>6. /\ Len(chan'[u][f]) = Len(q) + 1 /\ Len(q) \in Nat
      /\ \A k \in 1 .. Len(q) : chan'[u][f][k] = q[k]
      /\ chan'[u][f][Len(q) + 1] = <<f, n>>
  BY <1>3, <1>4, AppendFacts
<1>7. m \in Nat /\ l \in Nat
  BY <1>6, ReceivedIsNat
<1> HIDE DEF m, l
<1>8. /\ Received(u, f)' = Received(u, f) + 1
      /\ \A g \in Formats \ {f} : Received(u, g)' = Received(u, g)
      /\ \A g \in Formats : Received(u, g) \in Nat
  <2>1. Received(u, f) = m + l /\ Received(u, f)' = m + Len(chan'[u][f])
    BY <1>2 DEF Received, q, m, l
  <2>2. Len(chan'[u][f]) = l + 1
    BY <1>6 DEF l
  <2>5. m + (l + 1) = (m + l) + 1
    BY <1>7
  <2>6. Received(u, f)' = Received(u, f) + 1
    BY <2>1, <2>2, <2>5
  <2>3. ASSUME NEW g \in Formats \ {f} PROVE Received(u, g)' = Received(u, g)
    BY <1>2, <1>4, <2>3 DEF Received
  <2>4. ASSUME NEW g \in Formats PROVE Received(u, g) \in Nat
    BY ReceivedIsNat
  <2> QED
    BY <2>6, <2>3, <2>4
<1>9. n = Received(u, f) + 1 /\ n \in 1 .. Chunks[f] /\ (f = "deploy" => Received(u, "cache") = 0)
  <2>1. wire[u][1][1] = f /\ wire[u][1][2] = n /\ 1 \in 1 .. Len(wire[u])
    BY <1>1, <1>3 DEF w
  <2> QED
    BY <1>0, <1>1, <1>2, <2>1 DEF InOrder, Framed
<1>10. \A g \in Formats : Prefix(u, g)'
  <2>1. Prefix(u, f)'
    <3>1. \A k \in 1 .. Len(chan'[u][f]) : k \in 1 .. Len(q) \/ k = Len(q) + 1
      BY <1>6
    <3>2. n = Len(file[u][f]) + (Len(q) + 1)
      <4>1. n = (m + l) + 1
        BY <1>9 DEF Received, q, m, l
      <4>2. n = m + (l + 1)
        BY <1>7, <4>1
      <4> QED
        BY <4>2 DEF m, l
    <3>3. \A k \in 1 .. Len(q) : q[k] = Chunk(f, Len(file[u][f]) + k)
      BY <1>0 DEF Prefix, q
    <3> QED
      BY <1>0, <1>2, <1>6, <3>1, <3>2, <3>3 DEF Prefix, Chunk
  <2>2. ASSUME NEW g \in Formats \ {f} PROVE Prefix(u, g)'
    BY <1>0, <1>2, <1>4 DEF Prefix
  <2> QED
    BY <2>1, <2>2
<1>11. Framed(u)'
  <2>1. \A k \in 1 .. Len(wire'[u]) : k + 1 \in 1 .. Len(w) /\ wire'[u][k] = w[k + 1]
    BY <1>5
  <2>2. handler[u] \notin {"idle", "first"}
    BY <1>2 DEF HandlerInv
  <2> QED
    BY <1>0, <1>2, <2>1, <2>2 DEF Framed, At, w
<1>12. InOrder(u)'
  <2>1. \A k \in 1 .. Len(wire'[u]) - 1 : Follows(wire'[u][k], wire'[u][k + 1])
    <3>1. ASSUME NEW k \in 1 .. Len(wire'[u]) - 1 PROVE Follows(wire'[u][k], wire'[u][k + 1])
      <4>1. k + 1 \in 1 .. Len(w) - 1 /\ k \in 1 .. Len(w) - 1
        BY <1>5
      <4>2. wire'[u][k] = w[k + 1] /\ wire'[u][k + 1] = w[(k + 1) + 1]
        BY <1>5, <4>1
      <4> QED
        BY <1>0, <4>1, <4>2 DEF InOrder, w
    <3> QED
      BY <3>1
  <2>2. ASSUME wire'[u] # << >>
        PROVE  /\ wire'[u][1][2] = Received(u, wire[u][1][1])' + 1
               /\ wire'[u][1][1] = "deploy" => Received(u, "cache")' = 0
    <3>1. 1 \in 1 .. Len(w) - 1 /\ wire'[u][1] = w[1 + 1]
      BY <1>5, <2>2
    <3>2. Follows(w[1], wire'[u][1]) /\ w[1] = <<f, n>>
      BY <1>0, <1>1, <3>1 DEF InOrder, w
    <3>3. \/ wire'[u][1] = <<f, n + 1>>
          \/ f = "deploy" /\ wire'[u][1] = <<"cache", 1>>
      BY <3>2, FormatsAre DEF Follows, Chunk, Meta
    <3>4. CASE wire'[u][1] = <<f, n + 1>>
      <4>1. wire'[u][1][1] = f /\ wire'[u][1][2] = n + 1
        BY <3>4
      <4>2. Received(u, wire[u][1][1])' = Received(u, f)'
        BY <4>1 DEF Received
      <4>3. f = "deploy" => Received(u, "cache")' = 0
        BY <1>8, <1>9, FormatsAre
      <4> QED
        BY <1>8, <1>9, <4>1, <4>2, <4>3
    <3>5. CASE f = "deploy" /\ wire'[u][1] = <<"cache", 1>>
      <4>1. wire'[u][1][1] = "cache" /\ wire'[u][1][2] = 1
        BY <3>5
      <4>2. Received(u, wire[u][1][1])' = Received(u, "cache")'
        BY <4>1 DEF Received
      <4>3. Received(u, "cache")' = 0
        BY <1>8, <1>9, <3>5, FormatsAre
      <4> QED
        BY <4>1, <4>2, <4>3
    <3> QED
      BY <3>3, <3>4, <3>5
  <2>3. ASSUME sending[u] = "deploy" \/ (sending[u] = "cache" /\ sent[u] = 0)
        PROVE  /\ Received(u, "cache")' = 0
               /\ \A k \in 1 .. Len(wire'[u]) : wire'[u][k][1] # "cache"
    <3>1. Received(u, "cache") = 0 /\ \A k \in 1 .. Len(w) : w[k][1] # "cache"
      BY <1>0, <2>3 DEF InOrder, w
    <3>2. f # "cache"
      BY <1>1, <1>5, <3>1 DEF w
    <3>3. \A k \in 1 .. Len(wire'[u]) : k + 1 \in 1 .. Len(w) /\ wire'[u][k] = w[k + 1]
      BY <1>5
    <3> QED
      BY <1>8, <3>1, <3>2, <3>3, FormatsAre
  <2>4. ASSUME sending[u] = "deploy", sent[u] = 0
        PROVE  FALSE
    <3>1. wire[u] = <<Meta>>
      BY <1>0, <1>1, <2>4 DEF InOrder
    <3> QED
      BY <1>1, <3>1, FormatsAre DEF Meta
  <2>5. ASSUME sending[u] \in Formats, sent[u] > 0
        PROVE  IF wire'[u] = << >> THEN Received(u, sending[u])' = sent[u]
                                   ELSE wire'[u][Len(wire'[u])] = Chunk(sending[u], sent[u])
    <3>1. w[Len(w)] = Chunk(sending[u], sent[u])
      BY <1>0, <1>1, <2>5 DEF InOrder, w
    <3>2. CASE wire'[u] = << >>
      <4>1. <<f, n>> = Chunk(sending[u], sent[u])
        BY <1>1, <1>5, <3>1, <3>2 DEF w
      <4>2. f = sending[u] /\ n = sent[u]
        BY <4>1 DEF Chunk
      <4>3. Received(u, sending[u])' = Received(u, f)'
        BY <1>2, <4>2 DEF Received
      <4> QED
        BY <1>8, <1>9, <3>2, <4>2, <4>3
    <3>3. CASE wire'[u] # << >>
      <4>1. Len(w) - 1 \in 1 .. Len(w) - 1 /\ Len(wire'[u]) = Len(w) - 1 /\ (Len(w) - 1) + 1 = Len(w)
        BY <1>5, <3>3
      <4>2. wire'[u][Len(w) - 1] = w[(Len(w) - 1) + 1]
        BY <1>5, <4>1
      <4> QED
        BY <3>1, <3>3, <4>1, <4>2
    <3> QED
      BY <3>2, <3>3
  <2> QED
    BY <1>2, <2>1, <2>2, <2>3, <2>4, <2>5 DEF InOrder
<1>13. Complete(u)'
  <2>1. ASSUME NEW g \in Formats \ unread, Finished(u, g)
        PROVE  \/ Received(u, g)' = Chunks[g]
               \/ \E k \in 1 .. Len(wire'[u]) : wire'[u][k] = Chunk(g, Chunks[g])
    <3>1. CASE Received(u, g) = Chunks[g]
      <4>1. g # f
        BY <1>8, <1>9, <3>1
      <4> QED
        BY <1>8, <3>1, <4>1
    <3>2. ASSUME NEW k \in 1 .. Len(w), w[k] = Chunk(g, Chunks[g])
          PROVE  \/ Received(u, g)' = Chunks[g]
                 \/ \E j \in 1 .. Len(wire'[u]) : wire'[u][j] = Chunk(g, Chunks[g])
      <4>1. CASE k = 1
        <5>1. g = f /\ Chunks[g] = n
          BY <1>1, <3>2, <4>1 DEF w, Chunk
        <5> QED
          BY <1>8, <1>9, <5>1
      <4>2. CASE k # 1
        <5>1. k - 1 \in 1 .. Len(w) - 1 /\ k - 1 \in 1 .. Len(wire'[u]) /\ (k - 1) + 1 = k
          BY <1>5, <4>2
        <5>2. wire'[u][k - 1] = w[(k - 1) + 1]
          BY <1>5, <5>1
        <5> QED
          BY <3>2, <5>1, <5>2
      <4> QED
        BY <4>1, <4>2
    <3> QED
      BY <1>0, <2>1, <3>1, <3>2 DEF Complete, w
  <2>2. \A g \in Formats : Finished(u, g)' <=> Finished(u, g)
    BY <1>2 DEF Finished
  <2> QED
    BY <1>2, <2>1, <2>2 DEF Complete
<1> QED
  BY <1>10, <1>11, <1>12, <1>13 DEF StreamInv

\* The metadata is taken from the wire, and the first chunk is the next message.
LEMMA StreamMeta ==
  ASSUME ClientTypes, WireTypes, HandlerTypes, ChanTypes, NEW u \in Uploads,
         TakeMeta(u), StreamInv(u), HandlerInv(u)
  PROVE  StreamInv(u)'
<1>0. /\ At(u, "first") /\ ~Over(u) /\ Framed(u) /\ InOrder(u) /\ Complete(u)
      /\ \A g \in Formats : Prefix(u, g)
  BY DEF StreamInv, TakeMeta, At, Over
<1>1. UNCHANGED <<sending, sent, unread, conn, chan, file, put>> /\ handler[u] = "first"
      /\ wire'[u] = Tail(wire[u]) /\ demux'[u] = "recv" /\ handler'[u] = "has_layer"
  BY DEF TakeMeta, client, At, Goto, WireTypes, HandlerTypes
<1> DEFINE w == wire[u]
<1>2. w \in Seq((Formats \cup {"meta"}) \X Nat) /\ w # << >> /\ w[1] = Meta
      /\ \A k \in 2 .. Len(w) : w[k][1] \in Formats
  BY <1>0 DEF WireTypes, Framed
<1> HIDE DEF w
<1>3. /\ Len(wire'[u]) = Len(w) - 1 /\ Len(w) \in Nat \ {0}
      /\ \A k \in 1 .. Len(w) - 1 : wire'[u][k] = w[k + 1]
      /\ wire'[u] = << >> <=> Len(w) = 1
  BY <1>1, <1>2, TailFacts DEF w
<1>4. \A g : Received(u, g)' = Received(u, g)
  BY <1>1 DEF Received
<1>5. \A g \in Formats : Received(u, g) = 0
  <2>1. file[u] = Nothing /\ chan[u] = Nothing
    BY <1>0, <1>1 DEF Framed
  <2>2. \A g \in Formats : Len(Nothing[g]) = 0
    BY DEF Nothing
  <2> QED
    BY <2>1, <2>2 DEF Received
<1>6. \A g \in Formats : Prefix(u, g)'
  BY <1>0, <1>1 DEF Prefix
<1>7. \A k \in 1 .. Len(wire'[u]) : k + 1 \in 2 .. Len(w) /\ wire'[u][k] = w[k + 1]
  BY <1>3
<1>8. Framed(u)'
  <2>1. \A k \in 1 .. Len(wire'[u]) : wire'[u][k][1] \in Formats
    BY <1>2, <1>7
  <2>2. \A k \in 2 .. Len(w) : k \in 1 .. Len(w)
    BY <1>3
  <2>3. \A k \in 1 .. Len(wire'[u]) : wire'[u][k][2] \in 1 .. Chunks[wire'[u][k][1]]
    BY <1>0, <1>2, <1>7, <2>2 DEF Framed, w
  <2> QED
    BY <1>1, <2>1, <2>3 DEF Framed, At
<1>9. InOrder(u)'
  <2>1. \A k \in 1 .. Len(wire'[u]) - 1 : Follows(wire'[u][k], wire'[u][k + 1])
    <3>1. ASSUME NEW k \in 1 .. Len(wire'[u]) - 1 PROVE Follows(wire'[u][k], wire'[u][k + 1])
      <4>1. k + 1 \in 1 .. Len(w) - 1 /\ k \in 1 .. Len(w) - 1
        BY <1>3
      <4>2. wire'[u][k] = w[k + 1] /\ wire'[u][k + 1] = w[(k + 1) + 1]
        BY <1>3, <4>1
      <4> QED
        BY <1>0, <4>1, <4>2 DEF InOrder, w
    <3> QED
      BY <3>1
  <2>2. ASSUME wire'[u] # << >>
        PROVE  wire'[u][1] \in {<<"deploy", 1>>, <<"cache", 1>>}
    <3>1. 1 \in 1 .. Len(w) - 1 /\ wire'[u][1] = w[1 + 1]
      BY <1>3, <2>2
    <3>2. Follows(Meta, wire'[u][1])
      BY <1>0, <1>2, <3>1 DEF InOrder, w
    <3> QED
      BY <3>2, FormatsAre DEF Follows, Chunk, Meta
  <2>3. wire'[u] # << >> => wire'[u][1][2] = Received(u, wire[u][1][1])' + 1
    <3>1. wire'[u] # << >> => wire'[u][1][1] \in Formats /\ wire'[u][1][2] = 1
      BY <2>2, FormatsAre
    <3>2. Received(u, wire[u][1][1])' = Received(u, wire'[u][1][1])
      BY <1>1 DEF Received
    <3> QED
      BY <1>5, <3>1, <3>2
  <2>4. ASSUME sending[u] = "deploy" \/ (sending[u] = "cache" /\ sent[u] = 0)
        PROVE  \A k \in 1 .. Len(wire'[u]) : wire'[u][k][1] # "cache"
    BY <1>0, <1>3, <1>7, <2>4 DEF InOrder, w
  <2>5. ASSUME sending[u] = "deploy", sent[u] = 0
        PROVE  wire'[u] = << >>
    <3>1. w = <<Meta>>
      BY <1>0, <1>2, <2>5 DEF InOrder, w
    <3> QED
      BY <1>3, <3>1
  <2>6. ASSUME sending[u] \in Formats, sent[u] > 0
        PROVE  wire'[u] # << >> /\ wire'[u][Len(wire'[u])] = Chunk(sending[u], sent[u])
    <3>1. w[Len(w)] = Chunk(sending[u], sent[u])
      BY <1>0, <1>2, <2>6 DEF InOrder, w
    <3>2. Len(w) # 1
      BY <1>2, <2>6, <3>1, FormatsAre DEF Chunk, Meta
    <3>3. Len(w) - 1 \in 1 .. Len(w) - 1 /\ (Len(w) - 1) + 1 = Len(w)
      BY <1>3, <3>2
    <3> QED
      BY <1>3, <3>1, <3>2, <3>3
  <2>7. "cache" \in Formats /\ "deploy" \in Formats
    BY FormatsAre
  <2> QED
    BY <1>1, <1>4, <1>5, <2>1, <2>2, <2>3, <2>4, <2>5, <2>6, <2>7 DEF InOrder
<1>10. Complete(u)'
  <2>1. ASSUME NEW g \in Formats \ unread, Finished(u, g)
        PROVE  \/ Received(u, g) = Chunks[g]
               \/ \E k \in 1 .. Len(wire'[u]) : wire'[u][k] = Chunk(g, Chunks[g])
    <3>1. ASSUME NEW k \in 1 .. Len(w), w[k] = Chunk(g, Chunks[g])
          PROVE  \E j \in 1 .. Len(wire'[u]) : wire'[u][j] = Chunk(g, Chunks[g])
      <4>1. k # 1
        BY <1>2, <3>1, FormatsAre DEF Chunk, Meta
      <4>2. k - 1 \in 1 .. Len(w) - 1 /\ k - 1 \in 1 .. Len(wire'[u]) /\ (k - 1) + 1 = k
        BY <1>3, <4>1
      <4>3. wire'[u][k - 1] = w[(k - 1) + 1]
        BY <1>3, <4>2
      <4> QED
        BY <3>1, <4>2, <4>3
    <3> QED
      BY <1>0, <2>1, <3>1 DEF Complete, w
  <2>2. \A g \in Formats : Finished(u, g)' <=> Finished(u, g)
    BY <1>1 DEF Finished
  <2> QED
    BY <1>1, <1>4, <2>1, <2>2 DEF Complete
<1> QED
  BY <1>6, <1>8, <1>9, <1>10 DEF StreamInv

\* A step of the handler that touches neither the stream nor the channels.
LEMMA StreamStays ==
  ASSUME NEW u \in Uploads, StreamInv(u),
         UNCHANGED <<sending, sent, unread, wire, conn, demux, chan, file>>,
         handler[u] \notin {"idle", "first"}, handler'[u] \notin {"idle", "first"},
         ~Over(u)' => ~Over(u)
  PROVE  StreamInv(u)'
<1>1. \A f \in Formats : Prefix(u, f)'
  BY DEF StreamInv, Prefix
<1>2. Framed(u)'
  BY DEF StreamInv, Framed, At
<1>3. InOrder(u) => InOrder(u)'
  BY DEF InOrder, Received
<1>4. Complete(u) => Complete(u)'
  BY DEF Complete, Received, Finished
<1> QED
  BY <1>1, <1>2, <1>3, <1>4 DEF StreamInv

\* The end of a call: the channels and the files are dropped.
LEMMA StreamDropped ==
  ASSUME ChanTypes, WireTypes, NEW u \in Uploads, StreamInv(u), Drop(u), Over(u)', ~At(u, "first")',
         demux' = demux, wire'[u] \in {wire[u], << >>}
  PROVE  StreamInv(u)'
<1>1. chan'[u] = Nothing /\ file'[u] = Nothing
  BY DEF Drop, ChanTypes
<1>2. \A f \in Formats : Nothing[f] = << >>
  BY DEF Nothing
<1>3. \A k \in 1 .. Len(<< >>) : FALSE
  OBVIOUS
<1>4. \A f \in Formats : Prefix(u, f)'
  BY <1>1, <1>2, <1>3 DEF Prefix
<1>5. /\ \A k \in 1 .. Len(wire'[u]) :
            wire'[u][k][1] \in Formats => wire'[u][k][2] \in 1 .. Chunks[wire'[u][k][1]]
      /\ demux'[u] # "idle" => \A k \in 1 .. Len(wire'[u]) : wire'[u][k][1] \in Formats
  BY <1>3 DEF StreamInv, Framed
<1>6. Framed(u)'
  BY <1>1, <1>5 DEF Framed
<1> QED
  BY <1>4, <1>6 DEF StreamInv

\* publish_layer: the metadata is the first message.
LEMMA StreamBegin ==
  ASSUME ClientTypes, WireTypes, HandlerTypes, ChanTypes, NEW u \in Uploads,
         Begin(u), StreamInv(u), HandlerInv(u)
  PROVE  StreamInv(u)'
<1>1. handler[u] = "idle" /\ conn[u] = "open" /\ sent[u] = 0 /\ demux[u] = "idle"
  BY DEF Begin, HandlerInv
<1>2. file[u] = Nothing /\ chan[u] = Nothing
  BY <1>1 DEF StreamInv, Framed
<1>3. UNCHANGED <<sent, unread, conn, demux, chan, file>> /\ sending'[u] = "deploy"
      /\ wire'[u] = <<Meta>> /\ handler'[u] = "first"
  BY DEF Begin, ClientTypes, WireTypes, HandlerTypes
<1>4. /\ Len(wire'[u]) = 1 /\ wire'[u][1] = Meta /\ wire'[u] # << >>
      /\ \A k \in 1 .. Len(wire'[u]) : k = 1
      /\ \A k \in 1 .. Len(wire'[u]) - 1 : FALSE
      /\ \A k \in 2 .. Len(wire'[u]) : FALSE
  BY <1>3
<1>5. Meta[1] = "meta" /\ Meta[1] \notin Formats /\ Meta[1] # "cache"
  BY FormatsAre DEF Meta
<1>6. \A f \in Formats : Prefix(u, f)'
  BY <1>3 DEF StreamInv, Prefix
<1>7. Framed(u)'
  BY <1>1, <1>2, <1>3, <1>4, <1>5 DEF Framed
<1>8. \A f \in Formats : Received(u, f)' = 0
  <2>1. ASSUME NEW f \in Formats PROVE Received(u, f)' = 0
    <3>1. chan'[u][f] = << >> /\ file'[u][f] = << >>
      BY <1>2, <1>3 DEF Nothing
    <3>2. Len(<< >>) + Len(<< >>) = 0
      OBVIOUS
    <3> QED
      BY <3>1, <3>2 DEF Received
  <2> QED
    BY <2>1
<1>9. InOrder(u)'
  <2>1. "cache" \in Formats /\ "deploy" \in Formats
    BY FormatsAre
  <2>2. \A k \in 1 .. Len(wire'[u]) : wire'[u][k][1] # "cache"
    BY <1>4, <1>5
  <2>3. ~(sent'[u] > 0) /\ demux'[u] # "recv"
    BY <1>1, <1>3
  <2> QED
    BY <1>3, <1>4, <1>8, <2>1, <2>2, <2>3 DEF InOrder
<1>10. Complete(u)'
  BY <1>1, <1>3 DEF Complete, Finished
<1> QED
  BY <1>6, <1>7, <1>9, <1>10 DEF StreamInv

\* The sender goes to the next artifact: it has sent all of this one, or could
\* not read it.
LEMMA StreamEnd ==
  ASSUME ClientTypes, WireTypes, HandlerTypes, ChanTypes, NEW u \in Uploads,
         EndArtifact(u), StreamInv(u), HandlerInv(u)
  PROVE  StreamInv(u)'
<1>1. UNCHANGED <<wire, conn, handler, demux, chan, file>> /\ sending[u] \in Formats /\ sent'[u] = 0
      /\ sending'[u] = (IF sending[u] = "deploy" THEN "cache" ELSE "closed")
  BY DEF EndArtifact, server, ClientTypes
<1>2. \/ sent[u] = Chunks[sending[u]] /\ unread' = unread
      \/ unread' = unread \cup {sending[u]}
  BY DEF EndArtifact
<1>3. (\A f \in Formats : Prefix(u, f)') /\ \A g : Received(u, g)' = Received(u, g)
  BY <1>1 DEF StreamInv, Prefix, Received
<1>4. Framed(u)'
  BY <1>1 DEF StreamInv, Framed, At
<1>5. ASSUME ~Over(u)' PROVE InOrder(u)' /\ Complete(u)'
  <2>0. InOrder(u) /\ Complete(u)
    BY <1>1, <1>5 DEF Over, StreamInv
  <2>1. sending'[u] # "deploy" /\ ~(sent'[u] > 0) /\ (sending'[u] = "cache" => sending[u] = "deploy")
    BY <1>1
  <2>2. demux[u] = "recv" /\ wire[u] # << >> => Received(u, wire[u][1][1])' = Received(u, wire[u][1][1])
    BY <1>1 DEF Received
  <2>3. InOrder(u)'
    BY <1>1, <1>3, <2>0, <2>1, <2>2 DEF InOrder
  <2>4. ASSUME NEW f \in Formats \ unread', Finished(u, f)'
        PROVE  \/ Received(u, f) = Chunks[f]
               \/ \E k \in 1 .. Len(wire[u]) : wire[u][k] = Chunk(f, Chunks[f])
    <3>1. CASE Finished(u, f)
      BY <1>2, <2>0, <2>4, <3>1 DEF Complete
    <3>2. CASE ~Finished(u, f)
      <4>1. f = sending[u]
        BY <1>1, <2>4, <3>2, FormatsAre DEF Finished
      <4>2. sent[u] = Chunks[f] /\ sent[u] \in Nat
        BY <1>2, <2>4, <4>1 DEF ClientTypes
      <4>3. CASE sent[u] > 0
        <5>1. CASE wire[u] = << >>
          BY <1>1, <2>0, <4>1, <4>2, <4>3, <5>1 DEF InOrder
        <5>2. CASE wire[u] # << >>
          <6>1. wire[u][Len(wire[u])] = Chunk(f, Chunks[f])
            BY <1>1, <2>0, <4>1, <4>2, <4>3, <5>2 DEF InOrder
          <6>2. Len(wire[u]) \in 1 .. Len(wire[u])
            BY <5>2 DEF WireTypes
          <6> QED
            BY <6>1, <6>2
        <5> QED
          BY <5>1, <5>2
      <4>4. CASE sent[u] = 0
        <5>1. Received(u, f) = 0
          BY <2>0, <4>1, <4>4, FormatsAre DEF InOrder
        <5> QED
          BY <4>2, <4>4, <5>1
      <4> QED
        BY <4>2, <4>3, <4>4
    <3> QED
      BY <3>1, <3>2
  <2>5. demux'[u] # "ended"
    BY <1>1, <2>0, FormatsAre DEF Complete
  <2>6. Complete(u)'
    BY <1>1, <1>3, <2>4, <2>5 DEF Complete
  <2> QED
    BY <2>3, <2>6
<1> QED
  BY <1>3, <1>4, <1>5 DEF StreamInv

\* A failed send: the call is over.
LEMMA StreamSendFails ==
  ASSUME ClientTypes, WireTypes, HandlerTypes, ChanTypes, NEW u \in Uploads,
         SendFails(u), StreamInv(u), HandlerInv(u)
  PROVE  StreamInv(u)'
<1>1. UNCHANGED <<wire, conn, handler, demux, chan, file>> /\ sending[u] \in Formats /\ demux[u] = "ended"
  BY DEF SendFails, server
<1>2. Over(u)'
  BY <1>1, FormatsAre DEF StreamInv, Complete, Over
<1>3. \A f \in Formats : Prefix(u, f)'
  BY <1>1 DEF StreamInv, Prefix
<1>4. Framed(u)'
  BY <1>1 DEF StreamInv, Framed, At
<1> QED
  BY <1>2, <1>3, <1>4 DEF StreamInv

\* The demultiplexer ends with the stream, or after the call.
LEMMA StreamDemuxEnd ==
  ASSUME ClientTypes, WireTypes, HandlerTypes, ChanTypes, NEW u \in Uploads,
         DemuxEnd(u), StreamInv(u), HandlerInv(u)
  PROVE  StreamInv(u)'
<1>1. UNCHANGED <<sending, sent, unread, conn, handler, chan, file>> /\ demux[u] = "recv"
      /\ demux'[u] = "ended" /\ wire'[u] = << >>
      /\ ((wire[u] = << >> /\ sending[u] = "closed") \/ Over(u))
  BY DEF DemuxEnd, client, HandlerTypes, WireTypes
<1>2. handler[u] \notin {"idle", "first"}
  BY <1>1 DEF HandlerInv
<1>3. (\A f \in Formats : Prefix(u, f)') /\ \A g : Received(u, g)' = Received(u, g)
  BY <1>1 DEF StreamInv, Prefix, Received
<1>4. (\A k \in 1 .. Len(wire'[u]) : FALSE) /\ \A k \in 1 .. Len(wire'[u]) - 1 : FALSE
  BY <1>1
<1>5. Framed(u)'
  BY <1>1, <1>2, <1>4 DEF Framed, At
<1>6. ASSUME ~Over(u)' PROVE InOrder(u)' /\ Complete(u)'
  <2>1. ~Over(u) /\ Complete(u) /\ wire[u] = << >> /\ sending[u] = "closed" /\ "closed" \notin Formats
    BY <1>1, <1>6, FormatsAre DEF Over, StreamInv
  <2>2. InOrder(u)'
    BY <1>1, <1>4, <2>1 DEF InOrder
  <2>3. Complete(u)'
    BY <1>1, <1>3, <2>1 DEF Complete, Finished
  <2> QED
    BY <2>2, <2>3
<1> QED
  BY <1>3, <1>5, <1>6 DEF StreamInv

\* put_blob reads the channel in order, so the file grows by the next chunk.
LEMMA StreamCopy ==
  ASSUME ClientTypes, WireTypes, HandlerTypes, ChanTypes, NEW u \in Uploads, NEW f \in Formats,
         CopyChunk(u, f), StreamInv(u), HandlerInv(u)
  PROVE  StreamInv(u)'
<1> DEFINE q == chan[u][f]
           p == file[u][f]
           e == chan[u][f][1]
<1>1. q # << >> /\ chan' = [chan EXCEPT ![u] = [chan[u] EXCEPT ![f] = Tail(q)]]
      /\ file' = [file EXCEPT ![u] = [file[u] EXCEPT ![f] = Append(p, e)]] /\ e \in Formats \X Nat
  BY CopySteps
<1>2. UNCHANGED <<sending, sent, unread, wire, conn, handler, demux>> /\ At(u, "put")
  BY DEF CopyChunk, client
<1>3. chan'[u][f] = Tail(q) /\ file'[u][f] = Append(p, e)
      /\ q \in Seq(Formats \X Nat) /\ p \in Seq(Formats \X Nat) /\ e = q[1]
      /\ \A g \in Formats \ {f} : chan'[u][g] = chan[u][g] /\ file'[u][g] = file[u][g]
  BY <1>1 DEF ChanTypes
<1>4. Received(u, f) = Len(p) + Len(q) /\ Received(u, f)' = Len(file'[u][f]) + Len(chan'[u][f])
  BY DEF Received
<1>5. /\ \A k \in 1 .. Len(p) : p[k] = Chunk(f, k)
      /\ \A k \in 1 .. Len(q) : q[k] = Chunk(f, Len(p) + k)
  BY DEF StreamInv, Prefix
<1> HIDE DEF q, p, e
<1>6. /\ Len(Append(p, e)) = Len(p) + 1 /\ Len(p) \in Nat
      /\ \A k \in 1 .. Len(p) : Append(p, e)[k] = p[k]
      /\ Append(p, e)[Len(p) + 1] = e
  BY <1>1, <1>3, AppendFacts
<1>7. /\ Len(q) \in Nat \ {0} /\ Len(Tail(q)) = Len(q) - 1
      /\ \A k \in 1 .. Len(q) - 1 : Tail(q)[k] = q[k + 1]
  BY <1>1, <1>3, TailFacts
<1> DEFINE m == Len(p)
           l == Len(q)
<1>8. Received(u, f)' = Received(u, f)
  <2>1. m \in Nat /\ l \in Nat \ {0}
    BY <1>6, <1>7
  <2>2. Received(u, f) = m + l /\ Received(u, f)' = (m + 1) + (l - 1)
    BY <1>3, <1>4, <1>6, <1>7
  <2> HIDE DEF m, l
  <2>3. (m + 1) + (l - 1) = m + l
    BY <2>1
  <2> QED
    BY <2>2, <2>3
<1>9. \A g \in Formats : Received(u, g)' = Received(u, g)
  <2>1. \A g \in Formats \ {f} : Received(u, g)' = Received(u, g)
    BY <1>3 DEF Received
  <2> QED
    BY <1>8, <2>1
<1>10. \A g \in Formats : Prefix(u, g)'
  <2>1. e = Chunk(f, Len(p) + 1)
    <3>1. 1 \in 1 .. Len(q)
      BY <1>7
    <3> QED
      BY <1>3, <1>5, <3>1
  <2>2. \A k \in 1 .. Len(Append(p, e)) : Append(p, e)[k] = Chunk(f, k)
    <3>1. \A k \in 1 .. Len(Append(p, e)) : k \in 1 .. Len(p) \/ k = Len(p) + 1
      BY <1>6
    <3> QED
      BY <1>5, <1>6, <2>1, <3>1
  <2>3. \A k \in 1 .. Len(Tail(q)) : Tail(q)[k] = Chunk(f, Len(Append(p, e)) + k)
    <3>1. ASSUME NEW k \in 1 .. Len(Tail(q)) PROVE Tail(q)[k] = Chunk(f, Len(Append(p, e)) + k)
      <4>1. k \in 1 .. Len(q) - 1 /\ k + 1 \in 1 .. Len(q)
        BY <1>7
      <4>2. Tail(q)[k] = Chunk(f, Len(p) + (k + 1))
        BY <1>5, <1>7, <4>1
      <4>3. Len(p) + (k + 1) = (Len(p) + 1) + k
        BY <1>6, <4>1
      <4> QED
        BY <1>6, <4>2, <4>3
    <3> QED
      BY <3>1
  <2>4. Prefix(u, f)'
    BY <1>3, <2>2, <2>3 DEF Prefix
  <2>5. \A g \in Formats \ {f} : Prefix(u, g)'
    BY <1>3 DEF StreamInv, Prefix
  <2> QED
    BY <2>4, <2>5
<1>11. Framed(u)'
  BY <1>2 DEF StreamInv, Framed, At
<1>12. ASSUME ~Over(u)' PROVE InOrder(u)' /\ Complete(u)'
  <2>0. InOrder(u) /\ Complete(u) /\ Framed(u)
    BY <1>2, <1>12 DEF Over, StreamInv
  <2>1. demux[u] = "recv" /\ wire[u] # << >> => Received(u, wire[u][1][1])' = Received(u, wire[u][1][1])
    <3>1. SUFFICES ASSUME demux[u] = "recv", wire[u] # << >>
                   PROVE  Received(u, wire[u][1][1])' = Received(u, wire[u][1][1])
      OBVIOUS
    <3>2. 1 \in 1 .. Len(wire[u])
      BY <3>1 DEF WireTypes
    <3>3. PICK g \in Formats : g = wire[u][1][1]
      BY <2>0, <3>1, <3>2 DEF Framed
    <3>4. Received(u, wire[u][1][1])' = Received(u, g)'
      BY <1>2, <3>3 DEF Received
    <3> QED
      BY <1>9, <3>3, <3>4
  <2>2. InOrder(u)'
    <3>1. Received(u, "cache")' = Received(u, "cache") /\ Received(u, "deploy")' = Received(u, "deploy")
      BY <1>9, FormatsAre
    <3>2. sending[u] \in Formats => Received(u, sending[u])' = Received(u, sending[u])
      BY <1>2, <1>9 DEF Received
    <3> QED
      BY <1>2, <2>0, <2>1, <3>1, <3>2 DEF InOrder
  <2>3. Complete(u)'
    BY <1>2, <1>9, <2>0 DEF Complete, Finished
  <2> QED
    BY <2>2, <2>3
<1> QED
  BY <1>10, <1>11, <1>12 DEF StreamInv

\* The stream stays in order whatever the upload does.
LEMMA StreamStep ==
  ASSUME ClientTypes, WireTypes, HandlerTypes, ChanTypes, StoreTypes,
         NEW u \in Uploads, Act(u), StreamInv(u), HandlerInv(u)
  PROVE  StreamInv(u)'
<1>1. CASE Begin(u)
  BY <1>1, StreamBegin
<1>2. CASE SendChunk(u)
  BY <1>2, StreamSend
<1>3. CASE EndArtifact(u)
  BY <1>3, StreamEnd
<1>4. CASE SendFails(u)
  BY <1>4, StreamSendFails
<1>5. CASE Cut(u)
  <2>1. Drop(u) /\ demux' = demux /\ wire'[u] = << >> /\ conn'[u] = "lost"
    BY <1>5 DEF Cut, WireTypes
  <2> QED
    BY <2>1, StreamDropped DEF Over, At
<1>6. CASE Forward(u)
  BY <1>6, StreamForward
<1>7. CASE DemuxEnd(u)
  BY <1>7, StreamDemuxEnd
<1>8. CASE TakeMeta(u)
  BY <1>8, StreamMeta
<1>9. CASE HasLayer(u)
  <2>1. UNCHANGED <<sending, sent, unread, wire, conn, demux>> /\ handler[u] = "has_layer" /\ conn[u] = "open"
    BY <1>9 DEF HasLayer, client, At
  <2>2. \/ Drop(u) /\ handler'[u] \in {"ok", "err"}
        \/ UNCHANGED <<chan, file>> /\ handler'[u] \in {"put"}
    BY <1>9 DEF HasLayer, Return, Continue, Goto, HandlerTypes
  <2>3. CASE Drop(u) /\ handler'[u] \in {"ok", "err"}
    BY <2>1, <2>3, StreamDropped DEF Over, At
  <2>4. CASE UNCHANGED <<chan, file>> /\ handler'[u] \in {"put"}
    BY <2>1, <2>4, StreamStays DEF Over
  <2> QED
    BY <2>2, <2>3, <2>4
<1>10. ASSUME NEW f \in Formats, CheckBlob(u, f)
      PROVE  StreamInv(u)'
  BY <1>10, StreamStays DEF CheckBlob, client, server, store, At, Over
<1>11. ASSUME NEW f \in Formats, CopyChunk(u, f)
      PROVE  StreamInv(u)'
  BY <1>11, StreamCopy
<1>12. ASSUME NEW f \in Formats, PutFails(u, f)
      PROVE  StreamInv(u)'
  BY <1>12, StreamStays DEF PutFails, client, server, store, At, Over
<1>13. ASSUME NEW f \in Formats, Rename(u, f)
      PROVE  StreamInv(u)'
  BY <1>13, StreamStays DEF Rename, client, server, store, At, Over
<1>14. CASE Join(u)
  <2>1. UNCHANGED <<sending, sent, unread, wire, conn, demux>> /\ handler[u] = "put" /\ conn[u] = "open"
    BY <1>14 DEF Join, client, At
  <2>2. \/ Drop(u) /\ handler'[u] \in {"ok", "err"}
        \/ UNCHANGED <<chan, file>> /\ handler'[u] \in {"layer_meta"}
    BY <1>14 DEF Join, Return, Continue, Goto, HandlerTypes
  <2>3. CASE Drop(u) /\ handler'[u] \in {"ok", "err"}
    BY <2>1, <2>3, StreamDropped DEF Over, At
  <2>4. CASE UNCHANGED <<chan, file>> /\ handler'[u] \in {"layer_meta"}
    BY <2>1, <2>4, StreamStays DEF Over
  <2> QED
    BY <2>2, <2>3, <2>4
<1>15. CASE PutLayerMeta(u)
  <2>1. UNCHANGED <<sending, sent, unread, wire, conn, demux>> /\ handler[u] = "layer_meta" /\ conn[u] = "open"
    BY <1>15 DEF PutLayerMeta, client, At
  <2>2. \/ Drop(u) /\ handler'[u] \in {"ok", "err"}
        \/ UNCHANGED <<chan, file>> /\ handler'[u] \in {"register"}
    BY <1>15 DEF PutLayerMeta, Return, Continue, Goto, HandlerTypes
  <2>3. CASE Drop(u) /\ handler'[u] \in {"ok", "err"}
    BY <2>1, <2>3, StreamDropped DEF Over, At
  <2>4. CASE UNCHANGED <<chan, file>> /\ handler'[u] \in {"register"}
    BY <2>1, <2>4, StreamStays DEF Over
  <2> QED
    BY <2>2, <2>3, <2>4
<1>16. CASE RegisterInputHash(u)
  <2>1. UNCHANGED <<sending, sent, unread, wire, conn, demux>> /\ handler[u] = "register" /\ conn[u] = "open"
    BY <1>16 DEF RegisterInputHash, client, At
  <2>2. \/ Drop(u) /\ handler'[u] \in {"ok", "err"}
        \/ UNCHANGED <<chan, file>> /\ handler'[u] \in {"put"}
    BY <1>16 DEF RegisterInputHash, Return, Continue, Goto, HandlerTypes
  <2>3. CASE Drop(u) /\ handler'[u] \in {"ok", "err"}
    BY <2>1, <2>3, StreamDropped DEF Over, At
  <2>4. CASE UNCHANGED <<chan, file>> /\ handler'[u] \in {"put"}
    BY <2>1, <2>4, StreamStays DEF Over
  <2> QED
    BY <2>2, <2>3, <2>4
<1> QED
  BY <1>1, <1>2, <1>3, <1>4, <1>5, <1>6, <1>7, <1>8, <1>9, <1>10, <1>11, <1>12, <1>13, <1>14, <1>15, <1>16 DEF Act, Sender, Demux, Handler

\* At the end of the stream the file is the artifact: the demultiplexer ended
\* because the sender closed the stream and the wire was empty.
LEMMA RenamesWhole ==
  ASSUME ClientTypes, WireTypes, HandlerTypes, ChanTypes, NEW u \in Uploads, NEW f \in Formats,
         Rename(u, f), StreamInv(u), f \notin unread
  PROVE  file[u][f] = Whole(f)
<1>1. ~Over(u) /\ chan[u][f] = << >> /\ demux[u] = "ended"
  BY DEF Rename, At, Over
<1>2. wire[u] = << >> /\ Finished(u, f) /\ Complete(u)
  BY <1>1 DEF StreamInv, Complete, Finished
<1>3. Received(u, f) = Chunks[f]
  BY <1>2 DEF Complete
<1> DEFINE p == file[u][f]
           m == Len(p)
<1>4. p \in Seq(Formats \X Nat) /\ m \in Nat
  BY DEF ChanTypes
<1>5. Received(u, f) = m + Len(<< >>)
  BY <1>1 DEF Received
<1>6. \A k \in 1 .. m : p[k] = Chunk(f, k)
  BY DEF StreamInv, Prefix
<1> HIDE DEF p
<1>7. m = Chunks[f]
  <2> HIDE DEF m
  <2>1. Len(<< >>) = 0
    OBVIOUS
  <2> QED
    BY <1>3, <1>4, <1>5, <2>1
<1>8. p = [k \in 1 .. m |-> p[k]]
  BY <1>4
<1>9. p = [k \in 1 .. m |-> Chunk(f, k)]
  BY <1>6, <1>8
<1> QED
  BY <1>7, <1>9 DEF Whole, p

-----------------------------------------------------------------------------
(* The handler and the store.                                              *)

\* Where the handler, the sender and the demultiplexer are.
LEMMA HandlerPhase ==
  ASSUME ClientTypes, WireTypes, HandlerTypes, ChanTypes, StoreTypes,
         NEW u \in Uploads, Act(u), StreamInv(u), HandlerInv(u)
  PROVE  /\ (handler[u] = "idle" <=> sending[u] = "idle")'
         /\ (handler[u] = "idle" => conn[u] = "open" /\ sent[u] = 0 /\ wire[u] = << >>)'
         /\ (handler[u] \in {"idle", "first"} <=> demux[u] = "idle")'
<1> USE PublishStreamAssumption DEF HandlerInv, ClientTypes, WireTypes, HandlerTypes, Formats, client, server, store
<1>1. CASE Begin(u)
  BY <1>1 DEF Begin
<1>2. CASE SendChunk(u)
  BY <1>2 DEF SendChunk
<1>3. CASE EndArtifact(u)
  BY <1>3 DEF EndArtifact, Fault
<1>4. CASE SendFails(u)
  BY <1>4 DEF SendFails
<1>5. CASE Cut(u)
  BY <1>5 DEF Cut, Fault, Over, Drop
<1>6. CASE Forward(u)
  BY <1>6 DEF Forward, Over
<1>7. CASE DemuxEnd(u)
  BY <1>7 DEF DemuxEnd, Over
<1>8. CASE TakeMeta(u)
  BY <1>8 DEF TakeMeta, At, Goto
<1>9. CASE HasLayer(u)
  BY <1>9 DEF HasLayer, At, Goto, Return, Continue, Drop
<1>10. ASSUME NEW f \in Formats, CheckBlob(u, f)
      PROVE  /\ (handler[u] = "idle" <=> sending[u] = "idle")'
             /\ (handler[u] = "idle" => conn[u] = "open" /\ sent[u] = 0 /\ wire[u] = << >>)'
             /\ (handler[u] \in {"idle", "first"} <=> demux[u] = "idle")'
  BY <1>10 DEF CheckBlob, At, SetPut
<1>11. ASSUME NEW f \in Formats, CopyChunk(u, f)
      PROVE  /\ (handler[u] = "idle" <=> sending[u] = "idle")'
             /\ (handler[u] = "idle" => conn[u] = "open" /\ sent[u] = 0 /\ wire[u] = << >>)'
             /\ (handler[u] \in {"idle", "first"} <=> demux[u] = "idle")'
  BY <1>11 DEF CopyChunk, At
<1>12. ASSUME NEW f \in Formats, PutFails(u, f)
      PROVE  /\ (handler[u] = "idle" <=> sending[u] = "idle")'
             /\ (handler[u] = "idle" => conn[u] = "open" /\ sent[u] = 0 /\ wire[u] = << >>)'
             /\ (handler[u] \in {"idle", "first"} <=> demux[u] = "idle")'
  BY <1>12 DEF PutFails, At, SetPut, Fault
<1>13. ASSUME NEW f \in Formats, Rename(u, f)
      PROVE  /\ (handler[u] = "idle" <=> sending[u] = "idle")'
             /\ (handler[u] = "idle" => conn[u] = "open" /\ sent[u] = 0 /\ wire[u] = << >>)'
             /\ (handler[u] \in {"idle", "first"} <=> demux[u] = "idle")'
  BY <1>13 DEF Rename, At, SetPut
<1>14. CASE Join(u)
  BY <1>14 DEF Join, At, Goto, Return, Continue, Drop
<1>15. CASE PutLayerMeta(u)
  BY <1>15 DEF PutLayerMeta, At, Goto, Return, Continue, Drop, Fault, Finalize
<1>16. CASE RegisterInputHash(u)
  BY <1>16 DEF RegisterInputHash, At, Goto, Return, Continue, Drop, Fault
<1> QED
  BY <1>1, <1>2, <1>3, <1>4, <1>5, <1>6, <1>7, <1>8, <1>9, <1>10, <1>11, <1>12, <1>13, <1>14, <1>15, <1>16 DEF Act, Sender, Demux, Handler

\* The put_blobs are done when the metadata is written.
LEMMA HandlerPuts ==
  ASSUME ClientTypes, WireTypes, HandlerTypes, ChanTypes, StoreTypes,
         NEW u \in Uploads, Act(u), StreamInv(u), HandlerInv(u)
  PROVE  /\ (handler[u] \in {"idle", "first", "has_layer"} => \A g \in Formats : put[u][g] = "todo")'
         /\ (handler[u] \in {"layer_meta", "register"} => \A g \in Formats : put[u][g] = "ok")'
         /\ (handler[u] = "register" => layer # Absent)'
<1> USE PublishStreamAssumption DEF HandlerInv, HandlerTypes, client, server, store
<1>1. CASE Begin(u)
  BY <1>1 DEF Begin
<1>2. CASE SendChunk(u)
  BY <1>2 DEF SendChunk
<1>3. CASE EndArtifact(u)
  BY <1>3 DEF EndArtifact, Fault
<1>4. CASE SendFails(u)
  BY <1>4 DEF SendFails
<1>5. CASE Cut(u)
  BY <1>5 DEF Cut, Fault, Over, Drop
<1>6. CASE Forward(u)
  BY <1>6 DEF Forward, Over
<1>7. CASE DemuxEnd(u)
  BY <1>7 DEF DemuxEnd, Over
<1>8. CASE TakeMeta(u)
  BY <1>8 DEF TakeMeta, At, Goto
<1>9. CASE HasLayer(u)
  BY <1>9 DEF HasLayer, At, Goto, Return, Continue, Drop
<1>10. ASSUME NEW f \in Formats, CheckBlob(u, f)
      PROVE  /\ (handler[u] \in {"idle", "first", "has_layer"} => \A g \in Formats : put[u][g] = "todo")'
             /\ (handler[u] \in {"layer_meta", "register"} => \A g \in Formats : put[u][g] = "ok")'
             /\ (handler[u] = "register" => layer # Absent)'
  BY <1>10 DEF CheckBlob, At, SetPut
<1>11. ASSUME NEW f \in Formats, CopyChunk(u, f)
      PROVE  /\ (handler[u] \in {"idle", "first", "has_layer"} => \A g \in Formats : put[u][g] = "todo")'
             /\ (handler[u] \in {"layer_meta", "register"} => \A g \in Formats : put[u][g] = "ok")'
             /\ (handler[u] = "register" => layer # Absent)'
  BY <1>11 DEF CopyChunk, At
<1>12. ASSUME NEW f \in Formats, PutFails(u, f)
      PROVE  /\ (handler[u] \in {"idle", "first", "has_layer"} => \A g \in Formats : put[u][g] = "todo")'
             /\ (handler[u] \in {"layer_meta", "register"} => \A g \in Formats : put[u][g] = "ok")'
             /\ (handler[u] = "register" => layer # Absent)'
  BY <1>12 DEF PutFails, At, SetPut, Fault
<1>13. ASSUME NEW f \in Formats, Rename(u, f)
      PROVE  /\ (handler[u] \in {"idle", "first", "has_layer"} => \A g \in Formats : put[u][g] = "todo")'
             /\ (handler[u] \in {"layer_meta", "register"} => \A g \in Formats : put[u][g] = "ok")'
             /\ (handler[u] = "register" => layer # Absent)'
  BY <1>13 DEF Rename, At, SetPut
<1>14. CASE Join(u)
  BY <1>14 DEF Join, At, Goto, Return, Continue, Drop
<1>15. CASE PutLayerMeta(u)
  <2>1. file[u] # Absent
    BY PublishStreamAssumption DEF ChanTypes
  <2> QED
    BY <1>15, <2>1 DEF PutLayerMeta, At, Goto, Return, Continue, Finalize
<1>16. CASE RegisterInputHash(u)
  BY <1>16 DEF RegisterInputHash, At, Goto, Return, Continue, Drop, Fault
<1> QED
  BY <1>1, <1>2, <1>3, <1>4, <1>5, <1>6, <1>7, <1>8, <1>9, <1>10, <1>11, <1>12, <1>13, <1>14, <1>15, <1>16 DEF Act, Sender, Demux, Handler

\* Ok is answered for a layer whose deploy artifact is in place.
LEMMA HandlerOk ==
  ASSUME ClientTypes, WireTypes, HandlerTypes, ChanTypes, StoreTypes,
         NEW u \in Uploads, Act(u), StreamInv(u), HandlerInv(u)
  PROVE  (handler[u] = "ok" => blobs["deploy"] # Absent)'
<1> USE PublishStreamAssumption DEF HandlerInv, HandlerTypes, client, server, store
<1>1. CASE Begin(u)
  BY <1>1 DEF Begin
<1>2. CASE SendChunk(u)
  BY <1>2 DEF SendChunk
<1>3. CASE EndArtifact(u)
  BY <1>3 DEF EndArtifact, Fault
<1>4. CASE SendFails(u)
  BY <1>4 DEF SendFails
<1>5. CASE Cut(u)
  BY <1>5 DEF Cut, Fault, Over, Drop
<1>6. CASE Forward(u)
  BY <1>6 DEF Forward, Over
<1>7. CASE DemuxEnd(u)
  BY <1>7 DEF DemuxEnd, Over
<1>8. CASE TakeMeta(u)
  BY <1>8 DEF TakeMeta, At, Goto
<1>9. CASE HasLayer(u)
  BY <1>9 DEF HasLayer, At, Goto, Return, Continue, Drop
<1>10. ASSUME NEW f \in Formats, CheckBlob(u, f)
      PROVE  (handler[u] = "ok" => blobs["deploy"] # Absent)'
  BY <1>10 DEF CheckBlob, At, SetPut
<1>11. ASSUME NEW f \in Formats, CopyChunk(u, f)
      PROVE  (handler[u] = "ok" => blobs["deploy"] # Absent)'
  BY <1>11 DEF CopyChunk, At
<1>12. ASSUME NEW f \in Formats, PutFails(u, f)
      PROVE  (handler[u] = "ok" => blobs["deploy"] # Absent)'
  BY <1>12 DEF PutFails, At, SetPut, Fault
<1>13. ASSUME NEW f \in Formats, Rename(u, f)
      PROVE  (handler[u] = "ok" => blobs["deploy"] # Absent)'
  BY <1>13 DEF Rename, At
<1>14. CASE Join(u)
  BY <1>14 DEF Join, At, Goto, Return, Continue, Drop
<1>15. CASE PutLayerMeta(u)
  BY <1>15 DEF PutLayerMeta, At, Goto, Return, Continue, Drop, Fault, Finalize
<1>16. CASE RegisterInputHash(u)
  <2>1. blobs["deploy"] # Absent
    BY <1>16, FormatsAre DEF RegisterInputHash, At
  <2> QED
    BY <1>16, <2>1 DEF RegisterInputHash
<1> QED
  BY <1>1, <1>2, <1>3, <1>4, <1>5, <1>6, <1>7, <1>8, <1>9, <1>10, <1>11, <1>12, <1>13, <1>14, <1>15, <1>16 DEF Act, Sender, Demux, Handler

\* What put_blob wrote for an artifact that was in place before, or is now.
LEMMA HandlerFiles ==
  ASSUME ClientTypes, WireTypes, HandlerTypes, ChanTypes, StoreTypes,
         NEW u \in Uploads, Act(u), StreamInv(u), HandlerInv(u), NEW g \in Formats
  PROVE  /\ (put[u][g] = "todo" => file[u][g] = << >>)'
         /\ (put[u][g] = "ok" => /\ blobs[g] # Absent
                                 /\ g \notin unread => file[u][g] \in {<< >>, Whole(g)})'
<1> USE PublishStreamAssumption DEF HandlerInv, HandlerTypes, client, server, store
<1>1. CASE Begin(u)
  BY <1>1 DEF Begin
<1>2. CASE SendChunk(u)
  BY <1>2 DEF SendChunk
<1>3. CASE EndArtifact(u)
  BY <1>3 DEF EndArtifact, Fault
<1>4. CASE SendFails(u)
  BY <1>4 DEF SendFails
<1>5. CASE Cut(u)
  <2>1. UNCHANGED <<put, blobs, unread>> /\ (Drop(u) \/ UNCHANGED <<chan, file>>)
    BY <1>5 DEF Cut, client, store, Return, Continue
  <2>2. file'[u][g] \in {file[u][g], << >>}
    BY <2>1 DEF Drop, Nothing, ChanTypes
  <2> QED
    BY <2>1, <2>2
<1>6. CASE Forward(u)
  BY <1>6 DEF Forward, Over
<1>7. CASE DemuxEnd(u)
  BY <1>7 DEF DemuxEnd, Over
<1>8. CASE TakeMeta(u)
  BY <1>8 DEF TakeMeta, At, Goto
<1>9. CASE HasLayer(u)
  <2>1. UNCHANGED <<put, blobs, unread>> /\ (Drop(u) \/ UNCHANGED <<chan, file>>)
    BY <1>9 DEF HasLayer, client, store, Return, Continue
  <2>2. file'[u][g] \in {file[u][g], << >>}
    BY <2>1 DEF Drop, Nothing, ChanTypes
  <2> QED
    BY <2>1, <2>2
<1>10. ASSUME NEW f \in Formats, CheckBlob(u, f)
      PROVE  /\ (put[u][g] = "todo" => file[u][g] = << >>)'
             /\ (put[u][g] = "ok" => /\ blobs[g] # Absent
                                     /\ g \notin unread => file[u][g] \in {<< >>, Whole(g)})'
  BY <1>10 DEF CheckBlob, At, SetPut
<1>11. ASSUME NEW f \in Formats, CopyChunk(u, f)
      PROVE  /\ (put[u][g] = "todo" => file[u][g] = << >>)'
             /\ (put[u][g] = "ok" => /\ blobs[g] # Absent
                                     /\ g \notin unread => file[u][g] \in {<< >>, Whole(g)})'
  <2>1. put' = put /\ blobs' = blobs /\ unread' = unread /\ put[u][f] = "copying"
    BY <1>11 DEF CopyChunk
  <2>2. file' = [file EXCEPT ![u] = [file[u] EXCEPT ![f] = Append(file[u][f], chan[u][f][1])]]
    BY <1>11, CopySteps
  <2>3. g # f => file'[u][g] = file[u][g]
    BY <2>2 DEF ChanTypes
  <2> QED
    BY <2>1, <2>3
<1>12. ASSUME NEW f \in Formats, PutFails(u, f)
      PROVE  /\ (put[u][g] = "todo" => file[u][g] = << >>)'
             /\ (put[u][g] = "ok" => /\ blobs[g] # Absent
                                     /\ g \notin unread => file[u][g] \in {<< >>, Whole(g)})'
  BY <1>12 DEF PutFails, At, SetPut, Fault
<1>13. ASSUME NEW f \in Formats, Rename(u, f)
      PROVE  /\ (put[u][g] = "todo" => file[u][g] = << >>)'
             /\ (put[u][g] = "ok" => /\ blobs[g] # Absent
                                     /\ g \notin unread => file[u][g] \in {<< >>, Whole(g)})'
  <2>1. /\ blobs' = [blobs EXCEPT ![f] = file[u][f]] /\ put' = [put EXCEPT ![u][f] = "ok"]
        /\ file' = file /\ unread' = unread /\ put[u][f] = "copying"
    BY <1>13 DEF Rename, SetPut
  <2>2. file[u][f] # Absent
    BY PublishStreamAssumption DEF ChanTypes
  <2>3. CASE g = f
    <3>1. f \notin unread => file[u][f] = Whole(f)
      BY <1>13, RenamesWhole
    <3> QED
      BY <2>1, <2>2, <2>3, <3>1 DEF StoreTypes
  <2>4. CASE g # f
    BY <2>1, <2>4 DEF StoreTypes
  <2> QED
    BY <2>3, <2>4
<1>14. CASE Join(u)
  <2>1. UNCHANGED <<put, blobs, unread>> /\ (Drop(u) \/ UNCHANGED <<chan, file>>)
    BY <1>14 DEF Join, client, store, Return, Continue
  <2>2. file'[u][g] \in {file[u][g], << >>}
    BY <2>1 DEF Drop, Nothing, ChanTypes
  <2> QED
    BY <2>1, <2>2
<1>15. CASE PutLayerMeta(u)
  <2>1. UNCHANGED <<put, blobs, unread>> /\ (Drop(u) \/ UNCHANGED <<chan, file>>)
    BY <1>15 DEF PutLayerMeta, client, store, Return, Continue
  <2>2. file'[u][g] \in {file[u][g], << >>}
    BY <2>1 DEF Drop, Nothing, ChanTypes
  <2> QED
    BY <2>1, <2>2
<1>16. CASE RegisterInputHash(u)
  <2>1. UNCHANGED <<put, blobs, unread>> /\ (Drop(u) \/ UNCHANGED <<chan, file>>)
    BY <1>16 DEF RegisterInputHash, client, store, Return, Continue
  <2>2. file'[u][g] \in {file[u][g], << >>}
    BY <2>1 DEF Drop, Nothing, ChanTypes
  <2> QED
    BY <2>1, <2>2
<1> QED
  BY <1>1, <1>2, <1>3, <1>4, <1>5, <1>6, <1>7, <1>8, <1>9, <1>10, <1>11, <1>12, <1>13, <1>14, <1>15, <1>16 DEF Act, Sender, Demux, Handler

\* All parts of HandlerInv.
LEMMA HandlerStep ==
  ASSUME ClientTypes, WireTypes, HandlerTypes, ChanTypes, StoreTypes,
         NEW u \in Uploads, Act(u), StreamInv(u), HandlerInv(u)
  PROVE  HandlerInv(u)'
BY HandlerPhase, HandlerPuts, HandlerOk, HandlerFiles DEF HandlerInv

\* What is renamed into place is the whole artifact.
LEMMA WholeStep ==
  ASSUME ClientTypes, WireTypes, HandlerTypes, ChanTypes, StoreTypes,
         NEW u \in Uploads, Act(u), StreamInv(u), HandlerInv(u), WholeUnlessUnread
  PROVE  WholeUnlessUnread'
<1> USE PublishStreamAssumption DEF WholeUnlessUnread, client, server, store
<1>1. CASE Begin(u)
  BY <1>1 DEF Begin
<1>2. CASE SendChunk(u)
  BY <1>2 DEF SendChunk
<1>3. CASE EndArtifact(u)
  BY <1>3 DEF EndArtifact, Fault
<1>4. CASE SendFails(u)
  BY <1>4 DEF SendFails
<1>5. CASE Cut(u)
  BY <1>5 DEF Cut, Fault, Over, Drop
<1>6. CASE Forward(u)
  BY <1>6 DEF Forward, Over
<1>7. CASE DemuxEnd(u)
  BY <1>7 DEF DemuxEnd, Over
<1>8. CASE TakeMeta(u)
  BY <1>8 DEF TakeMeta, At, Goto
<1>9. CASE HasLayer(u)
  BY <1>9 DEF HasLayer, At, Goto, Return, Continue, Drop
<1>10. ASSUME NEW f \in Formats, CheckBlob(u, f)
      PROVE  WholeUnlessUnread'
  BY <1>10 DEF CheckBlob, At, SetPut
<1>11. ASSUME NEW f \in Formats, CopyChunk(u, f)
      PROVE  WholeUnlessUnread'
  BY <1>11 DEF CopyChunk, At
<1>12. ASSUME NEW f \in Formats, PutFails(u, f)
      PROVE  WholeUnlessUnread'
  BY <1>12 DEF PutFails, At, SetPut, Fault
<1>13. ASSUME NEW f \in Formats, Rename(u, f)
      PROVE  WholeUnlessUnread'
  <2>1. blobs' = [blobs EXCEPT ![f] = file[u][f]] /\ UNCHANGED <<unread, layer, index>>
    BY <1>13 DEF Rename, client
  <2>2. file[u][f] # Absent /\ (f \notin unread => file[u][f] = Whole(f))
    <3>1. file[u][f] # Absent
      BY PublishStreamAssumption DEF ChanTypes
    <3>2. f \notin unread => file[u][f] = Whole(f)
      BY <1>13, RenamesWhole
    <3> QED
      BY <3>1, <3>2
  <2> QED
    BY <2>1, <2>2 DEF StoreTypes
<1>14. CASE Join(u)
  BY <1>14 DEF Join, At, Goto, Return, Continue, Drop
<1>15. CASE PutLayerMeta(u)
  BY <1>15 DEF PutLayerMeta, At, Goto, Return, Continue, Drop, Fault, Finalize
<1>16. CASE RegisterInputHash(u)
  BY <1>16 DEF RegisterInputHash, At, Goto, Return, Continue, Drop, Fault
<1> QED
  BY <1>1, <1>2, <1>3, <1>4, <1>5, <1>6, <1>7, <1>8, <1>9, <1>10, <1>11, <1>12, <1>13, <1>14, <1>15, <1>16 DEF Act, Sender, Demux, Handler

\* A registered layer has both artifacts, and each checksum in its metadata is
\* that of the artifact in place, or of nothing: an upload that finds an
\* artifact in place records the checksum of an empty stream for it.
ChecksumKnown ==
    /\ index => layer # Absent
    /\ layer # Absent => \A f \in Formats :
           /\ blobs[f] # Absent
           /\ f \notin unread => layer[f] \in {blobs[f], << >>}

\* The checksums in the metadata are those of what is in place.
LEMMA ChecksumStep ==
  ASSUME ClientTypes, WireTypes, HandlerTypes, ChanTypes, StoreTypes,
         NEW u \in Uploads, Act(u), StreamInv(u), HandlerInv(u), WholeUnlessUnread, ChecksumKnown
  PROVE  ChecksumKnown'
<1> USE PublishStreamAssumption DEF ChecksumKnown, client, server, store
<1>1. CASE Begin(u)
  BY <1>1 DEF Begin
<1>2. CASE SendChunk(u)
  BY <1>2 DEF SendChunk
<1>3. CASE EndArtifact(u)
  BY <1>3 DEF EndArtifact, Fault
<1>4. CASE SendFails(u)
  BY <1>4 DEF SendFails
<1>5. CASE Cut(u)
  BY <1>5 DEF Cut, Fault, Over, Drop
<1>6. CASE Forward(u)
  BY <1>6 DEF Forward, Over
<1>7. CASE DemuxEnd(u)
  BY <1>7 DEF DemuxEnd, Over
<1>8. CASE TakeMeta(u)
  BY <1>8 DEF TakeMeta, At, Goto
<1>9. CASE HasLayer(u)
  BY <1>9 DEF HasLayer, At, Goto, Return, Continue, Drop
<1>10. ASSUME NEW f \in Formats, CheckBlob(u, f)
      PROVE  ChecksumKnown'
  BY <1>10 DEF CheckBlob, At, SetPut
<1>11. ASSUME NEW f \in Formats, CopyChunk(u, f)
      PROVE  ChecksumKnown'
  BY <1>11 DEF CopyChunk, At
<1>12. ASSUME NEW f \in Formats, PutFails(u, f)
      PROVE  ChecksumKnown'
  BY <1>12 DEF PutFails, At, SetPut, Fault
<1>13. ASSUME NEW f \in Formats, Rename(u, f)
      PROVE  ChecksumKnown'
  <2>1. blobs' = [blobs EXCEPT ![f] = file[u][f]] /\ UNCHANGED <<unread, layer, index>>
    BY <1>13 DEF Rename, client
  <2>2. file[u][f] # Absent /\ (f \notin unread => file[u][f] = Whole(f))
    <3>1. file[u][f] # Absent
      BY PublishStreamAssumption DEF ChanTypes
    <3>2. f \notin unread => file[u][f] = Whole(f)
      BY <1>13, RenamesWhole
    <3> QED
      BY <3>1, <3>2
  <2>3. index' => layer' # Absent
    BY <2>1
  <2>4. ASSUME layer' # Absent, NEW g \in Formats
        PROVE  blobs'[g] # Absent /\ (g \notin unread' => layer'[g] \in {blobs'[g], << >>})
    <3>1. CASE g = f
      BY <2>1, <2>2, <2>4, <3>1 DEF WholeUnlessUnread, StoreTypes
    <3>2. CASE g # f
      BY <2>1, <2>4, <3>2 DEF StoreTypes
    <3> QED
      BY <3>1, <3>2
  <2> QED
    BY <2>3, <2>4
<1>14. CASE Join(u)
  BY <1>14 DEF Join, At, Goto, Return, Continue, Drop
<1>15. CASE PutLayerMeta(u)
  <2>1. UNCHANGED <<blobs, index, unread>> /\ (layer' = file[u] \/ layer' = layer) /\ handler[u] = "layer_meta"
    BY <1>15 DEF PutLayerMeta, client, Finalize, At
  <2>2. CASE layer' = layer
    BY <2>1, <2>2
  <2>3. CASE layer' = file[u]
    <3>1. file[u] # Absent
      BY PublishStreamAssumption DEF ChanTypes
    <3>2. \A f \in Formats : blobs[f] # Absent /\ (f \notin unread => file[u][f] \in {<< >>, Whole(f)})
      BY <2>1 DEF HandlerInv
    <3>3. \A f \in Formats : f \notin unread => blobs[f] = Whole(f)
      BY <3>2 DEF WholeUnlessUnread
    <3> QED
      BY <2>1, <2>3, <3>1, <3>2, <3>3
  <2> QED
    BY <2>1, <2>2, <2>3
<1>16. CASE RegisterInputHash(u)
  <2>1. UNCHANGED <<blobs, layer, unread>> /\ handler[u] = "register"
    BY <1>16 DEF RegisterInputHash, client, At
  <2>2. layer # Absent
    BY <2>1 DEF HandlerInv
  <2> QED
    BY <2>1, <2>2
<1> QED
  BY <1>1, <1>2, <1>3, <1>4, <1>5, <1>6, <1>7, <1>8, <1>9, <1>10, <1>11, <1>12, <1>13, <1>14, <1>15, <1>16 DEF Act, Sender, Demux, Handler

\* A step that leaves no fault: the invariant is about the other uploads too.
LEMMA FaultFreeKept ==
  ASSUME WireTypes, HandlerTypes, ClientTypes, ChanTypes, NEW u \in Uploads, Act(u),
         FaultFree, faults = 0, unread' = unread, conn'[u] = "open", handler'[u] # "err",
         \A f \in Formats : put'[u][f] # "err",
         \/ handler'[u] \in {"put", "layer_meta", "register"}
         \/ index'
         \/ /\ blobs' = blobs /\ (index => index')
            /\ handler[u] \notin {"put", "layer_meta", "register"}
  PROVE  FaultFree'
<1>1. \A v \in Uploads \ {u} : conn'[v] = conn[v] /\ handler'[v] = handler[v] /\ put'[v] = put[v]
  BY OthersStay
<1>2. unread' = {}
  BY DEF FaultFree
<1>3. \A v \in Uploads : conn'[v] = "open" /\ handler'[v] # "err" /\ \A f \in Formats : put'[v][f] # "err"
  BY <1>1 DEF FaultFree
<1>4. (\E f \in Formats : blobs'[f] # Absent) =>
          index' \/ \E v \in Uploads : handler'[v] \in {"put", "layer_meta", "register"}
  BY <1>1 DEF FaultFree
<1> QED
  BY <1>2, <1>3, <1>4 DEF FaultFree

\* As long as nothing goes wrong an upload that has begun to store is going on.
LEMMA FaultFreeStep ==
  ASSUME ClientTypes, WireTypes, HandlerTypes, ChanTypes, StoreTypes,
         NEW u \in Uploads, Act(u), HandlerInv(u), FaultFree, faults' = 0
  PROVE  FaultFree'
<1> USE PublishStreamAssumption DEF HandlerTypes, WireTypes, client, server, store
<1>0. faults = 0
  BY DEF StoreTypes, Fault, Act, Begin, Sender, SendChunk, EndArtifact, SendFails, Cut, Demux, Forward, DemuxEnd,
         Handler, TakeMeta, HasLayer, CheckBlob, CopyChunk, PutFails, Rename, Join, PutLayerMeta, RegisterInputHash
<1>00. /\ unread = {} /\ handler[u] # "err" /\ conn[u] = "open" /\ \A f \in Formats : put[u][f] # "err"
  BY <1>0 DEF FaultFree
<1>1. CASE Begin(u)
  <2>1. /\ unread' = unread /\ conn'[u] = "open" /\ handler'[u] # "err" /\ \A g \in Formats : put'[u][g] # "err"
        /\ \/ handler'[u] \in {"put", "layer_meta", "register"}
           \/ index'
           \/ /\ blobs' = blobs /\ (index => index')
              /\ handler[u] \notin {"put", "layer_meta", "register"}
    BY <1>1, <1>0, <1>00 DEF Begin, HandlerInv
  <2> QED
    BY <1>0, <2>1, FaultFreeKept
<1>2. CASE SendChunk(u)
  <2>1. /\ unread' = unread /\ conn'[u] = "open" /\ handler'[u] # "err" /\ \A g \in Formats : put'[u][g] # "err"
        /\ \/ handler'[u] \in {"put", "layer_meta", "register"}
           \/ index'
           \/ /\ blobs' = blobs /\ (index => index')
              /\ handler[u] \notin {"put", "layer_meta", "register"}
    BY <1>2, <1>0, <1>00 DEF SendChunk
  <2> QED
    BY <1>0, <2>1, FaultFreeKept
<1>3. CASE EndArtifact(u)
  <2>1. /\ unread' = unread /\ conn'[u] = "open" /\ handler'[u] # "err" /\ \A g \in Formats : put'[u][g] # "err"
        /\ \/ handler'[u] \in {"put", "layer_meta", "register"}
           \/ index'
           \/ /\ blobs' = blobs /\ (index => index')
              /\ handler[u] \notin {"put", "layer_meta", "register"}
    BY <1>3, <1>0, <1>00 DEF EndArtifact, Fault
  <2> QED
    BY <1>0, <2>1, FaultFreeKept
<1>4. CASE SendFails(u)
  <2>1. /\ unread' = unread /\ conn'[u] = "open" /\ handler'[u] # "err" /\ \A g \in Formats : put'[u][g] # "err"
        /\ \/ handler'[u] \in {"put", "layer_meta", "register"}
           \/ index'
           \/ /\ blobs' = blobs /\ (index => index')
              /\ handler[u] \notin {"put", "layer_meta", "register"}
    BY <1>4, <1>0, <1>00 DEF SendFails
  <2> QED
    BY <1>0, <2>1, FaultFreeKept
<1>5. CASE Cut(u)
  BY <1>5, <1>0 DEF Cut, Fault, StoreTypes
<1>6. CASE Forward(u)
  <2>1. /\ unread' = unread /\ conn'[u] = "open" /\ handler'[u] # "err" /\ \A g \in Formats : put'[u][g] # "err"
        /\ \/ handler'[u] \in {"put", "layer_meta", "register"}
           \/ index'
           \/ /\ blobs' = blobs /\ (index => index')
              /\ handler[u] \notin {"put", "layer_meta", "register"}
    BY <1>6, <1>0, <1>00 DEF Forward, Over
  <2> QED
    BY <1>0, <2>1, FaultFreeKept
<1>7. CASE DemuxEnd(u)
  <2>1. /\ unread' = unread /\ conn'[u] = "open" /\ handler'[u] # "err" /\ \A g \in Formats : put'[u][g] # "err"
        /\ \/ handler'[u] \in {"put", "layer_meta", "register"}
           \/ index'
           \/ /\ blobs' = blobs /\ (index => index')
              /\ handler[u] \notin {"put", "layer_meta", "register"}
    BY <1>7, <1>0, <1>00 DEF DemuxEnd, Over
  <2> QED
    BY <1>0, <2>1, FaultFreeKept
<1>8. CASE TakeMeta(u)
  <2>1. /\ unread' = unread /\ conn'[u] = "open" /\ handler'[u] # "err" /\ \A g \in Formats : put'[u][g] # "err"
        /\ \/ handler'[u] \in {"put", "layer_meta", "register"}
           \/ index'
           \/ /\ blobs' = blobs /\ (index => index')
              /\ handler[u] \notin {"put", "layer_meta", "register"}
    BY <1>8, <1>0, <1>00 DEF TakeMeta, At, Goto
  <2> QED
    BY <1>0, <2>1, FaultFreeKept
<1>9. CASE HasLayer(u)
  <2>1. /\ unread' = unread /\ conn'[u] = "open" /\ handler'[u] # "err" /\ \A g \in Formats : put'[u][g] # "err"
        /\ \/ handler'[u] \in {"put", "layer_meta", "register"}
           \/ index'
           \/ /\ blobs' = blobs /\ (index => index')
              /\ handler[u] \notin {"put", "layer_meta", "register"}
    BY <1>9, <1>0, <1>00 DEF HasLayer, At, Goto, Return, Continue, Drop, Fault
  <2> QED
    BY <1>0, <2>1, FaultFreeKept
<1>10. ASSUME NEW f \in Formats, CheckBlob(u, f)
      PROVE  FaultFree'
  <2>1. /\ unread' = unread /\ conn'[u] = "open" /\ handler'[u] # "err" /\ \A g \in Formats : put'[u][g] # "err"
        /\ \/ handler'[u] \in {"put", "layer_meta", "register"}
           \/ index'
           \/ /\ blobs' = blobs /\ (index => index')
              /\ handler[u] \notin {"put", "layer_meta", "register"}
    BY <1>10, <1>0, <1>00 DEF CheckBlob, At, SetPut
  <2> QED
    BY <1>0, <2>1, FaultFreeKept
<1>11. ASSUME NEW f \in Formats, CopyChunk(u, f)
      PROVE  FaultFree'
  <2>1. /\ unread' = unread /\ conn'[u] = "open" /\ handler'[u] # "err" /\ \A g \in Formats : put'[u][g] # "err"
        /\ \/ handler'[u] \in {"put", "layer_meta", "register"}
           \/ index'
           \/ /\ blobs' = blobs /\ (index => index')
              /\ handler[u] \notin {"put", "layer_meta", "register"}
    BY <1>11, <1>0, <1>00 DEF CopyChunk, At
  <2> QED
    BY <1>0, <2>1, FaultFreeKept
<1>12. ASSUME NEW f \in Formats, PutFails(u, f)
      PROVE  FaultFree'
  BY <1>12, <1>0 DEF PutFails, Fault, StoreTypes
<1>13. ASSUME NEW f \in Formats, Rename(u, f)
      PROVE  FaultFree'
  <2>1. /\ unread' = unread /\ conn'[u] = "open" /\ handler'[u] # "err" /\ \A g \in Formats : put'[u][g] # "err"
        /\ \/ handler'[u] \in {"put", "layer_meta", "register"}
           \/ index'
           \/ /\ blobs' = blobs /\ (index => index')
              /\ handler[u] \notin {"put", "layer_meta", "register"}
    BY <1>13, <1>0, <1>00 DEF Rename, At, SetPut
  <2> QED
    BY <1>0, <2>1, FaultFreeKept
<1>14. CASE Join(u)
  <2>1. /\ unread' = unread /\ conn'[u] = "open" /\ handler'[u] # "err" /\ \A g \in Formats : put'[u][g] # "err"
        /\ \/ handler'[u] \in {"put", "layer_meta", "register"}
           \/ index'
           \/ /\ blobs' = blobs /\ (index => index')
              /\ handler[u] \notin {"put", "layer_meta", "register"}
    BY <1>14, <1>0, <1>00 DEF Join, At, Goto, Return, Continue, Drop
  <2> QED
    BY <1>0, <2>1, FaultFreeKept
<1>15. CASE PutLayerMeta(u)
  <2>1. /\ unread' = unread /\ conn'[u] = "open" /\ handler'[u] # "err" /\ \A g \in Formats : put'[u][g] # "err"
        /\ \/ handler'[u] \in {"put", "layer_meta", "register"}
           \/ index'
           \/ /\ blobs' = blobs /\ (index => index')
              /\ handler[u] \notin {"put", "layer_meta", "register"}
    BY <1>15, <1>0, <1>00 DEF PutLayerMeta, At, Goto, Return, Continue, Drop, Fault, Finalize
  <2> QED
    BY <1>0, <2>1, FaultFreeKept
<1>16. CASE RegisterInputHash(u)
  <2>1. /\ unread' = unread /\ conn'[u] = "open" /\ handler'[u] # "err" /\ \A g \in Formats : put'[u][g] # "err"
        /\ \/ handler'[u] \in {"put", "layer_meta", "register"}
           \/ index'
           \/ /\ blobs' = blobs /\ (index => index')
              /\ handler[u] \notin {"put", "layer_meta", "register"}
    BY <1>16, <1>0, <1>00 DEF RegisterInputHash, At, Goto, Return, Continue, Drop, Fault
  <2> QED
    BY <1>0, <2>1, FaultFreeKept
<1> QED
  BY <1>1, <1>2, <1>3, <1>4, <1>5, <1>6, <1>7, <1>8, <1>9, <1>10, <1>11, <1>12, <1>13, <1>14, <1>15, <1>16 DEF Act, Sender, Demux, Handler

-----------------------------------------------------------------------------
(* The theorems.                                                           *)

\* The inductive invariant.
UploadInv ==
    /\ ClientTypes /\ WireTypes /\ HandlerTypes /\ ChanTypes /\ StoreTypes
    /\ \A u \in Uploads : StreamInv(u) /\ HandlerInv(u)
    /\ WholeUnlessUnread
    /\ ChecksumKnown
    /\ FaultFree

\* TypeOK, part by part.
LEMMA TypeParts == TypeOK <=> ClientTypes /\ WireTypes /\ HandlerTypes /\ ChanTypes /\ StoreTypes
BY DEF TypeOK, ClientTypes, WireTypes, HandlerTypes, ChanTypes, StoreTypes

\* The initial state: nobody has called.
LEMMA UploadInit == Init => UploadInv
<1> SUFFICES ASSUME Init PROVE UploadInv
  OBVIOUS
<1>0. /\ \A f \in Formats : Nothing[f] = << >>
      /\ Nothing \in [Formats -> Seq(Formats \X Nat)]
      /\ Len(<< >>) = 0
  BY DEF Nothing
<1>1. ClientTypes
  BY DEF Init, ClientTypes
<1>2. WireTypes
  <2>1. << >> \in Seq((Formats \cup {"meta"}) \X Nat) /\ 0 <= WireCap
    BY PublishStreamAssumption
  <2> QED
    BY <1>0, <2>1 DEF Init, WireTypes
<1>3. HandlerTypes
  BY DEF Init, HandlerTypes, Handlers
<1>4. ChanTypes
  <2>1. 0 <= ChanCap
    BY PublishStreamAssumption
  <2> QED
    BY <1>0, <2>1 DEF Init, ChanTypes
<1>5. StoreTypes
  <2>1. 0 \in 0 .. MaxFaults
    BY PublishStreamAssumption
  <2>2. index \in BOOLEAN
    BY DEF Init
  <2> QED
    BY <2>1, <2>2 DEF Init, StoreTypes
<1>6. ASSUME NEW u \in Uploads PROVE StreamInv(u)
  <2>1. /\ wire[u] = << >> /\ file[u] = Nothing /\ chan[u] = Nothing /\ sending[u] = "idle"
        /\ handler[u] = "idle" /\ demux[u] = "idle" /\ sent[u] = 0
    BY DEF Init
  <2>2. (\A k \in 1 .. Len(<< >>) : FALSE) /\ \A k \in 1 .. Len(<< >>) - 1 : FALSE
    OBVIOUS
  <2>3. \A f \in Formats : Prefix(u, f)
    BY <1>0, <2>1, <2>2 DEF Prefix
  <2>4. Framed(u)
    BY <2>1, <2>2 DEF Framed, At
  <2>5. InOrder(u)
    BY <2>1, <2>2, FormatsAre DEF InOrder
  <2>6. Complete(u)
    BY <2>1 DEF Complete, Finished
  <2> QED
    BY <2>3, <2>4, <2>5, <2>6 DEF StreamInv
<1>7. ASSUME NEW u \in Uploads PROVE HandlerInv(u)
  BY <1>0, FormatsAre DEF Init, HandlerInv
<1>8. WholeUnlessUnread /\ ChecksumKnown
  BY DEF Init, WholeUnlessUnread, ChecksumKnown
<1>9. FaultFree
  BY DEF Init, FaultFree
<1> QED
  BY <1>1, <1>2, <1>3, <1>4, <1>5, <1>6, <1>7, <1>8, <1>9 DEF UploadInv

\* A step of one upload.
LEMMA UploadStep == UploadInv /\ [Next]_vars => UploadInv'
<1>1. ASSUME UploadInv, Next PROVE UploadInv'
  <2>1. PICK u \in Uploads : Act(u)
    BY <1>1 DEF Next, Act
  <2>2. /\ ClientTypes /\ WireTypes /\ HandlerTypes /\ ChanTypes /\ StoreTypes
        /\ \A v \in Uploads : StreamInv(v) /\ HandlerInv(v)
        /\ WholeUnlessUnread /\ ChecksumKnown /\ FaultFree
    BY <1>1 DEF UploadInv
  <2>3. Framed(u)
    BY <2>2 DEF StreamInv
  <2>4. ClientTypes' /\ WireTypes' /\ HandlerTypes' /\ ChanTypes' /\ StoreTypes'
    BY <2>1, <2>2, <2>3, ClientTyped, WireTyped, HandlerTyped, ChanTyped, StoreTyped
  <2>5. ASSUME NEW v \in Uploads PROVE StreamInv(v)' /\ HandlerInv(v)'
    <3>1. CASE v = u
      BY <2>1, <2>2, <3>1, StreamStep, HandlerStep
    <3>2. CASE v # u
      BY <2>1, <2>2, <3>2, StreamOther, HandlerOther
    <3> QED
      BY <3>1, <3>2
  <2>6. WholeUnlessUnread' /\ ChecksumKnown'
    BY <2>1, <2>2, WholeStep, ChecksumStep
  <2>7. FaultFree'
    <3>1. CASE faults' = 0
      BY <2>1, <2>2, <3>1, FaultFreeStep
    <3>2. CASE faults' # 0
      BY <3>2 DEF FaultFree
    <3> QED
      BY <3>1, <3>2
  <2> QED
    BY <2>4, <2>5, <2>6, <2>7 DEF UploadInv
<1>2. ASSUME UploadInv, UNCHANGED vars PROVE UploadInv'
  <2>1. ClientTypes' /\ WireTypes' /\ HandlerTypes' /\ ChanTypes' /\ StoreTypes'
    BY <1>2 DEF UploadInv, vars, client, server, store, ClientTypes, WireTypes, HandlerTypes, ChanTypes, StoreTypes
  <2>2. ASSUME NEW u \in Uploads PROVE StreamInv(u)'
    <3>1. UNCHANGED <<sending, sent, unread, wire, conn, demux, chan, file, handler>> /\ StreamInv(u)
      BY <1>2 DEF UploadInv, vars, client, server
    <3>2. \A f \in Formats : Prefix(u, f)'
      BY <3>1 DEF StreamInv, Prefix
    <3>3. Framed(u)'
      BY <3>1 DEF StreamInv, Framed, At
    <3>4. InOrder(u) => InOrder(u)'
      BY <3>1 DEF InOrder, Received
    <3>5. Complete(u) => Complete(u)'
      BY <3>1 DEF Complete, Received, Finished
    <3>6. Over(u)' => Over(u)
      BY <3>1 DEF Over
    <3>7. Over(u) => Over(u)'
      BY <3>1 DEF Over
    <3> QED
      BY <3>1, <3>2, <3>3, <3>4, <3>5, <3>7 DEF StreamInv
  <2>3. ASSUME NEW u \in Uploads PROVE HandlerInv(u)'
    BY <1>2 DEF UploadInv, vars, client, server, store, HandlerInv
  <2>4. WholeUnlessUnread' /\ ChecksumKnown'
    BY <1>2 DEF UploadInv, vars, client, server, store, WholeUnlessUnread, ChecksumKnown
  <2>5. FaultFree'
    BY <1>2 DEF UploadInv, vars, client, server, store, FaultFree
  <2> QED
    BY <2>1, <2>2, <2>3, <2>4, <2>5 DEF UploadInv
<1> QED
  BY <1>1, <1>2

\* So the invariant always holds.
LEMMA UploadInvariant == Spec => []UploadInv
BY UploadInit, UploadStep, PTL DEF Spec

\* Neither the wire nor a channel holds more than its capacity, and every
\* variable has its type.
THEOREM TypeCorrect == Spec => []TypeOK
<1>1. UploadInv => TypeOK
  BY TypeParts DEF UploadInv
<1> QED
  BY <1>1, UploadInvariant, PTL

\* An artifact in the store is the whole artifact, in order, whatever the tasks,
\* the faults and the other uploads did, unless a client could not read it.
THEOREM ArtifactsAreWhole == Spec => []WholeUnlessUnread
<1>1. UploadInv => WholeUnlessUnread
  BY DEF UploadInv
<1> QED
  BY <1>1, UploadInvariant, PTL

\* An Ok for a layer that another upload was storing comes true when that upload
\* ends, if nothing went wrong.
THEOREM OkIsTrue == Spec => []OkMeansPublished
<1>1. UploadInv => OkMeansPublished
  <2> SUFFICES ASSUME UploadInv, NEW u \in Uploads, handler[u] = "ok", faults = 0,
                      \A v \in Uploads : handler[v] = "idle" \/ Over(v)
               PROVE  index /\ layer # Absent /\ \A f \in Formats : blobs[f] # Absent
    BY DEF OkMeansPublished
  <2>1. blobs["deploy"] # Absent /\ "deploy" \in Formats
    BY FormatsAre DEF UploadInv, HandlerInv
  <2>2. \A v \in Uploads : handler[v] \notin {"put", "layer_meta", "register"}
    BY DEF UploadInv, FaultFree, Over
  <2>3. index
    BY <2>1, <2>2 DEF UploadInv, FaultFree
  <2> QED
    BY <2>3 DEF UploadInv, ChecksumKnown
<1> QED
  BY <1>1, UploadInvariant, PTL

-----------------------------------------------------------------------------
(* Every step is a step of LayerStore's publish_layer, or none.            *)

\* What StorePc makes of a step of the handler.
PcOf(h) ==
    IF h \in {"idle", "first"} THEN "has_layer"
    ELSE IF h = "ok" THEN "manifest"
    ELSE IF h = "err" THEN "failed"
    ELSE h

\* The layers in place and the results of the calls, as LayerStore sees them.
ObjectsOf == {<<"layer", f>> : f \in {g \in Formats : blobs[g] # Absent}}
GotOf     == [u \in Uploads |-> IF handler[u] = "ok" THEN <<"layer">> ELSE << >>]

\* The mapping, for this state and the next.
LEMMA PcFacts ==
  /\ StorePc = [u \in Uploads |-> PcOf(handler[u])]
  /\ StorePc' = [u \in Uploads |-> PcOf(handler'[u])]
  /\ \A f \in Formats : <<"layer", f>> \in ObjectsOf <=> blobs[f] # Absent
<1>1. ASSUME NEW h
      PROVE  (CASE h \in {"idle", "first"} -> "has_layer"
                [] h = "ok"  -> "manifest"
                [] h = "err" -> "failed"
                [] OTHER -> h) = PcOf(h)
  <2>1. CASE h \in {"idle", "first"}
    BY <2>1, Zenon DEF PcOf
  <2>2. CASE h = "ok"
    BY <2>2, Zenon DEF PcOf
  <2>3. CASE h = "err"
    BY <2>3, Zenon DEF PcOf
  <2>4. CASE h \notin {"idle", "first", "ok", "err"}
    BY <2>4, Zenon DEF PcOf
  <2> QED
    BY <2>1, <2>2, <2>3, <2>4
<1>2. StorePc = [u \in Uploads |-> PcOf(handler[u])]
  BY <1>1, Zenon DEF StorePc
<1>3. StorePc' = [u \in Uploads |-> PcOf(handler'[u])]
  BY <1>1, Zenon DEF StorePc
<1>4. \A f \in Formats : <<"layer", f>> \in ObjectsOf <=> blobs[f] # Absent
  BY DEF ObjectsOf
<1> QED
  BY <1>2, <1>3, <1>4

\* The handler goes from one step to another.
LEMMA PcMoves ==
  ASSUME HandlerTypes, NEW u \in Uploads, NEW h, Goto(u, h)
  PROVE  StorePc' = [StorePc EXCEPT ![u] = PcOf(h)]
<1>1. handler' = [handler EXCEPT ![u] = h] /\ handler \in [Uploads -> Handlers]
  BY DEF Goto, HandlerTypes
<1>2. \A v \in Uploads : handler'[v] = IF v = u THEN h ELSE handler[v]
  BY <1>1
<1>3. StorePc = [v \in Uploads |-> PcOf(handler[v])] /\ StorePc' = [v \in Uploads |-> PcOf(handler'[v])]
  BY PcFacts
<1> QED
  BY <1>2, <1>3

\* Only an answer of Ok adds to what an upload has got.
LEMMA GotMoves ==
  ASSUME HandlerTypes, NEW u \in Uploads, NEW h, Goto(u, h), handler[u] # "ok"
  PROVE  /\ GotOf[u] = << >>
         /\ h # "ok" => GotOf' = GotOf
         /\ h = "ok" => GotOf' = [GotOf EXCEPT ![u] = <<"layer">>]
<1>1. handler' = [handler EXCEPT ![u] = h] /\ handler \in [Uploads -> Handlers]
  BY DEF Goto, HandlerTypes
<1>2. \A v \in Uploads : handler'[v] = IF v = u THEN h ELSE handler[v]
  BY <1>1
<1> QED
  BY <1>2 DEF GotOf

\* The stage of an upload that is under way.
LEMMA StageIs ==
  ASSUME NEW u \in Uploads, handler[u] # "ok"
  PROVE  Stored!Stage(u) = [input |-> "input", content |-> "layer"]
BY DEF Stored!Stage

\* A step that changes neither the store nor the put_blobs.
LEMMA Stutters ==
  ASSUME UNCHANGED <<blobs, layer, index, put>>, StorePc' = StorePc, GotOf' = GotOf
  PROVE  UNCHANGED Stored!vars
BY DEF Stored!vars, Stored!files, Stored!runs, GotOf

\* Ok is the end of the only stage.
LEMMA Advances ==
  ASSUME HandlerTypes, NEW u \in Uploads, Goto(u, "ok"), handler[u] # "ok"
  PROVE  Stored!Advance(u, Stored!Stage(u).content)
<1> DEFINE plan == [v \in Uploads |-> <<[input |-> "input", content |-> "layer"]>>]
<1>1. GotOf[u] = << >> /\ GotOf' = [GotOf EXCEPT ![u] = <<"layer">>]
  BY GotMoves
<1>2. StorePc' = [StorePc EXCEPT ![u] = "manifest"]
  BY PcMoves DEF PcOf
<1>3. Append(GotOf[u], "layer") = <<"layer">>
  BY <1>1
<1>4. GotOf' = [GotOf EXCEPT ![u] = Append(@, "layer")]
  BY <1>1, <1>3 DEF GotOf
<1>5. ~(Len(GotOf[u]) + 1 < Len(plan[u]))
  <2>1. Len(GotOf[u]) = 0 /\ Len(plan[u]) = 1
    BY <1>1
  <2> QED
    BY <2>1
<1>6. Stored!Goto(u, IF Len(GotOf[u]) + 1 < Len(plan[u]) THEN "resolve" ELSE "manifest")
  BY <1>2, <1>5 DEF Stored!Goto
<1>7. Stored!Stage(u).content = "layer"
  BY StageIs
<1> QED
  BY <1>4, <1>6, <1>7, Zenon DEF Stored!Advance, GotOf

\* has_layer.
LEMMA MapHasLayer ==
  ASSUME HandlerTypes, NEW u \in Uploads, HasLayer(u), HandlerInv(u)
  PROVE  Stored!HasLayer(u)
<1>1. handler[u] = "has_layer" /\ UNCHANGED <<blobs, layer, index, put>>
      /\ (\A f \in Formats : put[u][f] = "todo")
  BY DEF HasLayer, At, store, HandlerInv
<1>2. StorePc[u] = "has_layer"
  BY <1>1, PcFacts DEF PcOf
<1>4. put = [put EXCEPT ![u] = [f \in Formats |-> "todo"]]
  BY <1>1 DEF HandlerTypes
<1>5. <<"layer", "deploy">> \in ObjectsOf <=> blobs["deploy"] # Absent
  BY PcFacts, FormatsAre
<1>6. Stored!Stage(u).content = "layer"
  BY <1>1, StageIs
<1>7. UNCHANGED Stored!files
  BY <1>1 DEF Stored!files
<1>8. CASE blobs["deploy"] # Absent /\ Goto(u, "ok")
  <2>1. Stored!Advance(u, Stored!Stage(u).content)
    BY <1>1, <1>8, Advances
  <2>2. <<Stored!Stage(u).content, "deploy">> \in ObjectsOf
    BY <1>5, <1>6, <1>8
  <2> QED
    BY <1>1, <1>2, <1>7, <2>1, <2>2, Zenon DEF Stored!HasLayer, ObjectsOf
<1>9. CASE blobs["deploy"] = Absent /\ Goto(u, "put")
  <2>1. StorePc' = [StorePc EXCEPT ![u] = "put"]
    BY <1>1, <1>9, PcMoves DEF PcOf
  <2>2. GotOf' = GotOf
    BY <1>1, <1>9, GotMoves
  <2> QED
    BY <1>1, <1>2, <1>4, <1>5, <1>6, <1>9, <2>1, <2>2
     DEF Stored!HasLayer, Stored!Goto, Stored!files, Stored!Formats, GotOf, ObjectsOf, Formats
<1>10. CASE Goto(u, "err")
  <2>1. StorePc' = [StorePc EXCEPT ![u] = "failed"]
    BY <1>1, <1>10, PcMoves DEF PcOf
  <2>2. GotOf' = GotOf
    BY <1>1, <1>10, GotMoves
  <2> QED
    BY <1>1, <1>2, <1>7, <2>1, <2>2 DEF Stored!HasLayer, Stored!Fail, Stored!Goto, GotOf
<1> QED
  BY <1>8, <1>9, <1>10 DEF HasLayer, Return, Continue

\* put_blob up to the copy.
LEMMA MapCheckBlob ==
  ASSUME HandlerTypes, NEW u \in Uploads, NEW f \in Formats, CheckBlob(u, f)
  PROVE  Stored!CheckBlob(u, f)
<1>1. handler[u] = "put" /\ put[u][f] = "todo"
      /\ put' = [put EXCEPT ![u][f] = IF blobs[f] # Absent THEN "ok" ELSE "copying"]
      /\ UNCHANGED <<handler, blobs, layer, index>>
  BY DEF CheckBlob, At, SetPut, store
<1>2. StorePc[u] = "put" /\ StorePc' = StorePc
  BY <1>1, PcFacts DEF PcOf
<1>3. <<"layer", f>> \in ObjectsOf <=> blobs[f] # Absent
  BY PcFacts
<1>4. Stored!Stage(u).content = "layer"
  BY <1>1, StageIs
<1> QED
  BY <1>1, <1>2, <1>3, <1>4 DEF Stored!CheckBlob, Stored!files, ObjectsOf

\* The rename is the step in which the artifact appears.
LEMMA MapRename ==
  ASSUME HandlerTypes, ChanTypes, StoreTypes, NEW u \in Uploads, NEW f \in Formats, Rename(u, f)
  PROVE  Stored!RenameBlob(u, f)
<1>1. handler[u] = "put" /\ put[u][f] = "copying" /\ put' = [put EXCEPT ![u][f] = "ok"]
      /\ blobs' = [blobs EXCEPT ![f] = file[u][f]] /\ UNCHANGED <<handler, layer, index>>
  BY DEF Rename, At, SetPut
<1>2. StorePc[u] = "put" /\ StorePc' = StorePc
  BY <1>1, PcFacts DEF PcOf
<1>3. file[u][f] # Absent
  BY PublishStreamAssumption DEF ChanTypes
<1>4. ObjectsOf' = ObjectsOf \cup {<<"layer", f>>}
  <2>1. \A g \in Formats : blobs'[g] # Absent <=> g = f \/ blobs[g] # Absent
    BY <1>1, <1>3 DEF StoreTypes
  <2> QED
    BY <2>1 DEF ObjectsOf
<1>5. Stored!Stage(u).content = "layer"
  BY <1>1, StageIs
<1>6. ObjectsOf' = ObjectsOf \cup {<<Stored!Stage(u).content, f>>}
  BY <1>4, <1>5
<1> QED
  BY <1>1, <1>2, <1>6 DEF Stored!RenameBlob, ObjectsOf

\* put_blob fails.
LEMMA MapPutFails ==
  ASSUME HandlerTypes, NEW u \in Uploads, NEW f \in Formats, PutFails(u, f)
  PROVE  Stored!RenameBlob(u, f)
<1>1. handler[u] = "put" /\ put[u][f] = "copying" /\ put' = [put EXCEPT ![u][f] = "err"]
      /\ UNCHANGED <<handler, blobs, layer, index>>
  BY DEF PutFails, At, SetPut, store
<1>2. StorePc[u] = "put" /\ StorePc' = StorePc
  BY <1>1, PcFacts DEF PcOf
<1> QED
  BY <1>1, <1>2 DEF Stored!RenameBlob

\* The results are joined.
LEMMA MapJoin ==
  ASSUME HandlerTypes, NEW u \in Uploads, Join(u)
  PROVE  Stored!JoinBlobs(u)
<1> DEFINE h == IF \E f \in Formats : put[u][f] = "err" THEN "err" ELSE "layer_meta"
<1>1. handler[u] = "put" /\ (\A f \in Formats : put[u][f] \in {"ok", "err"})
      /\ UNCHANGED <<put, blobs, layer, index>>
  BY DEF Join, At, store
<1>2. Goto(u, h) /\ h \in {"err", "layer_meta"} /\ h # "ok"
  BY DEF Join, Return, Continue
<1>3. GotOf' = GotOf
  BY <1>1, <1>2, GotMoves
<1>4. StorePc[u] = "put" /\ StorePc' = [StorePc EXCEPT ![u] = PcOf(h)]
  BY <1>1, <1>2, PcFacts, PcMoves DEF PcOf
<1>5. PcOf(h) = IF \E f \in Formats : put[u][f] = "err" THEN "failed" ELSE "layer_meta"
  BY DEF PcOf
<1> HIDE DEF h
<1> QED
  BY <1>1, <1>3, <1>4, <1>5
     DEF Stored!JoinBlobs, Stored!Fail, Stored!Goto, Stored!files, Stored!Formats, GotOf, Formats

\* The metadata.
LEMMA MapPutLayerMeta ==
  ASSUME HandlerTypes, ChanTypes, NEW u \in Uploads, PutLayerMeta(u)
  PROVE  Stored!PutLayerMeta(u)
<1>1. handler[u] = "layer_meta" /\ UNCHANGED <<put, blobs, index>>
  BY DEF PutLayerMeta, At
<1>2. StorePc[u] = "layer_meta" /\ Stored!Stage(u) = [input |-> "input", content |-> "layer"]
  BY <1>1, PcFacts, StageIs DEF PcOf
<1>3. CASE layer' = file[u] /\ Goto(u, "register")
  <2>1. GotOf' = GotOf /\ StorePc' = [StorePc EXCEPT ![u] = "register"]
    BY <1>1, <1>3, GotMoves, PcMoves DEF PcOf
  <2>2. file[u] # Absent
    BY PublishStreamAssumption DEF ChanTypes
  <2> QED
    BY <1>1, <1>2, <1>3, <2>1, <2>2 DEF Stored!PutLayerMeta, Stored!Goto, GotOf
<1>4. CASE layer' = layer /\ Goto(u, "err")
  <2>1. GotOf' = GotOf /\ StorePc' = [StorePc EXCEPT ![u] = "failed"]
    BY <1>1, <1>4, GotMoves, PcMoves DEF PcOf
  <2> QED
    BY <1>1, <1>2, <1>4, <2>1 DEF Stored!PutLayerMeta, Stored!Fail, Stored!Goto, GotOf
<1> QED
  BY <1>3, <1>4 DEF PutLayerMeta, Return, Continue, Finalize

\* register_input_hash.
LEMMA MapRegister ==
  ASSUME HandlerTypes, NEW u \in Uploads, RegisterInputHash(u)
  PROVE  Stored!RegisterInputHash(u)
<1>1. handler[u] = "register" /\ UNCHANGED <<put, blobs, layer>>
  BY DEF RegisterInputHash, At
<1>2. StorePc[u] = "register" /\ Stored!Stage(u) = [input |-> "input", content |-> "layer"]
  BY <1>1, PcFacts, StageIs DEF PcOf
<1>3. CASE index' = TRUE /\ Goto(u, "ok")
  <2>1. Stored!Advance(u, Stored!Stage(u).content)
    BY <1>1, <1>3, Advances
  <2>2. Stored!Stage(u).content = "layer" /\ Stored!Stage(u).input = "input"
    BY <1>2
  <2> QED
    BY <1>1, <1>2, <1>3, <2>1, <2>2 DEF Stored!RegisterInputHash
<1>4. CASE index' = index /\ Goto(u, "err")
  <2>1. GotOf' = GotOf /\ StorePc' = [StorePc EXCEPT ![u] = "failed"]
    BY <1>1, <1>4, GotMoves, PcMoves DEF PcOf
  <2> QED
    BY <1>1, <1>2, <1>4, <2>1 DEF Stored!RegisterInputHash, Stored!Fail, Stored!Goto, GotOf
<1> QED
  BY <1>3, <1>4 DEF RegisterInputHash, Return

\* Whatever an upload does.
LEMMA Refines ==
  ASSUME UploadInv, Next
  PROVE  Stored!Next \/ UNCHANGED Stored!vars
<1>1. PICK u \in Uploads : Act(u)
  BY DEF Next, Act
<1>2. HandlerTypes /\ ChanTypes /\ StoreTypes /\ HandlerInv(u)
  BY DEF UploadInv
<1>3. CASE HasLayer(u)
  BY <1>2, <1>3, MapHasLayer DEF Stored!Next, Stored!Build
<1>4. ASSUME NEW f \in Formats, CheckBlob(u, f) \/ Rename(u, f) \/ PutFails(u, f)
      PROVE  Stored!Next
  <2>1. f \in Stored!Formats
    BY DEF Stored!Formats, Formats
  <2> QED
    BY <1>2, <1>4, <2>1, MapCheckBlob, MapRename, MapPutFails DEF Stored!Next, Stored!Build
<1>5. CASE Join(u)
  BY <1>2, <1>5, MapJoin DEF Stored!Next, Stored!Build
<1>6. CASE PutLayerMeta(u)
  BY <1>2, <1>6, MapPutLayerMeta DEF Stored!Next, Stored!Build
<1>7. CASE RegisterInputHash(u)
  BY <1>2, <1>7, MapRegister DEF Stored!Next, Stored!Build
<1>8. CASE \/ SendChunk(u) \/ EndArtifact(u) \/ SendFails(u) \/ Cut(u) \/ Forward(u) \/ DemuxEnd(u)
           \/ \E f \in Formats : CopyChunk(u, f)
  <2>1. UNCHANGED <<handler, blobs, layer, index, put>>
    BY <1>8 DEF SendChunk, EndArtifact, SendFails, Cut, Forward, DemuxEnd, CopyChunk, server, store
  <2>2. StorePc' = StorePc /\ GotOf' = GotOf
    BY <2>1, PcFacts DEF GotOf
  <2> QED
    BY <2>1, <2>2, Stutters
<1>9. CASE Begin(u) \/ TakeMeta(u)
  <2>1. UNCHANGED <<blobs, layer, index, put>>
    BY <1>9 DEF Begin, TakeMeta, store
  <2>2. \/ handler[u] = "idle" /\ Goto(u, "first")
        \/ handler[u] = "first" /\ Goto(u, "has_layer")
    BY <1>2, <1>9 DEF Begin, TakeMeta, At, Goto, HandlerInv
  <2>3. StorePc[u] = "has_layer" /\ StorePc' = [StorePc EXCEPT ![u] = "has_layer"]
    BY <1>2, <2>2, PcFacts, PcMoves DEF PcOf
  <2>4. StorePc' = StorePc
    BY <2>3, PcFacts
  <2>5. GotOf' = GotOf
    BY <1>2, <2>2, GotMoves
  <2> QED
    BY <2>1, <2>4, <2>5, Stutters
<1> QED
  BY <1>1, <1>3, <1>4, <1>5, <1>6, <1>7, <1>8, <1>9 DEF Act, Sender, Demux, Handler

\* The streamed upload implements LayerStore's: an artifact appears at once, when
\* put_blob renames it, and every other effect on the store is one step of
\* publish_layer.
THEOREM ImplementsLayerStore == Spec => ImplementsStore
<1>1. UploadInv /\ [Next]_vars => [Stored!Next]_Stored!vars
  <2>1. ASSUME UploadInv, UNCHANGED vars PROVE UNCHANGED Stored!vars
    <3>1. UNCHANGED <<handler, blobs, layer, index, put>>
      BY <2>1 DEF vars, server, store
    <3>2. StorePc' = StorePc /\ GotOf' = GotOf
      BY <3>1, PcFacts DEF GotOf
    <3> QED
      BY <3>1, <3>2, Stutters
  <2> QED
    BY <2>1, Refines
<1> QED
  BY <1>1, UploadInvariant, PTL DEF Spec, ImplementsStore
==============================================================================

---------------------------- MODULE PublishStream ----------------------------
(***************************************************************************)
(* An upload of one layer: the sender task of GrpcStoreClient              *)
(* (build-system/src/store.rs), the publish_layer handler and its          *)
(* demultiplexer task (fs-storage/src/server.rs), the two bounded channels *)
(* and the two put_blob calls of publish_layer_concurrent that read them.  *)
(* Several clients may upload the same layer, at once or one after the     *)
(* other (a retry).                                                        *)
(*                                                                         *)
(* An artifact f is the sequence of its chunks <<f, 1>> .. <<f, Chunks[f]>>.*)
(* LayerStore has the same upload with each put_blob as two steps;         *)
(* ImplementsStore says that the streams below realise those.              *)
(***************************************************************************)
EXTENDS Naturals, Sequences

CONSTANTS
    Uploads,    \* calls of publish_layer, all for one content hash
    Chunks,     \* Chunks[f]: number of chunks of artifact f
    WireCap,    \* messages between the sender and the demultiplexer
    ChanCap,    \* capacity of each of the server's channels: 32
    Absent,     \* no such file
    Faults,     \* what can go wrong: "read", "cut", "stat", "write"
    MaxFaults   \* how often, in a behaviour

Formats == {"deploy", "cache"}

ASSUME PublishStreamAssumption ==
    /\ Chunks \in [Formats -> Nat]
    /\ WireCap \in Nat \ {0}
    /\ ChanCap \in Nat \ {0}
    /\ Absent \notin Seq(Formats \X Nat)
    /\ Absent \notin [Formats -> Seq(Formats \X Nat)]
    /\ Absent \notin Uploads
    /\ Faults \subseteq {"read", "cut", "stat", "write"}
    /\ MaxFaults \in Nat

VARIABLES
    \* The client.
    sending,   \* sending[u]: the artifact the sender task is at
    sent,      \* sent[u]: how many chunks of it are sent
    unread,    \* artifacts some client could not open, or not read to the end
    \* The call.
    wire,      \* wire[u]: messages sent and not yet taken by the demultiplexer
    conn,      \* conn[u]: "open", or "lost" with the client
    \* The server.
    handler,   \* handler[u]: the next step of the handler
    demux,     \* demux[u]: the demultiplexer task
    chan,      \* chan[u][f]: the channel to the reader of f
    put,       \* put[u][f]: the put_blob of f
    file,      \* file[u][f]: what put_blob has read, hashed and written to tmp/
    faults,    \* how much has gone wrong
    \* The store.
    blobs,     \* blobs[f]: the artifact in place
    layer,     \* the checksums in the layer's metadata
    index      \* whether the layer is registered under its input hash

client == <<sending, sent, unread>>
server == <<handler, demux, chan, put, file>>
store  == <<blobs, layer, index>>
vars   == <<client, wire, conn, server, faults, store>>

\* PublishLayerRequest: the metadata, or chunk k of artifact f.
Meta == <<"meta", 0>>
Chunk(f, k) == <<f, k>>

Nothing  == [f \in Formats |-> << >>]
Whole(f) == [k \in 1 .. Chunks[f] |-> Chunk(f, k)]

Init ==
    /\ sending = [u \in Uploads |-> "idle"]
    /\ sent = [u \in Uploads |-> 0]
    /\ unread = {}
    /\ wire = [u \in Uploads |-> << >>]
    /\ conn = [u \in Uploads |-> "open"]
    /\ handler = [u \in Uploads |-> "idle"]
    /\ demux = [u \in Uploads |-> "idle"]
    /\ chan = [u \in Uploads |-> Nothing]
    /\ put = [u \in Uploads |-> [f \in Formats |-> "todo"]]
    /\ file = [u \in Uploads |-> Nothing]
    /\ faults = 0
    /\ blobs = [f \in Formats |-> Absent]
    /\ layer = Absent
    /\ index = FALSE

\* x goes wrong.
Fault(x) == x \in Faults /\ faults < MaxFaults /\ faults' = faults + 1

\* The handler has returned or its future was dropped, and with it the readers
\* and their ends of the channels.
Over(u) == handler[u] \in {"ok", "err"} \/ conn[u] = "lost"

Drop(u) ==
    /\ chan' = [chan EXCEPT ![u] = Nothing]
    /\ file' = [file EXCEPT ![u] = Nothing]

-----------------------------------------------------------------------------
(* The client: metadata, then the deploy artifact, then the cache artifact.*)

Begin(u) ==
    /\ sending[u] = "idle"
    /\ sending' = [sending EXCEPT ![u] = "deploy"]
    /\ wire' = [wire EXCEPT ![u] = <<Meta>>]
    /\ handler' = [handler EXCEPT ![u] = "first"]
    /\ UNCHANGED <<sent, unread, conn, demux, chan, put, file, store, faults>>

\* Mutant of SendChunk: no back-pressure.
SendChunkUnbounded(u) ==
    /\ sending[u] \in Formats
    /\ sent[u] < Chunks[sending[u]]
    /\ demux[u] # "ended"
    /\ wire' = [wire EXCEPT ![u] = Append(@, Chunk(sending[u], sent[u] + 1))]
    /\ sent' = [sent EXCEPT ![u] = @ + 1]
    /\ UNCHANGED <<sending, unread, conn, server, store, faults>>

\* tx_task.send: waits for room, behind a bounded channel and HTTP/2's window.
SendChunk(u) ==
    /\ sending[u] \in Formats
    /\ sent[u] < Chunks[sending[u]]
    /\ demux[u] # "ended"
    /\ Len(wire[u]) < WireCap
    /\ wire' = [wire EXCEPT ![u] = Append(@, Chunk(sending[u], sent[u] + 1))]
    /\ sent' = [sent EXCEPT ![u] = @ + 1]
    /\ UNCHANGED <<sending, unread, conn, server, store, faults>>

\* The end of the file.  An error of open or read is logged and ends the
\* artifact in the same way; the call goes on.
EndArtifact(u) ==
    /\ sending[u] \in Formats
    /\ \/ sent[u] = Chunks[sending[u]] /\ UNCHANGED <<unread, faults>>
       \/ /\ sent[u] < Chunks[sending[u]]
          /\ Fault("read")
          /\ unread' = unread \cup {sending[u]}
    /\ sending' = [sending EXCEPT ![u] = IF @ = "deploy" THEN "cache" ELSE "closed"]
    /\ sent' = [sent EXCEPT ![u] = 0]
    /\ UNCHANGED <<wire, conn, server, store>>

\* Mutant of SendFails: a failed send is tried again.
SendFailsRetried(u) ==
    /\ sending[u] \in Formats
    /\ demux[u] = "ended"
    /\ UNCHANGED vars

\* tx_task.send fails: the server has dropped the stream.
SendFails(u) ==
    /\ sending[u] \in Formats
    /\ demux[u] = "ended"
    /\ sending' = [sending EXCEPT ![u] = "closed"]
    /\ sent' = [sent EXCEPT ![u] = 0]
    /\ UNCHANGED <<unread, wire, conn, server, store, faults>>

\* The client dies or the connection is lost.  hyper sees the reset when it next
\* polls the handler, and drops the handler's future instead: from the end of a
\* stream to a rename the handler is polled more than once.
Cut(u) ==
    /\ Fault("cut")
    /\ handler[u] # "idle" /\ ~Over(u)
    /\ conn' = [conn EXCEPT ![u] = "lost"]
    /\ sending' = [sending EXCEPT ![u] = "closed"]
    /\ sent' = [sent EXCEPT ![u] = 0]
    /\ wire' = [wire EXCEPT ![u] = << >>]
    /\ Drop(u)
    /\ UNCHANGED <<unread, handler, demux, put, store>>

-----------------------------------------------------------------------------
(* The demultiplexer: stream.message() until it is done or fails.          *)

\* Mutant of Forward: try_send, and a chunk that does not fit is lost.
ForwardOrDrop(u) ==
    /\ demux[u] = "recv"
    /\ wire[u] # << >>
    /\ ~Over(u)
    /\ LET f == Head(wire[u])[1] IN
       chan' = IF Len(chan[u][f]) < ChanCap
               THEN [chan EXCEPT ![u][f] = Append(@, Head(wire[u]))] ELSE chan
    /\ wire' = [wire EXCEPT ![u] = Tail(@)]
    /\ UNCHANGED <<client, conn, handler, demux, put, file, store, faults>>

\* send to the chunk's channel, which waits while that is full.
Forward(u) ==
    /\ demux[u] = "recv"
    /\ wire[u] # << >>
    /\ ~Over(u)
    /\ LET f == Head(wire[u])[1] IN
       /\ Len(chan[u][f]) < ChanCap
       /\ chan' = [chan EXCEPT ![u][f] = Append(@, Head(wire[u]))]
    /\ wire' = [wire EXCEPT ![u] = Tail(@)]
    /\ UNCHANGED <<client, conn, handler, demux, put, file, store, faults>>

\* The end of the stream, an error of the stream, or a send to a dropped
\* receiver: the task ends, and the readers that are left find the end of file.
DemuxEnd(u) ==
    /\ demux[u] = "recv"
    /\ \/ wire[u] = << >> /\ sending[u] = "closed"
       \/ wire[u] # << >> /\ Over(u)
    /\ demux' = [demux EXCEPT ![u] = "ended"]
    /\ wire' = [wire EXCEPT ![u] = << >>]
    /\ UNCHANGED <<client, conn, handler, chan, put, file, store, faults>>

-----------------------------------------------------------------------------
(* The handler.                                                            *)

At(u, h)   == handler[u] = h /\ conn[u] = "open"
Goto(u, h) == handler' = [handler EXCEPT ![u] = h]

Return(u, h)   == Goto(u, h) /\ Drop(u)
Continue(u, h) == Goto(u, h) /\ UNCHANGED <<chan, file>>

\* The first message is the metadata; then the demultiplexer is spawned.
TakeMeta(u) ==
    /\ At(u, "first")
    /\ wire' = [wire EXCEPT ![u] = Tail(@)]
    /\ demux' = [demux EXCEPT ![u] = "recv"]
    /\ Goto(u, "has_layer")
    /\ UNCHANGED <<client, conn, chan, put, file, store, faults>>

\* has_layer looks for the deploy artifact; any error of it but NotFound is
\* returned.
HasLayer(u) ==
    /\ At(u, "has_layer")
    /\ \/ /\ IF blobs["deploy"] # Absent THEN Return(u, "ok") ELSE Continue(u, "put")
          /\ UNCHANGED faults
       \/ Fault("stat") /\ Return(u, "err")
    /\ UNCHANGED <<client, wire, conn, demux, put, store>>

\* HashingReader: the checksums of what the readers have read, of nothing if
\* put_blob did not read.
Finalize(u) == file[u]

SetPut(u, f, s) == put' = [put EXCEPT ![u][f] = s]

\* Mutant of CheckBlob: publish_layer, one artifact after the other.
CheckBlobInOrder(u, f) ==
    /\ At(u, "put")
    /\ put[u][f] = "todo"
    /\ f = "cache" => put[u]["deploy"] \in {"ok", "err"}
    /\ SetPut(u, f, IF blobs[f] # Absent THEN "ok" ELSE "copying")
    /\ UNCHANGED <<client, wire, conn, handler, demux, chan, file, store, faults>>

\* put_blob: an artifact that is in place is not read.
CheckBlob(u, f) ==
    /\ At(u, "put")
    /\ put[u][f] = "todo"
    /\ SetPut(u, f, IF blobs[f] # Absent THEN "ok" ELSE "copying")
    /\ UNCHANGED <<client, wire, conn, handler, demux, chan, file, store, faults>>

\* io::copy through the HashingReader and the StreamAdapter.
CopyChunk(u, f) ==
    /\ At(u, "put")
    /\ put[u][f] = "copying"
    /\ chan[u][f] # << >>
    /\ file' = [file EXCEPT ![u][f] = Append(@, Head(chan[u][f]))]
    /\ chan' = [chan EXCEPT ![u][f] = Tail(@)]
    /\ UNCHANGED <<client, wire, conn, handler, demux, put, store, faults>>

\* An error of create, copy, sync or rename; the rest is not read.
PutFails(u, f) ==
    /\ At(u, "put")
    /\ put[u][f] = "copying"
    /\ Fault("write")
    /\ SetPut(u, f, "err")
    /\ UNCHANGED <<client, wire, conn, handler, demux, chan, file, store>>

\* Mutant of Rename: an empty channel is taken for the end of the stream.
RenameEarly(u, f) ==
    /\ At(u, "put")
    /\ put[u][f] = "copying"
    /\ chan[u][f] = << >>
    /\ blobs' = [blobs EXCEPT ![f] = file[u][f]]
    /\ SetPut(u, f, "ok")
    /\ UNCHANGED <<client, wire, conn, handler, demux, chan, file, layer, index, faults>>

\* End of file: the temporary file is synced and renamed into place.
Rename(u, f) ==
    /\ At(u, "put")
    /\ put[u][f] = "copying"
    /\ chan[u][f] = << >> /\ demux[u] = "ended"
    /\ blobs' = [blobs EXCEPT ![f] = file[u][f]]
    /\ SetPut(u, f, "ok")
    /\ UNCHANGED <<client, wire, conn, handler, demux, chan, file, layer, index, faults>>

\* Mutant of Join: the handler does not wait for the cache artifact.
JoinDeployOnly(u) ==
    /\ At(u, "put")
    /\ put[u]["deploy"] \in {"ok", "err"}
    /\ IF put[u]["deploy"] = "err" THEN Return(u, "err") ELSE Continue(u, "layer_meta")
    /\ UNCHANGED <<client, wire, conn, demux, put, store, faults>>

\* tokio::join! waits for both, and the first error is returned.
Join(u) ==
    /\ At(u, "put")
    /\ \A f \in Formats : put[u][f] \in {"ok", "err"}
    /\ IF \E f \in Formats : put[u][f] = "err" THEN Return(u, "err")
                                              ELSE Continue(u, "layer_meta")
    /\ UNCHANGED <<client, wire, conn, demux, put, store, faults>>

\* Mutant of PutLayerMeta: the hashers of the two readers are swapped.
PutLayerMetaSwapped(u) ==
    /\ At(u, "layer_meta")
    /\ layer' = [f \in Formats |-> file[u][IF f = "cache" THEN "deploy" ELSE "cache"]]
    /\ Continue(u, "register")
    /\ UNCHANGED <<client, wire, conn, demux, put, blobs, index, faults>>

\* The layer's metadata, with the checksums.
PutLayerMeta(u) ==
    /\ At(u, "layer_meta")
    /\ \/ layer' = Finalize(u) /\ Continue(u, "register") /\ UNCHANGED faults
       \/ Fault("write") /\ Return(u, "err") /\ UNCHANGED layer
    /\ UNCHANGED <<client, wire, conn, demux, put, blobs, index>>

RegisterInputHash(u) ==
    /\ At(u, "register")
    /\ \/ index' = TRUE /\ Return(u, "ok") /\ UNCHANGED faults
       \/ Fault("write") /\ Return(u, "err") /\ UNCHANGED index
    /\ UNCHANGED <<client, wire, conn, demux, put, blobs, layer>>

-----------------------------------------------------------------------------

Sender(u)  == SendChunk(u) \/ EndArtifact(u) \/ SendFails(u)
Demux(u)   == Forward(u) \/ DemuxEnd(u)
Handler(u) ==
    \/ TakeMeta(u) \/ HasLayer(u)
    \/ \E f \in Formats : CheckBlob(u, f) \/ CopyChunk(u, f) \/ PutFails(u, f) \/ Rename(u, f)
    \/ Join(u) \/ PutLayerMeta(u) \/ RegisterInputHash(u)

Next == \E u \in Uploads :
            Begin(u) \/ Sender(u) \/ Cut(u) \/ Demux(u) \/ Handler(u)

Spec == Init /\ [][Next]_vars

\* The tasks are polled by their runtimes.
FairSpec ==
    /\ Spec
    /\ \A u \in Uploads :
           WF_vars(Sender(u)) /\ WF_vars(Demux(u)) /\ WF_vars(Handler(u))
-----------------------------------------------------------------------------

Handlers == {"idle", "first", "has_layer", "put", "layer_meta", "register", "ok", "err"}

TypeOK ==
    /\ sending \in [Uploads -> {"idle", "closed"} \cup Formats]
    /\ sent \in [Uploads -> Nat]
    /\ unread \subseteq Formats
    /\ wire \in [Uploads -> Seq((Formats \cup {"meta"}) \X Nat)]
    /\ conn \in [Uploads -> {"open", "lost"}]
    /\ handler \in [Uploads -> Handlers]
    /\ demux \in [Uploads -> {"idle", "recv", "ended"}]
    /\ chan \in [Uploads -> [Formats -> Seq(Formats \X Nat)]]
    /\ \A u \in Uploads : Len(wire[u]) <= WireCap
    /\ \A u \in Uploads, f \in Formats : Len(chan[u][f]) <= ChanCap
    /\ put \in [Uploads -> [Formats -> {"todo", "copying", "ok", "err"}]]
    /\ file \in [Uploads -> [Formats -> Seq(Formats \X Nat)]]
    /\ blobs \in [Formats -> Seq(Formats \X Nat) \cup {Absent}]
    /\ layer \in [Formats -> Seq(Formats \X Nat)] \cup {Absent}
    /\ faults \in 0 .. MaxFaults
    /\ index \in BOOLEAN

\* An artifact in place is the whole artifact, its chunks in order, whatever
\* was cut off, failed or raced, unless a client could not read its own file:
\* that client ends the stream as if it were complete, and what it did read is
\* renamed into place.
WholeUnlessUnread ==
    \A f \in Formats : (blobs[f] # Absent /\ f \notin unread) => blobs[f] = Whole(f)

\* "the store computes file checksums (SHA-256 of the compressed bytes as written
\* to disk) and records them" (fs-storage/docs/002-tad.md:335).
ChecksumOfArtifact ==
    layer # Absent => \A f \in Formats :
        (blobs[f] # Absent /\ f \notin unread) => layer[f] = blobs[f]

\* The demultiplexer waits for room in a channel that is not read any more.
Starved(u) ==
    /\ handler[u] = "put" /\ conn[u] = "open"
    /\ demux[u] = "recv" /\ wire[u] # << >>
    /\ LET f == Head(wire[u])[1] IN
       put[u][f] \in {"ok", "err"} /\ Len(chan[u][f]) = ChanCap

\* publish_layer_concurrent is "Required when deploy and cache chunks arrive
\* multiplexed on a single stream": with it bounded channels, slow readers and a
\* lost client do not hang an upload, unless it is starved.
EndsUnlessStarved ==
    \A u \in Uploads : handler[u] # "idle" ~> Over(u) \/ Starved(u)

\* An upload that was answered Ok is in the store, both artifacts, metadata and
\* index, once no upload is under way and if nothing has gone wrong: the answer
\* to a client that finds another's upload half done is not a lie for long.
OkMeansPublished ==
    (\E u \in Uploads : handler[u] = "ok") /\ faults = 0
        /\ (\A u \in Uploads : handler[u] = "idle" \/ Over(u)) =>
    index /\ layer # Absent /\ \A f \in Formats : blobs[f] # Absent

\* Once the call is over neither the sender nor the demultiplexer is left.
TasksEnd ==
    \A u \in Uploads : Over(u) ~> sending[u] = "closed" /\ demux[u] # "recv"

-----------------------------------------------------------------------------
(* The same upload in LayerStore.                                          *)

StorePc ==
    [u \in Uploads |->
        CASE handler[u] \in {"idle", "first"} -> "has_layer"
          [] handler[u] = "ok"  -> "manifest"
          [] handler[u] = "err" -> "failed"
          [] OTHER -> handler[u]]

Stored == INSTANCE LayerStore WITH
    Contents <- {"layer"}, Inputs <- {"input"}, Builds <- Uploads,
    Plan <- [u \in Uploads |-> <<[input |-> "input", content |-> "layer"]>>],
    Direct <- {}, Tags <- {}, None <- Absent,
    Faults <- {"stat", "put_blob", "put_meta"}, GcMode <- "never",
    objects <- {<<"layer", f>> : f \in {g \in Formats : blobs[g] # Absent}},
    layers <- [c \in {"layer"} |-> IF layer = Absent THEN Absent ELSE "input"],
    index <- [i \in {"input"} |-> IF index THEN "layer" ELSE Absent],
    manifests <- [u \in Uploads |-> Absent], catalog <- {},
    tags <- [t \in {} |-> Absent],
    pc <- StorePc,
    got <- [u \in Uploads |-> IF handler[u] = "ok" THEN <<"layer">> ELSE << >>],
    hit <- [u \in Uploads |-> Absent],
    up <- put,
    tagging <- [t \in {} |-> Absent],
    gc <- [pc |-> "idle", marked |-> {}, cands |-> {}, cur |-> Absent, input |-> Absent]

\* Every step of a streamed upload is a step of LayerStore's publish_layer, in
\* which an artifact appears at once, or leaves the store as it is.
ImplementsStore == [][Stored!Next]_Stored!vars
=============================================================================

----------------------------- MODULE LayerStore -----------------------------
(***************************************************************************)
(* The layer store (fs-storage/src/layer_store.rs) on its LocalJsonBackend *)
(* and the builds that publish to it (build-system/src/orchestrator.rs):   *)
(* one step per file that is made, read or removed.  Builds, tag commands  *)
(* and a garbage collection interleave; a crash of the server loses what   *)
(* is under way and keeps the files.                                       *)
(*                                                                         *)
(* A layer is named by its content hash, a stage by its input hash.  Each  *)
(* write of a file is a temporary file renamed into place, so a file is    *)
(* absent or complete.  A manifest is named by the build that made it: its *)
(* hash covers a fresh manifest_id.                                        *)
(***************************************************************************)
EXTENDS Naturals, Sequences

CONSTANTS
    Contents,   \* content hashes
    Inputs,     \* input hashes
    Builds,     \* calls of BuildOrchestrator::build
    Plan,       \* Plan[b]: the stages of b, each on top of the one before
    Direct,     \* the builds with a StoreClient in process, without gRPC
    Tags,
    None,       \* no such file
    Faults,     \* what the environment can make fail
    GcMode      \* when garbage collection runs, see GcMayRun

Formats == {"deploy", "cache"}

Stages == [input : Inputs, content : Contents]

ASSUME LayerStoreAssumption ==
    /\ None \notin Contents \cup Inputs \cup Builds
    /\ \A cs \in SUBSET Contents : cs # None
    /\ Plan \in [Builds -> Seq(Stages)]
    /\ \A b \in Builds : Plan[b] # << >>
    /\ Direct \subseteq Builds
    /\ Faults \subseteq {"solve", "pull", "stat", "put_blob", "put_meta", "delete", "crash", "gc_crash"}
    /\ GcMode \in {"never", "alone", "anytime"}

VARIABLES
    \* The store's directory.
    objects,     \* objects/: the blobs, pairs of a content and a format
    layers,      \* meta/layers/: layers[c] is input_hash of the LayerMeta of c
    index,       \* meta/index/: index[i] is the content registered for i
    manifests,   \* manifests/: manifests[b] is the layers of b's manifest
    catalog,     \* meta/builds/: the builds with a catalog entry
    tags,        \* refs/tags/: tags[t] is the manifest t points to
    \* Calls under way.
    pc,          \* pc[b]: the next step of build b
    got,         \* got[b]: the contents of the stages b is through with
    hit,         \* hit[b]: the content the index gave for this or the last stage
    up,          \* up[b][f]: the put_blob of format f in publish_layer
    tagging,     \* tagging[t]: the manifest create_tag(t) has found
    gc           \* gc_candidates and gc_execute

files == <<objects, layers, index, manifests, catalog, tags>>
runs  == <<pc, got, hit, up>>
vars  == <<files, runs, tagging, gc>>

GcIdle == [pc |-> "idle", marked |-> {}, cands |-> {}, cur |-> None, input |-> None]

\* The stage b is at.
Stage(b) == Plan[b][Len(got[b]) + 1]

Ended == {"idle", "done", "failed"}
InFlight(b) == pc[b] \notin Ended

\* The store has no lock between a collection and a build.  "alone" is an
\* operator who runs GC, from its first scan to its last deletion, only when
\* no build is under way; "never" is a store that is not collected.
GcMayRun == GcMode = "anytime" \/ (GcMode = "alone" /\ \A b \in Builds : ~InFlight(b))
BuildMayStart == GcMode = "alone" => gc.pc = "idle"

Init ==
    /\ objects = {}
    /\ layers = [c \in Contents |-> None]
    /\ index = [i \in Inputs |-> None]
    /\ manifests = [b \in Builds |-> None]
    /\ catalog = {}
    /\ tags = [t \in Tags |-> None]
    /\ pc = [b \in Builds |-> "idle"]
    /\ got = [b \in Builds |-> << >>]
    /\ hit = [b \in Builds |-> None]
    /\ up = [b \in Builds |-> [f \in Formats |-> "todo"]]
    /\ tagging = [t \in Tags |-> None]
    /\ gc = GcIdle

-----------------------------------------------------------------------------
(* A build: for every stage, use the cached layer or make and publish it.  *)

Goto(b, p) == pc' = [pc EXCEPT ![b] = p]

\* The call failed; build returns the error.
Fail(b) == Goto(b, "failed")

\* The stage is done with content c: on to the next one, or to the manifest.
Advance(b, c) ==
    /\ got' = [got EXCEPT ![b] = Append(@, c)]
    /\ Goto(b, IF Len(got[b]) + 1 < Len(Plan[b]) THEN "resolve" ELSE "manifest")

Start(b) ==
    /\ pc[b] = "idle"
    /\ BuildMayStart
    /\ Goto(b, "resolve")
    /\ UNCHANGED <<files, got, hit, up, tagging, gc>>

\* resolve_input_hash: a hit leads to a pull.  A miss leads to a build of the
\* stage; hit[b] still says whether the stage before it was a hit.
Resolve(b) ==
    /\ pc[b] = "resolve"
    /\ LET c == index[Stage(b).input] IN
       IF c = None
       THEN Goto(b, "solve") /\ UNCHANGED hit
       ELSE Goto(b, "pull") /\ hit' = [hit EXCEPT ![b] = c]
    /\ UNCHANGED <<files, got, up, tagging, gc>>

\* pull_layer of the build-cache artifact of the hit, to the path "" since only
\* the metadata is wanted.  GrpcStoreClient creates a file of that name, which
\* always fails; a client in process need not write anything.
Pull(b) ==
    /\ pc[b] = "pull"
    /\ LET served == b \in Direct /\ <<hit[b], "cache">> \in objects IN
       \/ served /\ Advance(b, hit[b])
       \/ (~served \/ "pull" \in Faults) /\ Fail(b) /\ UNCHANGED got
    /\ UNCHANGED <<files, hit, up, tagging, gc>>

\* Build the stage: the parent's artifact is pulled if the parent was a hit.
Solve(b) ==
    /\ pc[b] = "solve"
    /\ LET missing == hit[b] # None /\ <<hit[b], "cache">> \notin objects IN
       \/ ~missing /\ Goto(b, "has_layer")
       \/ (missing \/ "solve" \in Faults) /\ Fail(b)
    /\ hit' = [hit EXCEPT ![b] = None]
    /\ UNCHANGED <<files, got, up, tagging, gc>>

\* has_layer looks for the deploy artifact; if it is there publish_layer
\* returns Ok at once.
HasLayer(b) ==
    /\ pc[b] = "has_layer"
    /\ \/ /\ <<Stage(b).content, "deploy">> \in objects
          /\ Advance(b, Stage(b).content)
          /\ UNCHANGED up
       \/ /\ <<Stage(b).content, "deploy">> \notin objects
          /\ up' = [up EXCEPT ![b] = [f \in Formats |-> "todo"]]
          /\ Goto(b, "put")
          /\ UNCHANGED got
       \/ "stat" \in Faults /\ Fail(b) /\ UNCHANGED <<got, up>>
    /\ UNCHANGED <<files, hit, tagging, gc>>

\* put_blob up to the copy.  publish_layer_concurrent starts both;
\* publish_layer puts the cache artifact once the deploy artifact is in place.
CheckBlob(b, f) ==
    /\ pc[b] = "put"
    /\ up[b][f] = "todo"
    /\ (b \in Direct /\ f = "cache") => up[b]["deploy"] = "ok"
    /\ up' = [up EXCEPT ![b][f] =
                 IF <<Stage(b).content, f>> \in objects THEN "ok" ELSE "copying"]
    /\ UNCHANGED <<files, pc, got, hit, tagging, gc>>

\* Mutant of RenameBlob: an upload that failed is taken for done.
RenameBlobIgnoringError(b, f) ==
    /\ pc[b] = "put"
    /\ up[b][f] = "copying"
    /\ up' = [up EXCEPT ![b][f] = "ok"]
    /\ \/ objects' = objects \cup {<<Stage(b).content, f>>}
       \/ "put_blob" \in Faults /\ UNCHANGED objects
    /\ UNCHANGED <<layers, index, manifests, catalog, tags, pc, got, hit, tagging, gc>>

\* put_blob from the copy on: the rename replaces a file that has appeared.
RenameBlob(b, f) ==
    /\ pc[b] = "put"
    /\ up[b][f] = "copying"
    /\ \/ /\ objects' = objects \cup {<<Stage(b).content, f>>}
          /\ up' = [up EXCEPT ![b][f] = "ok"]
       \/ /\ "put_blob" \in Faults
          /\ up' = [up EXCEPT ![b][f] = "err"]
          /\ UNCHANGED objects
    /\ UNCHANGED <<layers, index, manifests, catalog, tags, pc, got, hit, tagging, gc>>

\* Mutant of JoinBlobs: only the deploy artifact's result is looked at.
JoinBlobsIgnoringCache(b) ==
    /\ pc[b] = "put"
    /\ \A f \in Formats : up[b][f] \in {"ok", "err"}
    /\ IF up[b]["deploy"] = "err" THEN Fail(b) ELSE Goto(b, "layer_meta")
    /\ UNCHANGED <<files, got, hit, up, tagging, gc>>

\* publish_layer_concurrent joins both and then looks at the results;
\* publish_layer returns at the first error.
JoinBlobs(b) ==
    /\ pc[b] = "put"
    /\ \/ \A f \in Formats : up[b][f] \in {"ok", "err"}
       \/ b \in Direct /\ up[b]["deploy"] = "err"
    /\ IF \E f \in Formats : up[b][f] = "err" THEN Fail(b) ELSE Goto(b, "layer_meta")
    /\ UNCHANGED <<files, got, hit, up, tagging, gc>>

\* Mutant of PutLayerMeta: the content hash where the input hash belongs.
PutLayerMetaSwapped(b) ==
    /\ pc[b] = "layer_meta"
    /\ layers' = [layers EXCEPT ![Stage(b).content] = Stage(b).content]
    /\ Goto(b, "register")
    /\ UNCHANGED <<objects, index, manifests, catalog, tags, got, hit, up, tagging, gc>>

\* put_meta layers/.
PutLayerMeta(b) ==
    /\ pc[b] = "layer_meta"
    /\ \/ /\ layers' = [layers EXCEPT ![Stage(b).content] = Stage(b).input]
          /\ Goto(b, "register")
       \/ /\ "put_meta" \in Faults
          /\ Fail(b)
          /\ UNCHANGED layers
    /\ UNCHANGED <<objects, index, manifests, catalog, tags, got, hit, up, tagging, gc>>

\* register_input_hash, the last step of publish_layer.
RegisterInputHash(b) ==
    /\ pc[b] = "register"
    /\ \/ /\ index' = [index EXCEPT ![Stage(b).input] = Stage(b).content]
          /\ Advance(b, Stage(b).content)
       \/ /\ "put_meta" \in Faults
          /\ Fail(b)
          /\ UNCHANGED <<index, got>>
    /\ UNCHANGED <<objects, layers, manifests, catalog, tags, hit, up, tagging, gc>>

\* publish_manifest, first the manifest.
PublishManifest(b) ==
    /\ pc[b] = "manifest"
    /\ \/ /\ manifests' = [manifests EXCEPT ![b] = {got[b][k] : k \in DOMAIN got[b]}]
          /\ Goto(b, "catalog")
       \/ /\ "put_meta" \in Faults
          /\ Fail(b)
          /\ UNCHANGED manifests
    /\ UNCHANGED <<objects, layers, index, catalog, tags, got, hit, up, tagging, gc>>

\* Then the catalog entry.
PutCatalogEntry(b) ==
    /\ pc[b] = "catalog"
    /\ \/ /\ catalog' = catalog \cup {b}
          /\ Goto(b, "done")
       \/ /\ "put_meta" \in Faults
          /\ Fail(b)
          /\ UNCHANGED catalog
    /\ UNCHANGED <<objects, layers, index, manifests, tags, got, hit, up, tagging, gc>>

-----------------------------------------------------------------------------
(* Tags.                                                                   *)

\* Mutant of FindManifest: the manifest is not looked for.
FindManifestUnchecked(t, b) ==
    /\ tagging[t] = None
    /\ tagging' = [tagging EXCEPT ![t] = b]
    /\ UNCHANGED <<files, runs, gc>>

\* create_tag and update_tag: the manifest must exist ...
FindManifest(t, b) ==
    /\ tagging[t] = None
    /\ manifests[b] # None
    /\ tagging' = [tagging EXCEPT ![t] = b]
    /\ UNCHANGED <<files, runs, gc>>

\* ... when put_meta writes the tag.
PutTag(t) ==
    /\ tagging[t] # None
    /\ \/ tags' = [tags EXCEPT ![t] = tagging[t]]
       \/ "put_meta" \in Faults /\ UNCHANGED tags
    /\ tagging' = [tagging EXCEPT ![t] = None]
    /\ UNCHANGED <<objects, layers, index, manifests, catalog, runs, gc>>

DeleteTag(t) ==
    /\ tags[t] # None
    /\ tags' = [tags EXCEPT ![t] = None]
    /\ UNCHANGED <<objects, layers, index, manifests, catalog, runs, tagging, gc>>

-----------------------------------------------------------------------------
(* Garbage collection.                                                     *)

GcGoto(p) == gc' = [gc EXCEPT !.pc = p]

\* gc_candidates 1: the manifests the tags point to.
GcListTags ==
    /\ gc.pc = "idle"
    /\ GcMayRun
    /\ gc' = [gc EXCEPT !.pc = "tags",
                        !.marked = {tags[t] : t \in Tags} \ {None}]
    /\ UNCHANGED <<files, runs, tagging>>

\* Mutant of GcListManifests: untagged manifests are left out.
GcListManifestsTaggedOnly ==
    /\ gc.pc = "tags"
    /\ gc' = [gc EXCEPT !.pc = "marked"]
    /\ UNCHANGED <<files, runs, tagging>>

\* gc_candidates 2 and 3: all manifests, whose layers are the live set.
\* Manifests are never changed, so it does not matter when they are read.
GcListManifests ==
    /\ gc.pc = "tags"
    /\ gc' = [gc EXCEPT !.pc = "marked",
                        !.marked = @ \cup {b \in Builds : manifests[b] # None}]
    /\ UNCHANGED <<files, runs, tagging>>

\* gc_candidates 4: the sweep over the layer metadata.
GcSweep ==
    /\ gc.pc = "marked"
    /\ LET live == UNION {manifests[b] : b \in gc.marked} IN
       gc' = [gc EXCEPT !.pc = "report",
                        !.cands = {c \in Contents \ live : layers[c] # None}]
    /\ UNCHANGED <<files, runs, tagging>>

\* A scan (list_meta) fails, or the report was a dry run.
GcDiscard ==
    /\ gc.pc \in {"tags", "marked", "report"}
    /\ gc' = GcIdle
    /\ UNCHANGED <<files, runs, tagging>>

\* gc_execute takes the next candidate, or returns after the last.
GcTake ==
    /\ gc.pc \in {"report", "next"}
    /\ \/ \E c \in gc.cands :
             gc' = [gc EXCEPT !.pc = "deploy", !.cur = c, !.cands = @ \ {c}]
       \/ gc.cands = {} /\ gc' = GcIdle
    /\ UNCHANGED <<files, runs, tagging>>

\* delete_blob, for the deploy and then the cache artifact; an error is ignored.
GcDeleteBlob ==
    /\ gc.pc \in Formats
    /\ \/ objects' = objects \ {<<gc.cur, gc.pc>>}
       \/ "delete" \in Faults /\ UNCHANGED objects
    /\ GcGoto(IF gc.pc = "deploy" THEN "cache" ELSE "read_meta")
    /\ UNCHANGED <<layers, index, manifests, catalog, tags, runs, tagging>>

\* The input hash to forget is read from the layer's metadata.
GcReadMeta ==
    /\ gc.pc = "read_meta"
    /\ gc' = [gc EXCEPT !.pc = "index", !.input = layers[gc.cur]]
    /\ UNCHANGED <<files, runs, tagging>>

\* Mutant of GcDeleteIndex: the index entry is forgotten.
GcDeleteIndexForgotten ==
    /\ gc.pc = "index"
    /\ GcGoto("layer_meta")
    /\ UNCHANGED <<files, runs, tagging>>

\* The index entry of that input hash goes, whatever it points to.
GcDeleteIndex ==
    /\ gc.pc = "index"
    /\ \/ index' = [i \in Inputs |-> IF i = gc.input THEN None ELSE index[i]]
       \/ "delete" \in Faults /\ UNCHANGED index
    /\ GcGoto("layer_meta")
    /\ UNCHANGED <<objects, layers, manifests, catalog, tags, runs, tagging>>

GcDeleteMeta ==
    /\ gc.pc = "layer_meta"
    /\ \/ layers' = [layers EXCEPT ![gc.cur] = None]
       \/ "delete" \in Faults /\ UNCHANGED layers
    /\ GcGoto("next")
    /\ UNCHANGED <<objects, index, manifests, catalog, tags, runs, tagging>>

-----------------------------------------------------------------------------

\* Where a build is about to make a call of the server, or busy with the engine.
BetweenCalls == {"resolve", "pull", "solve", "has_layer", "manifest"}

\* The server stops and is started again: the directory is as it was.  A build
\* in another process that has no call under way may not notice.  A crash in
\* the middle of a collection is a fault of its own.
Crash ==
    /\ "crash" \in Faults
    /\ gc.pc = "idle" \/ "gc_crash" \in Faults
    /\ \E survivors \in SUBSET {b \in Builds \ Direct : pc[b] \in BetweenCalls} :
          pc' = [b \in Builds |->
                    IF InFlight(b) /\ b \notin survivors THEN "failed" ELSE pc[b]]
    /\ tagging' = [t \in Tags |-> None]
    /\ gc' = GcIdle
    /\ UNCHANGED <<files, got, hit, up>>

Build(b) ==
    \/ Start(b) \/ Resolve(b) \/ Pull(b) \/ Solve(b) \/ HasLayer(b)
    \/ \E f \in Formats : CheckBlob(b, f) \/ RenameBlob(b, f)
    \/ JoinBlobs(b) \/ PutLayerMeta(b) \/ RegisterInputHash(b)
    \/ PublishManifest(b) \/ PutCatalogEntry(b)

Tag(t) == (\E b \in Builds : FindManifest(t, b)) \/ PutTag(t) \/ DeleteTag(t)

Gc ==
    \/ GcListTags \/ GcListManifests \/ GcSweep \/ GcDiscard \/ GcTake
    \/ GcDeleteBlob \/ GcReadMeta \/ GcDeleteIndex \/ GcDeleteMeta

Next ==
    \/ \E b \in Builds : Build(b)
    \/ \E t \in Tags : Tag(t)
    \/ Gc
    \/ Crash

Spec == Init /\ [][Next]_vars
-----------------------------------------------------------------------------

Pcs == Ended \cup {"resolve", "pull", "solve", "has_layer", "put", "layer_meta",
                   "register", "manifest", "catalog"}

GcPcs == {"idle", "tags", "marked", "report", "next", "deploy", "cache",
          "read_meta", "index", "layer_meta"}

TypeOK ==
    /\ objects \subseteq Contents \X Formats
    /\ layers \in [Contents -> Inputs \cup {None}]
    /\ index \in [Inputs -> Contents \cup {None}]
    /\ manifests \in [Builds -> (SUBSET Contents) \cup {None}]
    /\ catalog \subseteq Builds
    /\ tags \in [Tags -> Builds \cup {None}]
    /\ pc \in [Builds -> Pcs]
    /\ got \in [Builds -> Seq(Contents)]
    /\ \A b \in Builds : Len(got[b]) <= Len(Plan[b])
    /\ hit \in [Builds -> Contents \cup {None}]
    /\ up \in [Builds -> [Formats -> {"todo", "copying", "ok", "err"}]]
    /\ tagging \in [Tags -> Builds \cup {None}]
    /\ gc \in [pc : GcPcs, marked : SUBSET Builds, cands : SUBSET Contents,
               cur : Contents \cup {None}, input : Inputs \cup {None}]

Complete(c) == {c} \X Formats \subseteq objects

\* Whatever crashes, fails or interleaves, a tag and a catalog entry point to
\* a manifest that is in the store.
ReferencesResolve ==
    /\ \A t \in Tags : tags[t] # None => manifests[tags[t]] # None
    /\ \A b \in catalog : manifests[b] # None

\* Every layer of every manifest can be pulled for deployment.
ManifestDeployable ==
    \A b \in Builds : manifests[b] # None =>
        \A c \in manifests[b] : <<c, "deploy">> \in objects

\* What resolve_input_hash answers can be used: the layer has both artifacts
\* and its metadata.  Between the deletions of gc_execute it may not.
IndexedIsComplete ==
    gc.pc \in {"idle", "tags", "marked", "report"} =>
        \A i \in Inputs : index[i] # None => Complete(index[i]) /\ layers[index[i]] # None

\* prd: "a promoted build is never garbage collected while its tag exists".
TaggedDeployable ==
    \A t \in Tags : tags[t] # None =>
        \A c \in manifests[tags[t]] : <<c, "deploy">> \in objects
=============================================================================

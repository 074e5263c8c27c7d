------------------------------ MODULE BuildPlan ------------------------------
(***************************************************************************)
(* What a build makes of a Dockerfile: RealDockerfileParser                *)
(* (build-system/src/parser.rs), RealHasher (hasher.rs) and the loop of    *)
(* BuildOrchestrator::build (orchestrator.rs), with the answers of         *)
(* GrpcStoreClient (store.rs) and the server behind it.  Builds follow     *)
(* each other, of the same or of different Dockerfiles, and share the      *)
(* store.                                                                  *)
(*                                                                         *)
(* A Dockerfile is the sequence of its stages and the list of the release  *)
(* layers.  A stage is FROM image AS name, one instruction, which may copy *)
(* from another stage, and the labels steel.layer and steel.layer.order.   *)
(* `tail' is what follows a # within the instruction.  A hash is the       *)
(* record of what it is computed from.  A filesystem is the sequence of    *)
(* the steps that made it, each in the world it was made in: what the      *)
(* images' tags point to, the build arguments, and the files of the        *)
(* context, none of which is hashed.                                       *)
(***************************************************************************)
EXTENDS Naturals, Sequences, FiniteSets

CONSTANTS
    Dockerfiles,   \* what may be built
    Worlds,        \* the images, arguments and context files a build may find
    PullWorks,     \* whether pull_layer can write to the path "", see Hit
    MaxBuilds,     \* how many builds
    None           \* not given

\* A stage is a record of these fields.
IsStage(s) ==
    s = [name |-> s.name, image |-> s.image, text |-> s.text, tail |-> s.tail,
         copy |-> s.copy, layer |-> s.layer, order |-> s.order]

ASSUME BuildPlanAssumption ==
    /\ MaxBuilds \in Nat \ {0}
    /\ PullWorks \in BOOLEAN
    /\ \A d \in Dockerfiles :
           /\ Len(d.stages) \in Nat /\ DOMAIN d.stages = 1 .. Len(d.stages)
           /\ \A k \in DOMAIN d.stages : IsStage(d.stages[k])

VARIABLES
    builds,     \* how many builds have begun
    doc,        \* the Dockerfile of the build
    world,      \* the world it is built in
    pc,         \* "idle", "stages", "manifest", or how the build has ended
    next,       \* the stage it is at
    results,    \* stage_results, by name: input hash, output and whether a hit
    metas,      \* layer_metas, by layer name
    index,      \* the store's outputs by input hash
    manifest,   \* the layers of the manifest, None before it is published
    plain       \* whether all builds so far were of plain Dockerfiles, in one world

vars == <<builds, doc, world, pc, next, results, metas, index, manifest, plain>>

Insert(f, k, v) == [x \in DOMAIN f \cup {k} |-> IF x = k THEN v ELSE f[x]]
Empty == [x \in {} |-> None]

Init ==
    /\ builds = 0
    /\ doc = None
    /\ world \in Worlds
    /\ pc = "idle"
    /\ next = 1
    /\ results = Empty
    /\ metas = Empty
    /\ index = Empty
    /\ manifest = None
    /\ plain = TRUE

-----------------------------------------------------------------------------
(* RealDockerfileParser.                                                   *)

DefaultNames == <<"stage_0", "stage_1", "stage_2", "stage_3">>

Name(d, k) == IF d.stages[k].name = None THEN DefaultNames[k] ELSE d.stages[k].name

\* The stage of that name, if there is one above; else an image.
Parent(d, k) ==
    LET image == d.stages[k].image IN
    IF k > 1 /\ image # "scratch" /\ \E j \in 1 .. k - 1 : Name(d, j) = image
    THEN image ELSE None

LayerNames(d) == {d.stages[k].layer : k \in DOMAIN d.stages} \ {None}

\* The stage of a layer, the last one to have the label.
LayerStage(d, l) ==
    CHOOSE k \in DOMAIN d.stages :
        /\ d.stages[k].layer = l
        /\ \A j \in DOMAIN d.stages : d.stages[j].layer = l => j <= k

\* Mutant of validate_graph: the release's layers are not looked up.
validate_graph_orders(d) ==
    {d.stages[LayerStage(d, l)].order : l \in LayerNames(d)} =
        {n - 1 : n \in 1 .. Cardinality(LayerNames(d))}

\* The layers of the release have a stage; the orders, sorted, are 0, 1, 2 ...
validate_graph(d) ==
    /\ \A i \in DOMAIN d.release : d.release[i] \in LayerNames(d)
    /\ {d.stages[LayerStage(d, l)].order : l \in LayerNames(d)} =
           {n - 1 : n \in 1 .. Cardinality(LayerNames(d))}

\* parse: an order that is not a number, or no release label, is an error.
Accepted(d) ==
    /\ \A k \in DOMAIN d.stages : d.stages[k].order # None
    /\ d.release # None
    /\ validate_graph(d)

-----------------------------------------------------------------------------
(* RealHasher.                                                             *)

\* Comments are stripped, from within an instruction too: what follows a #.
normalize_instruction(stage) == [stage EXCEPT !.tail = ""]

\* Mutant of compute_input_hash: without the parent's.
compute_input_hash_alone(stage, parent_hash) ==
    [parent |-> None, instructions |-> normalize_instruction(stage)]

\* The parent's hash and the instructions, labels and the FROM line included.
compute_input_hash(stage, parent_hash) ==
    [parent |-> parent_hash, instructions |-> normalize_instruction(stage)]

-----------------------------------------------------------------------------
(* BuildKit.                                                               *)

\* The last stage of that name among the first n, 0 if there is none.
FindStage(d, name, n) ==
    LET named == {k \in 1 .. n : name # None /\ d.stages[k].name = name} IN
    IF named = {} THEN 0 ELSE CHOOSE k \in named : \A j \in named : j <= k

Step(w, text, tail, copied) == [world |-> w, text |-> text, tail |-> tail, copied |-> copied]

\* What a stage names, in FROM or in COPY --from: what the build was given under
\* that name, a stage above it, or an image.
Named(d, w, context, fs, name, k) ==
    IF name \in DOMAIN context THEN context[name]
    ELSE LET j == FindStage(d, name, k - 1) IN
         IF j > 0 THEN fs[j] ELSE <<Step(w, name, "", << >>)>>

\* The filesystem of stage k, on top of those of the stages above it.
StageFs(d, w, context, fs, k) ==
    IF k = 0 THEN << >> ELSE
    LET s == d.stages[k]
        copied == IF s.copy = None THEN << >> ELSE Named(d, w, context, fs, s.copy, k)
    IN  Named(d, w, context, fs, s.image, k) \o <<Step(w, s.text, s.tail, copied)>>

\* The filesystem of every stage.  `context' may give one for a stage's name.
Filesystems(d, w, context) ==
    LET fs[k \in 0 .. Len(d.stages)] == StageFs(d, w, context, fs, k) IN fs

\* What a build of stage k without a cache gives.
Fresh(d, w, k) == Filesystems(d, w, Empty)[k]

-----------------------------------------------------------------------------
(* BuildOrchestrator::build.                                               *)

\* A Dockerfile whose stages have names of their own, not the one that FROM takes
\* for the empty image, and whose instructions neither copy from another stage
\* nor have a #.
Plain(d) ==
    /\ \A j, k \in DOMAIN d.stages : Name(d, j) = Name(d, k) => j = k
    /\ \A k \in DOMAIN d.stages :
           /\ d.stages[k].name \notin {None, "scratch"}
           /\ d.stages[k].copy = None /\ d.stages[k].tail = ""

\* A Dockerfile without a stage is no error: the loop is not entered.
Parse(d, w) ==
    /\ pc \notin {"stages", "manifest"}
    /\ builds < MaxBuilds
    /\ builds' = builds + 1
    /\ doc' = d
    /\ world' = w
    /\ pc' = IF ~Accepted(d) THEN "rejected" ELSE IF d.stages = << >> THEN "manifest" ELSE "stages"
    /\ next' = 1
    /\ results' = Empty
    /\ metas' = Empty
    /\ manifest' = None
    /\ plain' = (plain /\ Plain(d) /\ (builds = 0 \/ w = world))
    /\ UNCHANGED index

Stage == doc.stages[next]

ParentHash ==
    LET p == Parent(doc, next) IN
    IF p \in DOMAIN results THEN results[p].input ELSE None

InputHash == compute_input_hash(Stage, ParentHash)

\* The loop's body ends with the stage's result and its layer's metadata.
Advance(output, hit, meta) ==
    /\ results' = Insert(results, Name(doc, next),
                         [input |-> InputHash, output |-> output, hit |-> hit])
    /\ metas' = Insert(metas, Stage.layer, meta)
    /\ next' = next + 1
    /\ pc' = IF next = Len(doc.stages) THEN "manifest" ELSE "stages"

\* The build returns an error.  "internal" is "Parent result missing" and
\* "Missing metadata for layer".
Fail(why) ==
    /\ pc' = why
    /\ UNCHANGED <<builds, doc, world, next, results, metas, index, manifest, plain>>

\* The metadata pull_layer returns: it has only the output hash.
PulledMeta(output) == [input |-> None, output |-> output, parent |-> None]

\* A hit pulls the layer to the path "", for its metadata.  GrpcStoreClient creates
\* a file of that name, and fails: it is a StoreClient without PullWorks.
Hit ==
    /\ pc = "stages"
    /\ InputHash \in DOMAIN index
    /\ PullWorks
    /\ Advance(index[InputHash], TRUE, PulledMeta(index[InputHash]))
    /\ UNCHANGED <<builds, doc, world, index, manifest, plain>>

\* resolve_input_hash has no answer for the stage.
Missed == pc = "stages" /\ InputHash \notin DOMAIN index

\* A call of the store, of the engine or of the format fails, in any stage or in
\* publish_manifest.
CallFails == pc \in {"stages", "manifest"} /\ Fail("failed")

\* publish_layer: the layer is registered under its input hash.
Publish(input, output) == index' = Insert(index, input, output)

\* The parent's artifact is given to BuildKit if the parent was a hit.  BuildKit
\* finds the target by its name, but not by one the parser has made up.  The
\* answer to publish_layer may be lost, and the layer is published all the same.
Miss ==
    /\ Missed
    /\ LET p == Parent(doc, next)
           context == IF p # None /\ results[p].hit
                      THEN [n \in {p} |-> results[p].output] ELSE Empty
           target == FindStage(doc, Name(doc, next), Len(doc.stages))
           output == Filesystems(doc, world, context)[target]
           meta == [input |-> InputHash, output |-> output, parent |-> ParentHash] IN
       IF p \notin DOMAIN results \cup {None} THEN Fail("internal")
       ELSE IF target = 0 THEN Fail("failed")
       ELSE /\ \/ Advance(output, FALSE, meta)
               \/ pc' = "failed" /\ UNCHANGED <<next, results, metas>>
            /\ Publish(InputHash, output)
            /\ UNCHANGED <<builds, doc, world, manifest, plain>>

\* The layers of the release, as build puts them into the manifest.
ReleaseLayers == [i \in DOMAIN doc.release |-> metas[doc.release[i]]]

\* Mutant of Parsed: the hashes are taken as they come.
ParsedUnchecked(listed) == TRUE

\* The server parses the hashes of a manifest and panics on an empty one.
Parsed(listed) == \A i \in DOMAIN listed : listed[i].input # None

Manifest ==
    /\ pc = "manifest"
    /\ IF \E i \in DOMAIN doc.release : doc.release[i] \notin DOMAIN metas
       THEN Fail("internal")
       ELSE IF ~Parsed(ReleaseLayers) THEN Fail("failed")
       ELSE /\ manifest' = ReleaseLayers
            /\ pc' = "done"
            /\ UNCHANGED <<builds, doc, world, next, results, metas, index, plain>>

Next ==
    \/ \E d \in Dockerfiles, w \in Worlds : Parse(d, w)
    \/ Hit \/ CallFails \/ Miss \/ Manifest

Spec == Init /\ [][Next]_vars
-----------------------------------------------------------------------------

\* A Dockerfile that parse accepts has all that build looks up: every parent
\* has a result, and every layer of the release metadata.
AcceptedHasAll == pc # "internal"

\* A layer is never stale for a reason within the Dockerfiles.  Whatever was
\* built before, hit or rebuilt on top of an artifact from the store, every stage
\* has the filesystem a build without a cache would give it, as long as only
\* plain Dockerfiles are built and the images, the arguments and the files of
\* the context are for all builds the same; they are not hashed.
CacheIsRight ==
    plain /\ pc \in {"stages", "manifest", "done"} =>
        \A k \in 1 .. next - 1 : results[Name(doc, k)].output = Fresh(doc, world, k)

\* tad: "`COPY --from=` references resolved to the referenced stage's input hash":
\* the same of Dockerfiles that copy.
CopiesAreRight ==
    pc \in {"stages", "manifest", "done"} =>
        \A k \in 1 .. next - 1 : results[Name(doc, k)].output = Fresh(doc, world, k)

\* A manifest that is published is a chain: its layers are those the release
\* lists, and each names the input hash of its stage and that of the stage below
\* it.  The metadata a hit makes up never gets into one.
ManifestIsChain ==
    plain /\ manifest # None =>
        \A i \in DOMAIN doc.release :
            LET k == LayerStage(doc, doc.release[i])
                p == Parent(doc, k) IN
            /\ manifest[i].output = Fresh(doc, world, k)
            /\ manifest[i].input = results[Name(doc, k)].input
            /\ manifest[i].parent = IF p = None THEN None ELSE results[p].input
=============================================================================

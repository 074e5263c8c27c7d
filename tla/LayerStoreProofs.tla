-------------------------- MODULE LayerStoreProofs --------------------------
(***************************************************************************)
(* Proofs about LayerStore for any builds, plans, tags and faults.         *)
(* Typing needs to know that a build at work on a stage has a stage left.  *)
(* What is pulled and deployed then follows, in a store that is not        *)
(* collected, from the order of the writes in publish_layer: blobs, then   *)
(* metadata, then the index, then the manifest.  A store that is collected *)
(* while no build is under way keeps it, because every manifest is marked  *)
(* before a candidate is chosen, and a layer's metadata leads to the one   *)
(* index entry that leads to the layer.                                    *)
(***************************************************************************)
EXTENDS LayerStore, TLAPS

\* The steps of a build at which it is at work on a stage.
Working == {"resolve", "pull", "solve", "has_layer", "put", "layer_meta", "register"}

\* Such a build has not run out of stages, and one that pulls has a content;
\* a build that has not started has no stage behind it.
StageLeft ==
    \A b \in Builds :
        /\ pc[b] \in Working => Len(got[b]) < Len(Plan[b])
        /\ pc[b] = "idle" => got[b] = << >>
        /\ pc[b] = "pull" => hit[b] # None

\* A collection that deletes has a candidate.
Deleting == {"deploy", "cache", "read_meta", "index", "layer_meta", "next"}
HasCandidate == gc.pc \in Deleting => gc.cur # None

\* TypeOK in three parts: the builds, with StageLeft, the files and the rest.
RunsTyped ==
    /\ pc \in [Builds -> Pcs]
    /\ got \in [Builds -> Seq(Contents)]
    /\ \A b \in Builds : Len(got[b]) <= Len(Plan[b])
    /\ hit \in [Builds -> Contents \cup {None}]
    /\ up \in [Builds -> [Formats -> {"todo", "copying", "ok", "err"}]]
    /\ StageLeft

FilesTyped ==
    /\ objects \subseteq Contents \X Formats
    /\ layers \in [Contents -> Inputs \cup {None}]
    /\ index \in [Inputs -> Contents \cup {None}]
    /\ manifests \in [Builds -> (SUBSET Contents) \cup {None}]
    /\ catalog \subseteq Builds
    /\ tags \in [Tags -> Builds \cup {None}]

RestTyped ==
    /\ tagging \in [Tags -> Builds \cup {None}]
    /\ gc \in [pc : GcPcs, marked : SUBSET Builds, cands : SUBSET Contents,
               cur : Contents \cup {None}, input : Inputs \cup {None}]
    /\ HasCandidate

TInv == RunsTyped /\ FilesTyped /\ RestTyped

\* TInv is the type invariant, and more.
LEMMA TInvTypeOK == TInv => TypeOK
  BY DEF TInv, RunsTyped, FilesTyped, RestTyped, TypeOK

\* The stage a build is at is one of its plan.
LEMMA StageTyped ==
    ASSUME TInv, NEW b \in Builds, pc[b] \in Working
    PROVE  Stage(b).input \in Inputs /\ Stage(b).content \in Contents
<1>1. Plan[b] \in Seq(Stages) /\ got[b] \in Seq(Contents)
  BY LayerStoreAssumption DEF TInv, RunsTyped
<1>2. Len(got[b]) + 1 \in 1 .. Len(Plan[b])
  BY <1>1 DEF TInv, RunsTyped, StageLeft
<1>3. Stage(b) \in Stages
  BY <1>1, <1>2 DEF Stage
<1>4. QED
  BY <1>3 DEF Stages

\* Advance, the end of every stage, keeps the bookkeeping of the build typed.
LEMMA AdvanceTyped ==
    ASSUME TInv, NEW b \in Builds, pc[b] \in Working, NEW c \in Contents, Advance(b, c)
    PROVE  /\ got' \in [Builds -> Seq(Contents)]
           /\ \A x \in Builds : Len(got'[x]) <= Len(Plan[x])
           /\ pc' \in [Builds -> Pcs]
           /\ \A x \in Builds : pc'[x] \in Working => Len(got'[x]) < Len(Plan[x])
           /\ \A x \in Builds : pc'[x] = "pull" => pc[x] = "pull" /\ x # b
           /\ DOMAIN got'[b] = DOMAIN got[b] \cup {Len(got[b]) + 1}
           /\ got'[b][Len(got[b]) + 1] = c
           /\ \A k \in DOMAIN got[b] : got'[b][k] = got[b][k]
           /\ \A x \in Builds \ {b} : got'[x] = got[x] /\ pc'[x] = pc[x]
           /\ pc'[b] \in {"resolve", "manifest"}
<1>1. /\ got \in [Builds -> Seq(Contents)]
      /\ pc \in [Builds -> Pcs]
      /\ \A x \in Builds : Plan[x] \in Seq(Stages)
  BY LayerStoreAssumption DEF TInv, RunsTyped
<1>2. /\ got' = [got EXCEPT ![b] = Append(@, c)]
      /\ pc' = [pc EXCEPT ![b] =
                  IF Len(got[b]) + 1 < Len(Plan[b]) THEN "resolve" ELSE "manifest"]
  BY DEF Advance, Goto
<1>3. Len(got[b]) < Len(Plan[b])
  BY DEF TInv, RunsTyped, StageLeft
<1>4. /\ got'[b] \in Seq(Contents)
      /\ Len(got'[b]) = Len(got[b]) + 1
      /\ got'[b][Len(got[b]) + 1] = c
      /\ \A k \in 1 .. Len(got[b]) : got'[b][k] = got[b][k]
  BY <1>1, <1>2
<1>5. \A x \in Builds \ {b} : got'[x] = got[x] /\ pc'[x] = pc[x]
  BY <1>1, <1>2
<1>6. pc'[b] = IF Len(got[b]) + 1 < Len(Plan[b]) THEN "resolve" ELSE "manifest"
  BY <1>1, <1>2
<1>7. got' \in [Builds -> Seq(Contents)] /\ pc' \in [Builds -> Pcs]
  BY <1>1, <1>2 DEF Pcs
<1>8. \A x \in Builds : Len(got[x]) \in Nat /\ Len(Plan[x]) \in Nat
  BY <1>1
<1>9. \A x \in Builds : Len(got'[x]) <= Len(Plan[x])
  <2>1. \A x \in Builds : Len(got[x]) <= Len(Plan[x])
    BY DEF TInv, RunsTyped
  <2>2. QED
    BY <2>1, <1>3, <1>4, <1>5, <1>8
<1>10. \A x \in Builds : pc'[x] \in Working => Len(got'[x]) < Len(Plan[x])
  BY <1>4, <1>5, <1>6, <1>8 DEF TInv, RunsTyped, StageLeft, Working
<1>11. DOMAIN got'[b] = DOMAIN got[b] \cup {Len(got[b]) + 1}
  BY <1>1, <1>4, <1>8
<1>12. \A k \in DOMAIN got[b] : got'[b][k] = got[b][k]
  BY <1>1, <1>4
<1>13. QED
  BY <1>4, <1>5, <1>6, <1>7, <1>9, <1>10, <1>11, <1>12

\* The directory and the calls are typed at the start.
LEMMA InitTInv == Init => TInv
<1> SUFFICES ASSUME Init PROVE TInv
  OBVIOUS
<1>1. \A b \in Builds : Plan[b] \in Seq(Stages) /\ Len(Plan[b]) \in Nat /\ got[b] = << >>
  BY LayerStoreAssumption DEF Init
<1>2. gc \in [pc : GcPcs, marked : SUBSET Builds, cands : SUBSET Contents,
             cur : Contents \cup {None}, input : Inputs \cup {None}]
  BY DEF Init, GcIdle, GcPcs
<1>3. \A b \in Builds : Len(got[b]) <= Len(Plan[b])
  BY <1>1
<1>4. FilesTyped /\ RestTyped
  BY <1>2 DEF Init, FilesTyped, RestTyped, HasCandidate, Deleting, GcIdle
<1>5. StageLeft
  BY DEF Init, StageLeft, Working
<1>6. RunsTyped
  BY <1>3, <1>5 DEF Init, RunsTyped, Pcs, Ended
<1>7. QED
  BY <1>4, <1>6 DEF TInv

\* A step of a build that leaves got alone moves pc only.
LEMMA GotoTyped ==
    ASSUME TInv, NEW b \in Builds, NEW p \in Pcs, Goto(b, p), got' = got,
           p \in Working => pc[b] \in Working \/ pc[b] = "idle"
    PROVE  /\ pc' \in [Builds -> Pcs]
           /\ \A x \in Builds : pc'[x] \in Working => Len(got'[x]) < Len(Plan[x])
           /\ \A x \in Builds \ {b} : pc'[x] = pc[x]
           /\ pc'[b] = p
<1>1. pc \in [Builds -> Pcs]
  BY DEF TInv, RunsTyped
<1>2. pc' = [pc EXCEPT ![b] = p]
  BY DEF Goto
<1>3. (\A x \in Builds \ {b} : pc'[x] = pc[x]) /\ pc'[b] = p /\ pc' \in [Builds -> Pcs]
  BY <1>1, <1>2
<1>4. Plan[b] \in Seq(Stages) /\ Plan[b] # << >>
  BY LayerStoreAssumption
<1>5. Len(Plan[b]) > 0 /\ Len(<<  >>) = 0
  BY <1>4
<1>6. \A x \in Builds : pc'[x] \in Working => Len(got'[x]) < Len(Plan[x])
  BY <1>3, <1>5 DEF TInv, RunsTyped, StageLeft
<1>7. QED
  BY <1>3, <1>6

\* A build's step that only moves pc, and perhaps hit or up.
LEMMA GotoRuns ==
    ASSUME TInv, NEW b \in Builds, NEW p \in Pcs \ {"idle"}, Goto(b, p), got' = got,
           p \in Working => pc[b] \in Working \/ pc[b] = "idle",
           hit' \in [Builds -> Contents \cup {None}],
           \A x \in Builds \ {b} : hit'[x] = hit[x],
           p = "pull" => hit'[b] # None,
           up' \in [Builds -> [Formats -> {"todo", "copying", "ok", "err"}]]
    PROVE  RunsTyped'
<1>1. /\ pc' \in [Builds -> Pcs]
      /\ \A x \in Builds : pc'[x] \in Working => Len(got'[x]) < Len(Plan[x])
      /\ \A x \in Builds \ {b} : pc'[x] = pc[x]
      /\ pc'[b] = p
  BY GotoTyped
<1>2. StageLeft'
  BY <1>1 DEF TInv, RunsTyped, StageLeft
<1>3. QED
  BY <1>1, <1>2 DEF TInv, RunsTyped

\* The same for a step that ends a stage.
LEMMA AdvanceRuns ==
    ASSUME TInv, NEW b \in Builds, pc[b] \in Working, NEW c \in Contents, Advance(b, c),
           UNCHANGED <<hit, up>>
    PROVE  RunsTyped'
<1>1. /\ got' \in [Builds -> Seq(Contents)]
      /\ \A x \in Builds : Len(got'[x]) <= Len(Plan[x])
      /\ pc' \in [Builds -> Pcs]
      /\ \A x \in Builds : pc'[x] \in Working => Len(got'[x]) < Len(Plan[x])
      /\ \A x \in Builds \ {b} : got'[x] = got[x] /\ pc'[x] = pc[x]
      /\ pc'[b] \in {"resolve", "manifest"}
  BY AdvanceTyped
<1>2. StageLeft'
  BY <1>1 DEF TInv, RunsTyped, StageLeft
<1>3. QED
  BY <1>1, <1>2 DEF TInv, RunsTyped

\* Every step of a build keeps the store typed.
LEMMA BuildTInv ==
    ASSUME TInv, NEW b \in Builds, Build(b)
    PROVE  TInv'
<1> USE DEF TInv
<1>0. /\ hit \in [Builds -> Contents \cup {None}]
      /\ up \in [Builds -> [Formats -> {"todo", "copying", "ok", "err"}]]
  BY DEF RunsTyped
<1>1. CASE Start(b)
  <2>1. RunsTyped'
    BY <1>0, <1>1, GotoRuns DEF Start, Pcs, Ended, Working
  <2>2. QED
    BY <2>1, <1>1 DEF Start, files, FilesTyped, RestTyped, HasCandidate
<1>2. CASE Resolve(b)
  <2>1. pc[b] \in Working
    BY <1>2 DEF Resolve, Working
  <2>2. index[Stage(b).input] \in Contents \cup {None}
    BY <2>1, StageTyped DEF FilesTyped
  <2>3. RunsTyped'
    <3>1. CASE index[Stage(b).input] = None
      BY <3>1, <1>0, <1>2, <2>1, GotoRuns DEF Resolve, Pcs, Ended, Working
    <3>2. CASE index[Stage(b).input] # None
      <4>1. hit' = [hit EXCEPT ![b] = index[Stage(b).input]] /\ Goto(b, "pull")
        BY <3>2, <1>2 DEF Resolve
      <4>2. /\ hit' \in [Builds -> Contents \cup {None}]
            /\ \A x \in Builds \ {b} : hit'[x] = hit[x]
            /\ hit'[b] # None
        BY <4>1, <3>2, <1>0, <2>2
      <4>3. got' = got /\ up' = up
        BY <1>2 DEF Resolve
      <4>4. QED
        BY <4>1, <4>2, <4>3, <1>0, <2>1, GotoRuns DEF Pcs, Ended, Working
    <3>3. QED
      BY <3>1, <3>2
  <2>4. QED
    BY <2>3, <1>2 DEF Resolve, files, FilesTyped, RestTyped, HasCandidate
<1>3. CASE Pull(b)
  <2>1. pc[b] \in Working /\ hit[b] \in Contents /\ hit' = hit /\ up' = up
    BY <1>3, <1>0 DEF Pull, Working, RunsTyped, StageLeft
  <2>2. CASE Advance(b, hit[b])
    BY <2>1, <2>2, <1>3, AdvanceRuns DEF Pull, files, FilesTyped, RestTyped, HasCandidate
  <2>3. CASE Fail(b) /\ got' = got
    <3>1. RunsTyped'
      BY <2>1, <2>3, <1>0, GotoRuns DEF Fail, Pcs, Ended, Working
    <3>2. QED
      BY <3>1, <1>3 DEF Pull, files, FilesTyped, RestTyped, HasCandidate
  <2>4. QED
    BY <2>2, <2>3, <1>3 DEF Pull
<1>4. CASE Solve(b)
  <2>1. PICK p \in {"has_layer", "failed"} : Goto(b, p)
    BY <1>4 DEF Solve, Fail
  <2>2. /\ pc[b] = "solve" /\ got' = got /\ up' = up
        /\ hit' \in [Builds -> Contents \cup {None}]
        /\ \A x \in Builds \ {b} : hit'[x] = hit[x]
    BY <1>4, <1>0 DEF Solve
  <2>3. RunsTyped'
    BY <2>1, <2>2, <1>0, GotoRuns DEF Pcs, Ended, Working
  <2>4. QED
    BY <2>3, <1>4 DEF Solve, files, FilesTyped, RestTyped, HasCandidate
<1>5. CASE HasLayer(b)
  <2>1. pc[b] = "has_layer" /\ pc[b] \in Working /\ hit' = hit
    BY <1>5 DEF HasLayer, Working
  <2>2. CASE Advance(b, Stage(b).content) /\ up' = up
    <3>1. RunsTyped'
      BY <2>1, <2>2, StageTyped, AdvanceRuns
    <3>2. QED
      BY <3>1, <1>5 DEF HasLayer, files, FilesTyped, RestTyped, HasCandidate
  <2>3. CASE /\ up' = [up EXCEPT ![b] = [f \in Formats |-> "todo"]]
             /\ Goto(b, "put") /\ got' = got
    <3>1. up' \in [Builds -> [Formats -> {"todo", "copying", "ok", "err"}]]
      BY <2>3, <1>0
    <3>2. RunsTyped'
      BY <2>1, <2>3, <3>1, <1>0, GotoRuns DEF Pcs, Ended, Working
    <3>3. QED
      BY <3>2, <1>5 DEF HasLayer, files, FilesTyped, RestTyped, HasCandidate
  <2>4. CASE Fail(b) /\ got' = got /\ up' = up
    <3>1. RunsTyped'
      BY <2>1, <2>4, <1>0, GotoRuns DEF Fail, Pcs, Ended, Working
    <3>2. QED
      BY <3>1, <1>5 DEF HasLayer, files, FilesTyped, RestTyped, HasCandidate
  <2>5. QED
    BY <2>2, <2>3, <2>4, <1>5 DEF HasLayer
<1>6. ASSUME NEW f \in Formats, CheckBlob(b, f)
      PROVE  TInv'
  <2>1. up' \in [Builds -> [Formats -> {"todo", "copying", "ok", "err"}]]
    BY <1>6, <1>0 DEF CheckBlob
  <2>2. pc' = pc /\ got' = got /\ hit' = hit /\ files' = files /\ tagging' = tagging /\ gc' = gc
    BY <1>6 DEF CheckBlob
  <2>3. QED
    BY <2>1, <2>2 DEF files, FilesTyped, RestTyped, HasCandidate, RunsTyped, StageLeft
<1>7. ASSUME NEW f \in Formats, RenameBlob(b, f)
      PROVE  TInv'
  <2>1. up' \in [Builds -> [Formats -> {"todo", "copying", "ok", "err"}]]
    BY <1>7, <1>0 DEF RenameBlob
  <2>2. objects' \subseteq Contents \X Formats
    <3>1. Stage(b).content \in Contents
      BY <1>7, StageTyped DEF RenameBlob, Working
    <3>2. objects' \subseteq objects \cup {<<Stage(b).content, f>>}
      BY <1>7 DEF RenameBlob
    <3>3. QED
      BY <3>1, <3>2 DEF FilesTyped
  <2>3. /\ pc' = pc /\ got' = got /\ hit' = hit /\ tagging' = tagging /\ gc' = gc
        /\ UNCHANGED <<layers, index, manifests, catalog, tags>>
    BY <1>7 DEF RenameBlob
  <2>4. QED
    BY <2>1, <2>2, <2>3 DEF FilesTyped, RestTyped, HasCandidate, RunsTyped, StageLeft
<1>8. CASE JoinBlobs(b)
  <2>1. PICK p \in {"layer_meta", "failed"} : Goto(b, p)
    BY <1>8 DEF JoinBlobs, Fail
  <2>2. RunsTyped'
    BY <1>8, <2>1, <1>0, GotoRuns DEF JoinBlobs, Pcs, Ended, Working
  <2>3. QED
    BY <2>2, <1>8 DEF JoinBlobs, files, FilesTyped, RestTyped, HasCandidate
<1>9. CASE PutLayerMeta(b)
  <2>1. PICK p \in {"register", "failed"} : Goto(b, p)
    BY <1>9 DEF PutLayerMeta, Fail
  <2>2. RunsTyped'
    BY <1>9, <2>1, <1>0, GotoRuns DEF PutLayerMeta, Pcs, Ended, Working
  <2>3. layers' \in [Contents -> Inputs \cup {None}]
    <3>1. Stage(b).input \in Inputs
      BY <1>9, StageTyped DEF PutLayerMeta, Working
    <3>2. QED
      BY <3>1, <1>9 DEF PutLayerMeta, FilesTyped
  <2>4. QED
    BY <2>2, <2>3, <1>9 DEF PutLayerMeta, FilesTyped, RestTyped, HasCandidate
<1>10. CASE RegisterInputHash(b)
  <2>1. /\ pc[b] \in Working /\ hit' = hit /\ up' = up
        /\ Stage(b).content \in Contents
    BY <1>10, StageTyped DEF RegisterInputHash, Working
  <2>2. index' \in [Inputs -> Contents \cup {None}]
    BY <2>1, <1>10 DEF RegisterInputHash, FilesTyped
  <2>3. RunsTyped'
    <3>1. CASE Advance(b, Stage(b).content)
      BY <3>1, <2>1, AdvanceRuns
    <3>2. CASE Fail(b) /\ got' = got
      BY <3>2, <2>1, <1>0, GotoRuns DEF Fail, Pcs, Ended, Working
    <3>3. QED
      BY <3>1, <3>2, <1>10 DEF RegisterInputHash
  <2>4. QED
    BY <2>2, <2>3, <1>10 DEF RegisterInputHash, FilesTyped, RestTyped, HasCandidate
<1>11. CASE PublishManifest(b)
  <2>1. PICK p \in {"catalog", "failed"} : Goto(b, p)
    BY <1>11 DEF PublishManifest, Fail
  <2>2. RunsTyped'
    BY <1>11, <2>1, <1>0, GotoRuns DEF PublishManifest, Pcs, Ended, Working
  <2>3. manifests' \in [Builds -> (SUBSET Contents) \cup {None}]
    <3>1. got[b] \in Seq(Contents)
      BY DEF RunsTyped
    <3>2. {got[b][k] : k \in DOMAIN got[b]} \in SUBSET Contents
      BY <3>1
    <3>3. QED
      BY <3>2, <1>11 DEF PublishManifest, FilesTyped
  <2>4. QED
    BY <2>2, <2>3, <1>11 DEF PublishManifest, FilesTyped, RestTyped, HasCandidate
<1>12. CASE PutCatalogEntry(b)
  <2>1. PICK p \in {"done", "failed"} : Goto(b, p)
    BY <1>12 DEF PutCatalogEntry, Fail
  <2>2. RunsTyped'
    BY <1>12, <2>1, <1>0, GotoRuns DEF PutCatalogEntry, Pcs, Ended, Working
  <2>3. QED
    BY <2>2, <1>12 DEF PutCatalogEntry, FilesTyped, RestTyped, HasCandidate
<1>13. QED
  BY <1>1, <1>2, <1>3, <1>4, <1>5, <1>6, <1>7, <1>8, <1>9, <1>10, <1>11, <1>12 DEF Build

\* So does every step of a collection.
LEMMA GcTInv ==
    ASSUME TInv, Gc
    PROVE  TInv'
<1> USE DEF TInv
<1> DEFINE GcType == [pc : GcPcs, marked : SUBSET Builds, cands : SUBSET Contents,
                      cur : Contents \cup {None}, input : Inputs \cup {None}]
<1>1. /\ gc.pc \in GcPcs /\ gc.marked \subseteq Builds /\ gc.cands \subseteq Contents
      /\ gc.cur \in Contents \cup {None} /\ gc.input \in Inputs \cup {None}
      /\ gc \in GcType
  BY DEF RestTyped, HasCandidate
<1>2. RunsTyped' /\ tagging' = tagging
  BY DEF Gc, GcListTags, GcListManifests, GcSweep, GcDiscard, GcTake, GcDeleteBlob,
         GcReadMeta, GcDeleteIndex, GcDeleteMeta, runs, RunsTyped, StageLeft
<1>3. FilesTyped'
  <2>1. CASE UNCHANGED files
    BY <2>1 DEF files, FilesTyped
  <2>2. CASE GcDeleteBlob
    BY <2>2 DEF GcDeleteBlob, FilesTyped
  <2>3. CASE GcDeleteIndex
    BY <2>3 DEF GcDeleteIndex, FilesTyped
  <2>4. CASE GcDeleteMeta
    BY <2>4 DEF GcDeleteMeta, FilesTyped
  <2>5. QED
    BY <2>1, <2>2, <2>3, <2>4
    DEF Gc, GcListTags, GcListManifests, GcSweep, GcDiscard, GcTake, GcReadMeta
<1>4. gc' \in GcType
  <2>1. CASE GcListTags
    <3>1. {tags[t] : t \in Tags} \ {None} \subseteq Builds
      BY DEF FilesTyped
    <3>2. QED
      BY <3>1, <2>1, <1>1 DEF GcListTags, GcPcs
  <2>2. CASE GcListManifests
    BY <2>2, <1>1 DEF GcListManifests, GcPcs
  <2>3. CASE GcSweep
    BY <2>3, <1>1 DEF GcSweep, GcPcs
  <2>4. CASE gc' = GcIdle
    BY <2>4 DEF GcIdle, GcPcs
  <2>5. CASE \E c \in gc.cands :
                gc' = [gc EXCEPT !.pc = "deploy", !.cur = c, !.cands = @ \ {c}]
    BY <2>5, <1>1 DEF GcPcs
  <2>6. CASE \E p \in GcPcs : gc' = [gc EXCEPT !.pc = p]
    BY <2>6, <1>1
  <2>7. CASE GcReadMeta
    <3>1. layers[gc.cur] \in Inputs \cup {None}
      BY <2>7, <1>1 DEF GcReadMeta, RestTyped, HasCandidate, Deleting, FilesTyped
    <3>2. QED
      BY <3>1, <2>7, <1>1 DEF GcReadMeta, GcPcs
  <2>8. GcDeleteBlob \/ GcDeleteIndex \/ GcDeleteMeta => \E p \in GcPcs : gc' = [gc EXCEPT !.pc = p]
    BY DEF GcDeleteBlob, GcDeleteIndex, GcDeleteMeta, GcGoto, GcPcs
  <2>9. QED
    BY <2>1, <2>2, <2>3, <2>4, <2>5, <2>6, <2>7, <2>8 DEF Gc, GcDiscard, GcTake
<1>5. HasCandidate'
  <2>1. CASE GcTake
    <3>1. \A c \in gc.cands : c # None
      BY <1>1, LayerStoreAssumption
    <3>2. CASE gc' = GcIdle
      BY <3>2 DEF GcIdle, HasCandidate, Deleting
    <3>3. CASE \E c \in gc.cands :
                  gc' = [gc EXCEPT !.pc = "deploy", !.cur = c, !.cands = @ \ {c}]
      <4>1. PICK c \in gc.cands :
                   gc' = [gc EXCEPT !.pc = "deploy", !.cur = c, !.cands = @ \ {c}]
        BY <3>3
      <4>2. gc'.cur = c
        BY <4>1, <1>1
      <4>3. QED
        BY <4>2, <3>1 DEF HasCandidate
    <3>4. QED
      BY <3>2, <3>3, <2>1 DEF GcTake
  <2>2. CASE GcListTags \/ GcListManifests \/ GcSweep \/ GcDiscard
    <3>1. gc'.pc \in {"tags", "marked", "report", "idle"}
      <4>1. GcListTags => gc'.pc = "tags"
        BY <1>1 DEF GcListTags
      <4>2. GcListManifests => gc'.pc = "marked"
        BY <1>1 DEF GcListManifests
      <4>3. GcSweep => gc'.pc = "report"
        BY <1>1 DEF GcSweep
      <4>4. GcDiscard => gc'.pc = "idle"
        BY DEF GcDiscard, GcIdle
      <4>5. QED
        BY <4>1, <4>2, <4>3, <4>4, <2>2
    <3>2. QED
      BY <3>1 DEF HasCandidate, Deleting
  <2>3. CASE GcDeleteBlob \/ GcReadMeta \/ GcDeleteIndex \/ GcDeleteMeta
    <3>1. gc.cur # None
      BY <2>3 DEF GcDeleteBlob, GcReadMeta, GcDeleteIndex, GcDeleteMeta, Formats,
                  RestTyped, HasCandidate, Deleting
    <3>2. gc'.cur = gc.cur
      BY <2>3, <1>1 DEF GcDeleteBlob, GcReadMeta, GcDeleteIndex, GcDeleteMeta, GcGoto
    <3>3. QED
      BY <3>1, <3>2 DEF HasCandidate
  <2>4. QED
    BY <2>1, <2>2, <2>3 DEF Gc
<1>6. QED
  BY <1>2, <1>3, <1>4, <1>5 DEF RestTyped

\* And every step of the specification.
LEMMA NextTInv == TInv /\ [Next]_vars => TInv'
<1> SUFFICES ASSUME TInv, [Next]_vars PROVE TInv'
  OBVIOUS
<1>1. ASSUME NEW t \in Tags, Tag(t)
      PROVE  TInv'
  <2>1. \A b \in Builds : FindManifest(t, b) => TInv'
    BY DEF FindManifest, files, runs, TInv, RunsTyped, StageLeft, FilesTyped, RestTyped,
           HasCandidate
  <2>2. PutTag(t) => TInv'
    BY DEF PutTag, runs, TInv, RunsTyped, StageLeft, FilesTyped, RestTyped, HasCandidate
  <2>3. DeleteTag(t) => TInv'
    BY DEF DeleteTag, runs, TInv, RunsTyped, StageLeft, FilesTyped, RestTyped, HasCandidate
  <2>4. QED
    BY <2>1, <2>2, <2>3, <1>1 DEF Tag
<1>2. CASE Crash
  <2>1. RunsTyped'
    BY <1>2 DEF Crash, InFlight, Ended, Pcs, Working, TInv, RunsTyped, StageLeft
  <2>2. FilesTyped' /\ RestTyped'
    BY <1>2 DEF Crash, files, TInv, FilesTyped, RestTyped, HasCandidate, Deleting,
                GcIdle, GcPcs
  <2>3. QED
    BY <2>1, <2>2 DEF TInv
<1>3. CASE UNCHANGED vars
  BY <1>3 DEF vars, files, runs, TInv, RunsTyped, StageLeft, FilesTyped, RestTyped, HasCandidate
<1>4. QED
  BY <1>1, <1>2, <1>3, BuildTInv, GcTInv DEF Next

\* The store's files, the builds and the collection stay typed.
THEOREM TypeCorrect == Spec => []TypeOK
<1>1. Spec => []TInv
  BY InitTInv, NextTInv, PTL DEF Spec
<1>2. QED
  BY <1>1, TInvTypeOK, PTL

-----------------------------------------------------------------------------
\* create_tag holds a manifest it has found, and a catalog entry is written
\* after its manifest: what makes ReferencesResolve inductive.
ReferencesPending ==
    /\ \A t \in Tags : tagging[t] # None => manifests[tagging[t]] # None
    /\ \A b \in Builds : pc[b] = "catalog" => manifests[b] # None

RInv == TInv /\ ReferencesResolve /\ ReferencesPending

\* No step of the store removes a manifest.
LEMMA ManifestsStay ==
    ASSUME TInv, [Next]_vars, NEW b \in Builds, manifests[b] # None
    PROVE  manifests'[b] # None
<1>1. ASSUME NEW x \in Builds, PublishManifest(x)
      PROVE  manifests'[b] # None
  <2>1. {got[x][k] : k \in DOMAIN got[x]} # None
    <3>1. got[x] \in Seq(Contents)
      BY DEF TInv, RunsTyped
    <3>2. {got[x][k] : k \in DOMAIN got[x]} \in SUBSET Contents
      BY <3>1
    <3>3. QED
      BY <3>2, LayerStoreAssumption
  <2>2. QED
    BY <1>1, <2>1 DEF PublishManifest, TInv, FilesTyped
<1>2. CASE UNCHANGED manifests
  BY <1>2
<1>3. ASSUME NEW x \in Builds, Build(x), ~PublishManifest(x)
      PROVE  UNCHANGED manifests
  BY <1>3 DEF Build, Start, Resolve, Pull, Solve, HasLayer, CheckBlob, RenameBlob,
         JoinBlobs, PutLayerMeta, RegisterInputHash, PutCatalogEntry, files
<1>4. ASSUME NEW t \in Tags, Tag(t)
      PROVE  UNCHANGED manifests
  BY <1>4 DEF Tag, FindManifest, PutTag, DeleteTag, files
<1>5. Gc => UNCHANGED manifests
  BY DEF Gc, GcListTags, GcListManifests, GcSweep, GcDiscard, GcTake, GcDeleteBlob,
         GcReadMeta, GcDeleteIndex, GcDeleteMeta, files
<1>6. Crash \/ UNCHANGED vars => UNCHANGED manifests
  BY DEF Crash, files, vars
<1>7. QED
  BY <1>1, <1>2, <1>3, <1>4, <1>5, <1>6 DEF Next

\* Every step keeps what tags and catalog entries refer to.
LEMMA NextRInv == RInv /\ [Next]_vars => RInv'
<1> SUFFICES ASSUME RInv, [Next]_vars PROVE RInv'
  OBVIOUS
<1> USE DEF RInv
<1>1. TInv'
  BY NextTInv
<1>2. \A b \in Builds : manifests[b] # None => manifests'[b] # None
  BY ManifestsStay
<1>3. \A t \in Tags : tags[t] \in Builds \cup {None} /\ tagging[t] \in Builds \cup {None}
  BY DEF TInv, FilesTyped, RestTyped
<1>4. catalog \subseteq Builds
  BY DEF TInv, FilesTyped
<1>5. CASE UNCHANGED <<tags, catalog, tagging>> /\ \A b \in Builds : pc'[b] = "catalog" => pc[b] = "catalog"
  BY <1>1, <1>2, <1>3, <1>4, <1>5 DEF ReferencesResolve, ReferencesPending
<1>6. ASSUME NEW b \in Builds, PublishManifest(b)
      PROVE  RInv'
  <2>1. {got[b][k] : k \in DOMAIN got[b]} # None
    <3>1. got[b] \in Seq(Contents)
      BY DEF TInv, RunsTyped
    <3>2. {got[b][k] : k \in DOMAIN got[b]} \in SUBSET Contents
      BY <3>1
    <3>3. QED
      BY <3>2, LayerStoreAssumption
  <2>2. UNCHANGED <<tags, catalog, tagging>>
    BY <1>6 DEF PublishManifest
  <2>3. \A x \in Builds : pc'[x] = "catalog" => manifests'[x] # None
    BY <1>6, <2>1, <1>2 DEF PublishManifest, Goto, Fail, TInv, RunsTyped, FilesTyped,
                            ReferencesPending
  <2>4. QED
    BY <1>1, <1>2, <1>3, <1>4, <2>2, <2>3 DEF ReferencesResolve, ReferencesPending
<1>7. ASSUME NEW b \in Builds, PutCatalogEntry(b)
      PROVE  RInv'
  <2>1. /\ pc[b] = "catalog" /\ catalog' \subseteq catalog \cup {b}
        /\ UNCHANGED <<tags, tagging>>
        /\ \A x \in Builds : pc'[x] = "catalog" => pc[x] = "catalog"
    BY <1>7 DEF PutCatalogEntry, Goto, Fail, TInv, RunsTyped
  <2>2. QED
    BY <1>1, <1>2, <1>3, <1>4, <2>1 DEF ReferencesResolve, ReferencesPending
<1>8. ASSUME NEW b \in Builds, Build(b), ~PublishManifest(b), ~PutCatalogEntry(b)
      PROVE  RInv'
  <2>1. UNCHANGED <<tags, catalog, tagging>>
    BY <1>8 DEF Build, Start, Resolve, Pull, Solve, HasLayer, CheckBlob, RenameBlob,
           JoinBlobs, PutLayerMeta, RegisterInputHash, files
  <2>2. \A x \in Builds : pc'[x] = "catalog" => pc[x] = "catalog"
    BY <1>8 DEF Build, Start, Resolve, Pull, Solve, HasLayer, CheckBlob, RenameBlob,
           JoinBlobs, PutLayerMeta, RegisterInputHash, Goto, Fail, Advance, TInv, RunsTyped
  <2>3. QED
    BY <2>1, <2>2, <1>5
<1>9. ASSUME NEW t \in Tags, Tag(t)
      PROVE  RInv'
  <2>1. UNCHANGED <<pc, catalog, manifests>>
    BY <1>9 DEF Tag, FindManifest, PutTag, DeleteTag, files, runs
  <2>2. \A x \in Tags : tags'[x] # None => tags'[x] \in Builds /\ manifests'[tags'[x]] # None
    BY <1>9, <1>3, <2>1 DEF Tag, FindManifest, PutTag, DeleteTag, files, TInv, FilesTyped,
                            RestTyped, ReferencesResolve, ReferencesPending
  <2>3. \A x \in Tags : tagging'[x] # None => manifests'[tagging'[x]] # None
    BY <1>9, <2>1 DEF Tag, FindManifest, PutTag, DeleteTag, TInv, RestTyped, ReferencesPending
  <2>4. QED
    BY <1>1, <2>1, <2>2, <2>3 DEF ReferencesResolve, ReferencesPending
<1>10. CASE Gc \/ UNCHANGED vars
  <2>1. UNCHANGED <<tags, catalog, tagging, pc>>
    BY <1>10 DEF Gc, GcListTags, GcListManifests, GcSweep, GcDiscard, GcTake, GcDeleteBlob,
                 GcReadMeta, GcDeleteIndex, GcDeleteMeta, files, runs, vars
  <2>2. QED
    BY <2>1, <1>5
<1>11. CASE Crash
  <2>1. /\ UNCHANGED <<tags, catalog, manifests>>
        /\ \A t \in Tags : tagging'[t] = None
        /\ \A b \in Builds : pc'[b] # "catalog"
    BY <1>11 DEF Crash, files, InFlight, Ended, BetweenCalls
  <2>2. QED
    BY <1>1, <1>2, <1>3, <1>4, <2>1 DEF ReferencesResolve, ReferencesPending
<1>12. QED
  BY <1>6, <1>7, <1>8, <1>9, <1>10, <1>11 DEF Next

\* A tag and a catalog entry always point to a manifest in the store, for any
\* builds and tags, with any crash, failed write or concurrent collection
\* (create_tag, publish_manifest, gc_execute).
THEOREM ReferencesAlwaysResolve == Spec => []ReferencesResolve
<1>1. Init => RInv
  BY InitTInv DEF Init, RInv, ReferencesResolve, ReferencesPending
<1>2. RInv => ReferencesResolve
  BY DEF RInv
<1>3. QED
  BY <1>1, <1>2, NextRInv, PTL DEF Spec

-----------------------------------------------------------------------------
\* What publish_layer has written when it gets to each of its steps.
Has(c) == <<c, "deploy">> \in objects

UploadsDone ==
    \A b \in Builds :
        /\ pc[b] = "put" => \A f \in Formats : up[b][f] = "ok" => <<Stage(b).content, f>> \in objects
        /\ pc[b] \in {"layer_meta", "register"} => Complete(Stage(b).content)
        /\ pc[b] = "register" => layers[Stage(b).content] # None

IndexComplete ==
    \A i \in Inputs : index[i] # None => Complete(index[i]) /\ layers[index[i]] # None

\* What a build has counted as done, or was promised by the index, is there until
\* the build has ended.
GotDeployable ==
    \A b \in Builds : pc[b] \notin {"done", "failed"} =>
        /\ \A k \in DOMAIN got[b] : Has(got[b][k])
        /\ pc[b] = "pull" => Has(hit[b])

UInv ==
    /\ TInv
    /\ gc = GcIdle
    /\ UploadsDone
    /\ IndexComplete
    /\ GotDeployable
    /\ ManifestDeployable

\* While nothing is collected files are only added, so what is complete stays so.
LEMMA UInvGrows ==
    ASSUME UInv, TInv', gc' = gc,
           objects \subseteq objects',
           \A c \in Contents : layers[c] # None => layers'[c] # None,
           \A b \in Builds :
               /\ got'[b] = got[b] /\ (pc'[b] = "pull" => pc[b] = "pull" /\ hit'[b] = hit[b])
               /\ pc'[b] \in {"done", "failed"} \/ pc[b] \notin {"done", "failed"}
               /\ pc'[b] = "put" => pc[b] = "put" /\ up'[b] = up[b]
               /\ pc'[b] \in {"layer_meta", "register"} => pc'[b] = pc[b],
           index' = index,
           manifests' = manifests
    PROVE  UInv'
<1>1. \A b \in Builds : Stage(b)' = Stage(b)
  BY DEF Stage
<1>2. \A b \in Builds : pc[b] = "register" => Stage(b).content \in Contents
  BY StageTyped DEF UInv, Working
<1>3. UploadsDone'
  BY <1>1, <1>2 DEF UInv, UploadsDone, Complete
<1>4. IndexComplete'
  BY DEF UInv, TInv, FilesTyped, IndexComplete, Complete
<1>5. GotDeployable' /\ ManifestDeployable'
  BY DEF UInv, GotDeployable, Has, ManifestDeployable
<1>6. QED
  BY <1>3, <1>4, <1>5 DEF UInv

\* The end of a stage whose deploy artifact is there.
LEMMA UInvAdvance ==
    ASSUME UInv, TInv', NEW b \in Builds, pc[b] \in Working, NEW c \in Contents,
           Has(c), Advance(b, c), IndexComplete',
           UNCHANGED <<objects, layers, manifests, hit, up, gc>>
    PROVE  UInv'
<1>1. /\ \A x \in Builds : pc'[x] = "pull" => pc[x] = "pull" /\ x # b
      /\ DOMAIN got'[b] = DOMAIN got[b] \cup {Len(got[b]) + 1}
      /\ got'[b][Len(got[b]) + 1] = c
      /\ \A k \in DOMAIN got[b] : got'[b][k] = got[b][k]
      /\ \A x \in Builds \ {b} : got'[x] = got[x] /\ pc'[x] = pc[x]
      /\ pc'[b] \in {"resolve", "manifest"} /\ pc[b] \notin {"done", "failed"}
  BY AdvanceTyped DEF UInv, Working
<1>2. \A x \in Builds \ {b} : Stage(x)' = Stage(x)
  BY <1>1 DEF Stage
<1>3. UploadsDone'
  BY <1>1, <1>2 DEF UInv, UploadsDone, Complete
<1>4. GotDeployable'
  BY <1>1 DEF UInv, GotDeployable, Has
<1>5. ManifestDeployable'
  BY DEF UInv, ManifestDeployable
<1>6. QED
  BY <1>3, <1>4, <1>5 DEF UInv

\* No step but one of a collection takes away what an index entry, a build or a
\* manifest relies on.
LEMMA NextUInv ==
    ASSUME UInv, [Next]_vars, ~Gc
    PROVE  UInv'
<1>0. TInv'
  BY NextTInv DEF UInv
<1>1. gc.pc = "idle" /\ pc \in [Builds -> Pcs] /\ IndexComplete
  BY DEF UInv, GcIdle, TInv, RunsTyped
<1>2. ASSUME NEW b \in Builds, Start(b) \/ Solve(b) \/ PutCatalogEntry(b)
      PROVE  UInv'
  <2>1. /\ pc[b] \notin {"done", "failed"}
        /\ pc'[b] \notin {"pull", "put", "layer_meta", "register"}
        /\ \A x \in Builds \ {b} : pc'[x] = pc[x] /\ hit'[x] = hit[x]
    BY <1>2, <1>1 DEF Start, Solve, PutCatalogEntry, Goto, Fail, UInv, TInv, RunsTyped
  <2>2. UNCHANGED <<objects, layers, index, manifests, got, up, gc>>
    BY <1>2 DEF Start, Solve, PutCatalogEntry, files
  <2>3. QED
    BY <2>1, <2>2, <1>0, UInvGrows
<1>3. ASSUME NEW b \in Builds, Resolve(b)
      PROVE  UInv'
  <2>1. /\ pc[b] = "resolve" /\ Stage(b).input \in Inputs
        /\ UNCHANGED <<files, got, up, gc>>
    BY <1>3, StageTyped DEF Resolve, Working, UInv
  <2>2. CASE index[Stage(b).input] = None
    <3>1. pc' = [pc EXCEPT ![b] = "solve"] /\ hit' = hit
      BY <2>2, <1>3 DEF Resolve, Goto
    <3>2. QED
      BY <3>1, <2>1, <1>0, <1>1, UInvGrows DEF files
  <2>3. CASE index[Stage(b).input] # None
    <3>1. /\ pc' = [pc EXCEPT ![b] = "pull"]
          /\ hit' = [hit EXCEPT ![b] = index[Stage(b).input]]
      BY <2>3, <1>3 DEF Resolve, Goto
    <3>2. Has(index[Stage(b).input])
      BY <2>1, <2>3, <1>1 DEF IndexComplete, Complete, Has, Formats
    <3>3. hit \in [Builds -> Contents \cup {None}]
      BY DEF UInv, TInv, RunsTyped
    <3>4. GotDeployable'
      BY <3>1, <3>2, <3>3, <2>1, <1>1 DEF UInv, GotDeployable, Has, files
    <3>5. UploadsDone'
      BY <3>1, <2>1, <1>1 DEF UInv, UploadsDone, Complete, Stage, files
    <3>6. IndexComplete' /\ ManifestDeployable' /\ gc' = GcIdle
      BY <2>1 DEF UInv, IndexComplete, Complete, ManifestDeployable, files
    <3>7. QED
      BY <3>4, <3>5, <3>6, <1>0 DEF UInv
  <2>4. QED
    BY <2>2, <2>3
<1>4. ASSUME NEW b \in Builds, Pull(b)
      PROVE  UInv'
  <2>1. /\ pc[b] = "pull" /\ pc[b] \in Working /\ hit[b] \in Contents /\ Has(hit[b])
        /\ UNCHANGED <<objects, layers, index, manifests, hit, up, gc>>
    BY <1>4 DEF Pull, files, Working, UInv, GotDeployable, TInv, RunsTyped, StageLeft
  <2>2. CASE Advance(b, hit[b])
    <3>1. IndexComplete'
      BY <2>1, <1>1 DEF IndexComplete, Complete
    <3>2. QED
      BY <2>1, <2>2, <3>1, <1>0, UInvAdvance
  <2>3. CASE Fail(b) /\ got' = got
    BY <2>1, <2>3, <1>0, <1>1, UInvGrows DEF Fail, Goto
  <2>4. QED
    BY <2>2, <2>3, <1>4 DEF Pull
<1>5. ASSUME NEW b \in Builds, HasLayer(b)
      PROVE  UInv'
  <2>1. /\ pc[b] = "has_layer" /\ pc[b] \in Working /\ Stage(b).content \in Contents
        /\ UNCHANGED <<objects, layers, index, manifests, hit, gc>>
    BY <1>5, StageTyped DEF HasLayer, files, Working, UInv
  <2>2. IndexComplete'
    BY <2>1, <1>1 DEF IndexComplete, Complete
  <2>3. CASE Has(Stage(b).content) /\ Advance(b, Stage(b).content) /\ up' = up
    BY <2>1, <2>2, <2>3, <1>0, UInvAdvance
  <2>4. CASE up' = [up EXCEPT ![b] = [f \in Formats |-> "todo"]] /\ Goto(b, "put") /\ got' = got
    <3>1. /\ up' = [up EXCEPT ![b] = [f \in Formats |-> "todo"]]
          /\ pc' = [pc EXCEPT ![b] = "put"] /\ got' = got
      BY <2>4 DEF Goto
    <3>2. up \in [Builds -> [Formats -> {"todo", "copying", "ok", "err"}]]
      BY DEF UInv, TInv, RunsTyped
    <3>3. UploadsDone'
      BY <3>1, <3>2, <2>1, <1>1 DEF UInv, UploadsDone, Complete, Stage
    <3>4. GotDeployable' /\ ManifestDeployable'
      BY <3>1, <2>1, <1>1 DEF UInv, GotDeployable, ManifestDeployable, Has
    <3>5. QED
      BY <3>3, <3>4, <2>1, <2>2, <1>0 DEF UInv
  <2>5. CASE Fail(b) /\ got' = got /\ up' = up
    BY <2>1, <2>5, <1>0, <1>1, UInvGrows DEF Fail, Goto
  <2>6. QED
    BY <2>3, <2>4, <2>5, <1>5 DEF HasLayer, Has
<1>6. ASSUME NEW b \in Builds, NEW f \in Formats, CheckBlob(b, f) \/ RenameBlob(b, f)
      PROVE  UInv'
  <2>1. /\ pc[b] = "put" /\ objects \subseteq objects'
        /\ UNCHANGED <<layers, index, manifests, pc, got, hit, gc>>
    BY <1>6 DEF CheckBlob, RenameBlob, files
  <2>2. up \in [Builds -> [Formats -> {"todo", "copying", "ok", "err"}]]
    BY DEF UInv, TInv, RunsTyped
  <2>3. /\ \A x \in Builds \ {b} : up'[x] = up[x]
        /\ \A g \in Formats \ {f} : up'[b][g] = up[b][g]
        /\ up'[b][f] = "ok" => <<Stage(b).content, f>> \in objects'
    BY <1>6, <2>2 DEF CheckBlob, RenameBlob, files
  <2>4. \A x \in Builds : Stage(x)' = Stage(x)
    BY <2>1 DEF Stage
  <2>5. UploadsDone'
    BY <2>1, <2>3, <2>4 DEF UInv, UploadsDone, Complete
  <2>6. IndexComplete'
    BY <2>1, <1>1 DEF IndexComplete, Complete
  <2>7. GotDeployable' /\ ManifestDeployable'
    BY <2>1 DEF UInv, GotDeployable, ManifestDeployable, Has
  <2>8. QED
    BY <2>1, <2>5, <2>6, <2>7, <1>0 DEF UInv
<1>7. ASSUME NEW b \in Builds, JoinBlobs(b)
      PROVE  UInv'
  <2>1. pc[b] = "put" /\ UNCHANGED <<objects, layers, index, manifests, got, hit, up, gc>>
    BY <1>7 DEF JoinBlobs, files
  <2>2. CASE \E f \in Formats : up[b][f] = "err"
    BY <1>7, <2>1, <2>2, <1>0, <1>1, UInvGrows DEF JoinBlobs, Fail, Goto
  <2>3. CASE ~\E f \in Formats : up[b][f] = "err"
    <3>1. \A f \in Formats : up[b][f] = "ok"
      BY <1>7, <2>3 DEF JoinBlobs, Formats
    <3>2. Complete(Stage(b).content)
      BY <2>1, <3>1 DEF UInv, UploadsDone, Complete
    <3>3. pc' = [pc EXCEPT ![b] = "layer_meta"]
      BY <1>7, <2>3 DEF JoinBlobs, Goto
    <3>4. UploadsDone'
      BY <3>2, <3>3, <2>1, <1>1 DEF UInv, UploadsDone, Complete, Stage
    <3>5. GotDeployable' /\ ManifestDeployable' /\ IndexComplete'
      BY <3>3, <2>1, <1>1 DEF UInv, GotDeployable, ManifestDeployable, IndexComplete, Complete, Has
    <3>6. QED
      BY <3>4, <3>5, <2>1, <1>0 DEF UInv
  <2>4. QED
    BY <2>2, <2>3
<1>8. ASSUME NEW b \in Builds, PutLayerMeta(b)
      PROVE  UInv'
  <2>1. /\ pc[b] = "layer_meta" /\ Complete(Stage(b).content)
        /\ Stage(b).content \in Contents /\ Stage(b).input \in Inputs
        /\ UNCHANGED <<objects, index, manifests, got, hit, up, gc>>
    BY <1>8, StageTyped DEF PutLayerMeta, Working, UInv, UploadsDone
  <2>2. CASE Fail(b) /\ layers' = layers
    BY <2>1, <2>2, <1>0, <1>1, UInvGrows DEF Fail, Goto
  <2>3. CASE /\ layers' = [layers EXCEPT ![Stage(b).content] = Stage(b).input]
             /\ Goto(b, "register")
    <3>1. Stage(b).input # None
      BY <2>1, LayerStoreAssumption
    <3>2. layers \in [Contents -> Inputs \cup {None}]
      BY DEF UInv, TInv, FilesTyped
    <3>3. /\ \A c \in Contents : layers[c] # None => layers'[c] # None
          /\ layers'[Stage(b).content] # None
      BY <2>1, <2>3, <3>1, <3>2
    <3>4. pc' = [pc EXCEPT ![b] = "register"]
      BY <2>3 DEF Goto
    <3>5. \A x \in Builds : Stage(x)' = Stage(x)
      BY <2>1 DEF Stage
    <3>6. \A x \in Builds : pc[x] = "register" => Stage(x).content \in Contents
      BY StageTyped DEF UInv, Working
    <3>7. UploadsDone'
      BY <3>3, <3>4, <3>5, <3>6, <2>1, <1>1 DEF UInv, UploadsDone, Complete
    <3>8. IndexComplete'
      BY <3>3, <2>1, <1>1 DEF IndexComplete, Complete, UInv, TInv, FilesTyped
    <3>9. GotDeployable' /\ ManifestDeployable'
      BY <3>4, <2>1, <1>1 DEF UInv, GotDeployable, ManifestDeployable, Has
    <3>10. QED
      BY <3>7, <3>8, <3>9, <2>1, <1>0 DEF UInv
  <2>4. QED
    BY <2>2, <2>3, <1>8 DEF PutLayerMeta
<1>9. ASSUME NEW b \in Builds, RegisterInputHash(b)
       PROVE  UInv'
  <2>1. /\ pc[b] = "register" /\ pc[b] \in Working
        /\ Stage(b).content \in Contents
        /\ Complete(Stage(b).content) /\ layers[Stage(b).content] # None
        /\ UNCHANGED <<objects, layers, manifests, hit, up, gc>>
    BY <1>9, StageTyped DEF RegisterInputHash, Working, UInv, UploadsDone
  <2>2. CASE Fail(b) /\ index' = index /\ got' = got
    BY <2>1, <2>2, <1>0, <1>1, UInvGrows DEF Fail, Goto
  <2>3. CASE /\ index' = [index EXCEPT ![Stage(b).input] = Stage(b).content]
             /\ Advance(b, Stage(b).content)
    <3>1. index \in [Inputs -> Contents \cup {None}]
      BY DEF UInv, TInv, FilesTyped
    <3>2. IndexComplete'
      BY <3>1, <2>1, <2>3, <1>1 DEF IndexComplete, Complete
    <3>3. Has(Stage(b).content)
      BY <2>1 DEF Has, Complete, Formats
    <3>4. QED
      BY <3>2, <3>3, <2>1, <2>3, <1>0, UInvAdvance
  <2>4. QED
    BY <2>2, <2>3, <1>9 DEF RegisterInputHash
<1>10. ASSUME NEW b \in Builds, PublishManifest(b)
       PROVE  UInv'
  <2>1. UNCHANGED <<objects, layers, index, got, hit, up, gc>>
    BY <1>10 DEF PublishManifest
  <2>2. /\ \A x \in Builds \ {b} : pc'[x] = pc[x]
        /\ pc[b] = "manifest" /\ pc'[b] \in {"catalog", "failed"}
    BY <1>10, <1>1 DEF PublishManifest, Goto, Fail
  <2>3. UploadsDone' /\ GotDeployable' /\ IndexComplete'
    BY <2>1, <2>2 DEF UInv, UploadsDone, GotDeployable, IndexComplete, Complete, Has, Stage
  <2>4. ManifestDeployable'
    <3>1. manifests \in [Builds -> (SUBSET Contents) \cup {None}]
      BY DEF UInv, TInv, FilesTyped
    <3>2. \A c \in {got[b][k] : k \in DOMAIN got[b]} : <<c, "deploy">> \in objects
      BY <2>2 DEF UInv, GotDeployable, Has
    <3>3. \/ manifests' = manifests
          \/ manifests' = [manifests EXCEPT ![b] = {got[b][k] : k \in DOMAIN got[b]}]
      BY <1>10 DEF PublishManifest
    <3>4. QED
      BY <3>1, <3>2, <3>3, <2>1 DEF UInv, ManifestDeployable
  <2>5. QED
    BY <2>1, <2>3, <2>4, <1>0 DEF UInv
<1>11. ASSUME NEW t \in Tags, Tag(t)
       PROVE  UInv'
  <2>1. UNCHANGED <<objects, layers, index, manifests, pc, got, hit, up, gc>>
    BY <1>11 DEF Tag, FindManifest, PutTag, DeleteTag, files, runs
  <2>2. QED
    BY <2>1, <1>0, UInvGrows
<1>12. CASE Crash
  <2>1. /\ UNCHANGED <<objects, layers, index, manifests, got, hit, up>>
        /\ gc' = GcIdle
    BY <1>12 DEF Crash, files
  <2>2. PICK survivors \in SUBSET {b \in Builds \ Direct : pc[b] \in BetweenCalls} :
           pc' = [b \in Builds |->
                     IF InFlight(b) /\ b \notin survivors THEN "failed" ELSE pc[b]]
    BY <1>12 DEF Crash
  <2>3. ASSUME NEW b \in Builds
        PROVE  pc'[b] = "failed" \/ (pc'[b] = pc[b] /\ pc[b] \in Ended \cup BetweenCalls)
    BY <2>2 DEF InFlight
  <2>4. gc' = gc
    BY <2>1 DEF UInv
  <2>5. QED
    BY <2>1, <2>3, <2>4, <1>0, UInvGrows DEF Ended, BetweenCalls
<1>13. CASE UNCHANGED vars
  BY <1>13, <1>0, UInvGrows DEF vars, files, runs
<1>14. QED
  BY <1>2, <1>3, <1>4, <1>5, <1>6, <1>7, <1>8, <1>9, <1>10, <1>11, <1>12, <1>13
  DEF Next, Build

\* An empty store serves.
LEMMA InitUInv == Init => UInv
<1> SUFFICES ASSUME Init PROVE UInv
  OBVIOUS
<1>1. TInv
  BY InitTInv
<1>2. UploadsDone /\ IndexComplete /\ ManifestDeployable
  BY DEF Init, UploadsDone, IndexComplete, ManifestDeployable
<1>3. GotDeployable
  BY DEF Init, GotDeployable
<1>4. QED
  BY <1>1, <1>2, <1>3 DEF UInv, Init

\* UInv is an invariant of a store that is not collected.
LEMMA Uncollected ==
    ASSUME GcMode = "never"
    PROVE  Spec => []UInv
<1>1. UInv => ~Gc
  BY DEF UInv, GcIdle, Gc, GcListTags, GcMayRun, GcListManifests, GcSweep, GcDiscard, GcTake,
         GcDeleteBlob, GcReadMeta, GcDeleteIndex, GcDeleteMeta, Formats
<1>2. UInv /\ [Next]_vars => UInv'
  BY <1>1, NextUInv
<1>3. QED
  BY <1>2, InitUInv, PTL DEF Spec

\* In a store that is not collected every manifest can be deployed, whatever
\* builds race, fail or crash in publish_layer and publish_manifest.
THEOREM UncollectedManifestsServe ==
    ASSUME GcMode = "never"
    PROVE  Spec => []ManifestDeployable
<1>1. UInv => ManifestDeployable
  BY DEF UInv
<1>2. QED
  BY <1>1, Uncollected, PTL

\* And every answer of resolve_input_hash can be pulled: publish_layer writes the
\* index entry only when metadata and artifacts are in place.
THEOREM UncollectedIndexServes ==
    ASSUME GcMode = "never"
    PROVE  Spec => []IndexedIsComplete
<1>1. UInv => IndexedIsComplete
  BY DEF UInv, IndexComplete, IndexedIsComplete
<1>2. QED
  BY <1>1, Uncollected, PTL

-----------------------------------------------------------------------------
(* A store that is collected while no build is under way.                  *)

Planned(i, c) ==
    \E b \in Builds : \E k \in 1 .. Len(Plan[b]) : Plan[b][k].input = i /\ Plan[b][k].content = c

\* Two stages with different input hashes never have one content hash.
ContentHasOneInput ==
    \A i, j \in Inputs, c \in Contents : Planned(i, c) /\ Planned(j, c) => i = j

\* What publish_layer has written is a stage of a plan.
Published ==
    /\ \A i \in Inputs : index[i] # None => Planned(i, index[i])
    /\ \A c \in Contents : layers[c] # None => Planned(layers[c], c)

\* A layer with metadata that no manifest has.
Unused(c) == layers[c] # None /\ \A b \in Builds : manifests[b] # None => c \notin manifests[b]

\* The collection has every manifest before it looks for candidates, ...
MarkedAll == gc.pc # "tags" => \A b \in Builds : manifests[b] # None => b \in gc.marked

\* ... and a candidate is in none, up to its deletion.
CandidatesUnused ==
    /\ \A c \in gc.cands : Unused(c)
    /\ gc.pc \in {"deploy", "cache", "read_meta", "index", "layer_meta"} =>
           Unused(gc.cur) /\ gc.cur \notin gc.cands
    /\ gc.pc = "index" => gc.input = layers[gc.cur]

\* Only the layer that is being deleted may have an index entry it does not serve.
IndexLeft ==
    \A i \in Inputs : index[i] # None =>
        \/ gc.pc \in {"deploy", "cache", "read_meta", "index"} /\ index[i] = gc.cur
        \/ /\ Complete(index[i]) /\ layers[index[i]] # None
           /\ gc.pc = "layer_meta" => index[i] # gc.cur

CollectInv ==
    /\ \A b \in Builds : pc[b] \in Ended
    /\ MarkedAll /\ CandidatesUnused /\ IndexLeft
    /\ ManifestDeployable

\* Between two collections the store is as one that is not collected.
AloneInv ==
    /\ TInv
    /\ Published
    /\ IF gc.pc = "idle" THEN UInv ELSE CollectInv

\* The stage a build is at is a stage of a plan.
LEMMA StagePlanned ==
    ASSUME TInv, NEW b \in Builds, pc[b] \in Working
    PROVE  Planned(Stage(b).input, Stage(b).content)
<1>1. Plan[b] \in Seq(Stages) /\ got[b] \in Seq(Contents)
  BY LayerStoreAssumption DEF TInv, RunsTyped
<1>2. Len(got[b]) + 1 \in 1 .. Len(Plan[b])
  BY <1>1 DEF TInv, RunsTyped, StageLeft
<1>3. QED
  BY <1>2 DEF Planned, Stage

\* Every step leaves metadata and index entries those of planned stages.
LEMMA PublishedStays ==
    ASSUME TInv, Published, [Next]_vars
    PROVE  Published'
<1>1. index \in [Inputs -> Contents \cup {None}] /\ layers \in [Contents -> Inputs \cup {None}]
  BY DEF TInv, FilesTyped
<1>2. ASSUME \A i \in Inputs : index'[i] \in {index[i], None},
             \A c \in Contents : layers'[c] \in {layers[c], None}
      PROVE  Published'
  BY <1>2 DEF Published
<1>3. CASE UNCHANGED <<index, layers>>
  BY <1>2, <1>3
<1>4. ASSUME NEW b \in Builds, PutLayerMeta(b), layers' # layers PROVE Published'
  <2>1. PICK i, c : i = Stage(b).input /\ c = Stage(b).content
    OBVIOUS
  <2>2. pc[b] = "layer_meta" /\ index' = index /\ layers' = [layers EXCEPT ![c] = i]
    BY <1>4, <2>1 DEF PutLayerMeta
  <2>3. Planned(i, c)
    BY <2>1, <2>2, StagePlanned DEF Working
  <2>4. ASSUME NEW x \in Contents, layers'[x] # None PROVE Planned(layers'[x], x)
    BY <1>1, <2>2, <2>3, <2>4 DEF Published
  <2>5. QED
    BY <2>2, <2>4 DEF Published
<1>5. ASSUME NEW b \in Builds, RegisterInputHash(b), index' # index PROVE Published'
  <2>1. PICK i, c : i = Stage(b).input /\ c = Stage(b).content
    OBVIOUS
  <2>2. pc[b] = "register" /\ layers' = layers /\ index' = [index EXCEPT ![i] = c]
    BY <1>5, <2>1 DEF RegisterInputHash
  <2>3. Planned(i, c)
    BY <2>1, <2>2, StagePlanned DEF Working
  <2>4. ASSUME NEW x \in Inputs, index'[x] # None PROVE Planned(x, index'[x])
    BY <1>1, <2>2, <2>3, <2>4 DEF Published
  <2>5. QED
    BY <2>2, <2>4 DEF Published
<1>6. ASSUME NEW b \in Builds, Build(b) PROVE Published'
  <2>1. \/ UNCHANGED <<index, layers>>
        \/ PutLayerMeta(b) /\ layers' # layers
        \/ RegisterInputHash(b) /\ index' # index
    BY <1>6 DEF Build, Start, Resolve, Pull, Solve, HasLayer, CheckBlob, RenameBlob, JoinBlobs,
                PutLayerMeta, RegisterInputHash, PublishManifest, PutCatalogEntry, files
  <2>2. QED
    BY <2>1, <1>3, <1>4, <1>5
<1>7. CASE GcDeleteIndex
  BY <1>1, <1>2, <1>7 DEF GcDeleteIndex
<1>8. CASE GcDeleteMeta
  BY <1>1, <1>2, <1>8 DEF GcDeleteMeta
<1>9. CASE Gc /\ ~GcDeleteIndex /\ ~GcDeleteMeta
  BY <1>3, <1>9 DEF Gc, GcListTags, GcListManifests, GcSweep, GcDiscard, GcTake, GcDeleteBlob,
                    GcReadMeta, files
<1>10. ASSUME NEW t \in Tags, Tag(t) PROVE Published'
  BY <1>3, <1>10 DEF Tag, FindManifest, PutTag, DeleteTag, files
<1>11. CASE Crash \/ UNCHANGED vars
  BY <1>3, <1>11 DEF Crash, vars, files
<1>12. QED
  BY <1>6, <1>7, <1>8, <1>9, <1>10, <1>11 DEF Next

\* A collection begins.
LEMMA CollectBegins ==
    ASSUME UInv, GcMode = "alone", GcListTags
    PROVE  gc'.pc # "idle" /\ CollectInv'
<1>1. /\ \A b \in Builds : pc[b] \in Ended
      /\ UNCHANGED <<objects, layers, index, manifests, pc>>
      /\ gc'.pc = "tags" /\ gc'.cands = {}
  BY DEF GcListTags, GcMayRun, InFlight, UInv, GcIdle, files, runs
<1>2. MarkedAll' /\ CandidatesUnused'
  BY <1>1 DEF MarkedAll, CandidatesUnused
<1>3. IndexLeft' /\ ManifestDeployable'
  BY <1>1 DEF UInv, IndexComplete, IndexLeft, Complete, ManifestDeployable
<1>4. QED
  BY <1>1, <1>2, <1>3 DEF CollectInv

\* A collection ends.
LEMMA CollectEnds ==
    ASSUME TInv, CollectInv, TInv', gc' = GcIdle, UNCHANGED <<files, runs>>,
           gc.pc \notin {"deploy", "cache", "read_meta", "index", "layer_meta"}
    PROVE  UInv'
<1>1. UNCHANGED <<objects, layers, index, manifests, pc, got>>
  BY DEF files, runs
<1>2. \A b \in Builds : pc[b] \in {"idle", "done", "failed"} /\ (pc[b] = "idle" => got[b] = << >>)
  BY DEF CollectInv, Ended, TInv, RunsTyped, StageLeft
<1>3. UploadsDone'
  BY <1>1, <1>2 DEF UploadsDone
<1>4. GotDeployable'
  BY <1>1, <1>2 DEF GotDeployable
<1>5. IndexComplete' /\ ManifestDeployable'
  BY <1>1 DEF CollectInv, IndexLeft, IndexComplete, Complete, ManifestDeployable
<1>6. QED
  BY <1>3, <1>4, <1>5 DEF UInv

\* A step of a collection that has begun: what it deletes nobody needs.
LEMMA CollectStep ==
    ASSUME ContentHasOneInput, "delete" \notin Faults,
           TInv, Published, CollectInv, gc.pc # "idle", TInv', Gc
    PROVE  IF gc'.pc = "idle" THEN UInv' ELSE CollectInv'
<1>1. /\ gc \in [pc : GcPcs, marked : SUBSET Builds, cands : SUBSET Contents,
                 cur : Contents \cup {None}, input : Inputs \cup {None}]
      /\ index \in [Inputs -> Contents \cup {None}] /\ layers \in [Contents -> Inputs \cup {None}]
      /\ manifests \in [Builds -> (SUBSET Contents) \cup {None}]
      /\ gc.pc \in Deleting => gc.cur \in Contents
  BY DEF TInv, FilesTyped, RestTyped, HasCandidate
<1>2. /\ UNCHANGED <<pc, manifests>>
      /\ \A b \in Builds : pc'[b] \in Ended
  BY DEF Gc, GcListTags, GcListManifests, GcSweep, GcDiscard, GcTake, GcDeleteBlob,
         GcReadMeta, GcDeleteIndex, GcDeleteMeta, files, runs, CollectInv
<1>3. CASE gc' = GcIdle /\ (GcDiscard \/ GcTake)
  <2>1. UInv'
    BY <1>3, CollectEnds DEF GcDiscard, GcTake
  <2>2. QED
    BY <1>3, <2>1 DEF GcIdle
<1>4. CASE GcListManifests
  <2>1. /\ gc.pc = "tags" /\ gc'.pc = "marked" /\ gc'.cands = gc.cands
        /\ gc'.marked = gc.marked \cup {b \in Builds : manifests[b] # None}
        /\ UNCHANGED <<objects, layers, index>>
    BY <1>1, <1>4 DEF GcListManifests, files
  <2>2. MarkedAll'
    BY <1>2, <2>1 DEF MarkedAll
  <2>3. CandidatesUnused'
    BY <1>2, <2>1 DEF CollectInv, CandidatesUnused, Unused
  <2>4. IndexLeft' /\ ManifestDeployable'
    BY <1>2, <2>1 DEF CollectInv, IndexLeft, Complete, ManifestDeployable
  <2>5. QED
    BY <1>2, <2>1, <2>2, <2>3, <2>4 DEF CollectInv
<1>5. CASE GcSweep
  <2>1. /\ gc.pc = "marked" /\ gc'.pc = "report" /\ gc'.marked = gc.marked
        /\ gc'.cands = {c \in Contents \ UNION {manifests[b] : b \in gc.marked} : layers[c] # None}
        /\ UNCHANGED <<objects, layers, index>>
    BY <1>1, <1>5 DEF GcSweep, files
  <2>2. MarkedAll'
    BY <1>2, <2>1 DEF CollectInv, MarkedAll
  <2>3. \A b \in Builds : manifests[b] # None => b \in gc.marked
    BY <2>1 DEF CollectInv, MarkedAll
  <2>4. ASSUME NEW c \in gc'.cands PROVE Unused(c)'
    <3>1. c \in Contents /\ layers'[c] # None /\ \A b \in gc.marked : c \notin manifests[b]
      BY <2>1
    <3>2. QED
      BY <1>2, <2>3, <3>1 DEF Unused
  <2>5. CandidatesUnused'
    BY <2>1, <2>4 DEF CandidatesUnused
  <2>6. IndexLeft' /\ ManifestDeployable'
    BY <1>2, <2>1 DEF CollectInv, IndexLeft, Complete, ManifestDeployable
  <2>7. QED
    BY <1>2, <2>1, <2>2, <2>5, <2>6 DEF CollectInv
<1>6. CASE GcTake /\ gc' # GcIdle
  <2>1. PICK c \in gc.cands : gc' = [gc EXCEPT !.pc = "deploy", !.cur = c, !.cands = @ \ {c}]
    BY <1>6 DEF GcTake
  <2>2. /\ gc.pc \in {"report", "next"} /\ gc'.pc = "deploy" /\ gc'.marked = gc.marked
        /\ gc'.cur = c /\ gc'.cands = gc.cands \ {c}
        /\ UNCHANGED <<objects, layers, index>>
    BY <1>1, <1>6, <2>1 DEF GcTake, files
  <2>3. MarkedAll'
    BY <1>2, <2>2 DEF CollectInv, MarkedAll
  <2>4. CandidatesUnused'
    BY <1>2, <2>2 DEF CollectInv, CandidatesUnused, Unused
  <2>5. IndexLeft' /\ ManifestDeployable'
    BY <1>2, <2>2 DEF CollectInv, IndexLeft, Complete, ManifestDeployable
  <2>6. QED
    BY <1>2, <2>2, <2>3, <2>4, <2>5 DEF CollectInv
<1>7. CASE GcDeleteBlob
  <2>1. PICK c, f : /\ c = gc.cur /\ f = gc.pc /\ f \in Formats /\ c \in Contents
                    /\ objects' = objects \ {<<c, f>>}
    BY <1>1, <1>7 DEF GcDeleteBlob, Deleting, Formats
  <2>2. /\ gc'.pc \in {"cache", "read_meta"} /\ gc'.marked = gc.marked /\ gc'.cur = c
        /\ gc'.cands = gc.cands
        /\ UNCHANGED <<layers, index>>
    BY <1>1, <1>7, <2>1 DEF GcDeleteBlob, GcGoto
  <2>3. MarkedAll'
    BY <1>2, <2>1, <2>2 DEF CollectInv, MarkedAll, Formats
  <2>4. CandidatesUnused'
    BY <1>2, <2>1, <2>2 DEF CollectInv, CandidatesUnused, Unused, Formats
  <2>5. ManifestDeployable'
    <3>1. Unused(c)
      BY <2>1 DEF CollectInv, CandidatesUnused, Formats
    <3>2. ASSUME NEW b \in Builds, manifests[b] # None, NEW x \in manifests[b]
          PROVE  <<x, "deploy">> \in objects'
      <4>1. x # c /\ <<x, "deploy">> \in objects
        BY <3>1, <3>2 DEF Unused, CollectInv, ManifestDeployable
      <4>2. QED
        BY <2>1, <4>1
    <3>3. QED
      BY <1>2, <3>2 DEF ManifestDeployable
  <2>6. IndexLeft'
    <3>1. ASSUME NEW i \in Inputs, index[i] # None, index[i] # c
          PROVE  Complete(index[i])' /\ layers[index[i]] # None
      <4>1. Complete(index[i]) /\ layers[index[i]] # None
        BY <2>1, <3>1 DEF CollectInv, IndexLeft
      <4>2. PICK x : x = index[i]
        OBVIOUS
      <4>3. \A g \in Formats : <<x, g>> \in objects /\ <<x, g>> # <<c, f>>
        BY <3>1, <4>1, <4>2 DEF Complete
      <4>4. {x} \X Formats \subseteq objects'
        BY <2>1, <4>3
      <4>5. QED
        BY <2>2, <4>1, <4>2, <4>4 DEF Complete
    <3>2. QED
      BY <2>2, <3>1 DEF IndexLeft, Complete
  <2>7. QED
    BY <1>2, <2>2, <2>3, <2>4, <2>5, <2>6 DEF CollectInv
<1>8. CASE GcReadMeta
  <2>1. /\ gc.pc = "read_meta" /\ gc'.pc = "index" /\ gc'.marked = gc.marked /\ gc'.cur = gc.cur
        /\ gc'.cands = gc.cands /\ gc'.input = layers[gc.cur]
        /\ UNCHANGED <<objects, layers, index>>
    BY <1>1, <1>8 DEF GcReadMeta, files
  <2>2. MarkedAll'
    BY <1>2, <2>1 DEF CollectInv, MarkedAll
  <2>3. CandidatesUnused'
    BY <1>2, <2>1 DEF CollectInv, CandidatesUnused, Unused
  <2>4. IndexLeft' /\ ManifestDeployable'
    BY <1>2, <2>1 DEF CollectInv, IndexLeft, Complete, ManifestDeployable
  <2>5. QED
    BY <1>2, <2>1, <2>2, <2>3, <2>4 DEF CollectInv
<1>9. CASE GcDeleteIndex
  <2>1. /\ gc.pc = "index" /\ gc'.pc = "layer_meta" /\ gc'.marked = gc.marked /\ gc'.cur = gc.cur
        /\ gc'.cands = gc.cands
        /\ index' = [i \in Inputs |-> IF i = gc.input THEN None ELSE index[i]]
        /\ UNCHANGED <<objects, layers>>
    BY <1>1, <1>9 DEF GcDeleteIndex, GcGoto
  <2>2. MarkedAll'
    BY <1>2, <2>1 DEF CollectInv, MarkedAll
  <2>3. CandidatesUnused'
    BY <1>2, <2>1 DEF CollectInv, CandidatesUnused, Unused
  <2>4. ManifestDeployable'
    BY <1>2, <2>1 DEF CollectInv, ManifestDeployable
  <2>5. gc.cur \in Contents /\ layers[gc.cur] = gc.input /\ gc.input # None /\ gc.input \in Inputs
    BY <1>1, <2>1 DEF CollectInv, CandidatesUnused, Unused, Deleting
  <2>6. ASSUME NEW i \in Inputs, index'[i] # None PROVE index'[i] = index[i] /\ index[i] # gc.cur
    <3>1. i # gc.input /\ index'[i] = index[i] /\ index[i] # None
      BY <2>1, <2>6
    <3>2. Planned(gc.input, gc.cur) /\ Planned(i, index[i])
      BY <2>5, <3>1 DEF Published
    <3>3. QED
      BY <2>5, <3>1, <3>2 DEF ContentHasOneInput
  <2>7. IndexLeft'
    BY <2>1, <2>6 DEF CollectInv, IndexLeft, Complete
  <2>8. QED
    BY <1>2, <2>1, <2>2, <2>3, <2>4, <2>7 DEF CollectInv
<1>10. CASE GcDeleteMeta
  <2>1. /\ gc.pc = "layer_meta" /\ gc'.pc = "next" /\ gc'.marked = gc.marked /\ gc'.cur = gc.cur
        /\ gc'.cands = gc.cands
        /\ layers' = [layers EXCEPT ![gc.cur] = None]
        /\ UNCHANGED <<objects, index>>
    BY <1>1, <1>10 DEF GcDeleteMeta, GcGoto
  <2>2. MarkedAll'
    BY <1>2, <2>1 DEF CollectInv, MarkedAll
  <2>3. CandidatesUnused'
    BY <1>1, <1>2, <2>1 DEF CollectInv, CandidatesUnused, Unused
  <2>4. IndexLeft'
    BY <1>1, <2>1 DEF CollectInv, IndexLeft, Complete
  <2>5. ManifestDeployable'
    BY <1>2, <2>1 DEF CollectInv, ManifestDeployable
  <2>6. QED
    BY <1>2, <2>1, <2>2, <2>3, <2>4, <2>5 DEF CollectInv
<1>11. ~GcListTags
  BY DEF GcListTags
<1>12. QED
  BY <1>3, <1>4, <1>5, <1>6, <1>7, <1>8, <1>9, <1>10, <1>11 DEF Gc, GcDiscard

\* While a collection is under way no build takes a step.
LEMMA CollectKept ==
    ASSUME GcMode = "alone", "gc_crash" \notin Faults, TInv, CollectInv, gc.pc # "idle", [Next]_vars, ~Gc
    PROVE  gc' = gc /\ CollectInv'
<1>1. ASSUME NEW b \in Builds PROVE ~Build(b)
  <2>1. pc[b] \in {"idle", "done", "failed"}
    BY DEF CollectInv, Ended
  <2>2. ~Start(b)
    BY DEF Start, BuildMayStart
  <2>3. QED
    BY <2>1, <2>2 DEF Build, Resolve, Pull, Solve, HasLayer, CheckBlob, RenameBlob, JoinBlobs,
                PutLayerMeta, RegisterInputHash, PublishManifest, PutCatalogEntry
<1>2. UNCHANGED <<objects, layers, index, manifests, pc, gc>>
  BY <1>1 DEF Next, Crash, Tag, FindManifest, PutTag, DeleteTag, vars, files, runs
<1>3. QED
  BY <1>2 DEF CollectInv, MarkedAll, CandidatesUnused, Unused, IndexLeft, Complete, ManifestDeployable

\* Every step keeps AloneInv.
LEMMA NextAloneInv ==
    ASSUME GcMode = "alone", "gc_crash" \notin Faults, "delete" \notin Faults, ContentHasOneInput,
           AloneInv, [Next]_vars
    PROVE  AloneInv'
<1>1. TInv /\ Published /\ TInv' /\ Published'
  BY NextTInv, PublishedStays DEF AloneInv
<1>2. CASE gc.pc = "idle" /\ ~Gc
  <2>1. UInv'
    BY <1>2, NextUInv DEF AloneInv
  <2>2. QED
    BY <1>1, <2>1 DEF AloneInv, UInv, GcIdle
<1>3. CASE gc.pc = "idle" /\ Gc
  <2>1. GcListTags
    BY <1>3 DEF Gc, GcListManifests, GcSweep, GcDiscard, GcTake, GcDeleteBlob, GcReadMeta,
                GcDeleteIndex, GcDeleteMeta, Formats
  <2>2. QED
    BY <1>1, <1>3, <2>1, CollectBegins DEF AloneInv
<1>4. CASE gc.pc # "idle" /\ ~Gc
  BY <1>1, <1>4, CollectKept DEF AloneInv
<1>5. CASE gc.pc # "idle" /\ Gc
  BY <1>1, <1>5, CollectStep DEF AloneInv
<1>6. QED
  BY <1>2, <1>3, <1>4, <1>5

\* AloneInv is an invariant of a store that is collected while no build runs.
LEMMA CollectedAlone ==
    ASSUME GcMode = "alone", "gc_crash" \notin Faults, "delete" \notin Faults, ContentHasOneInput
    PROVE  Spec => []AloneInv
<1>1. Init => AloneInv
  <2> SUFFICES ASSUME Init PROVE AloneInv
    OBVIOUS
  <2>1. UInv
    BY InitUInv
  <2>2. Published
    BY DEF Init, Published
  <2>3. QED
    BY <2>1, <2>2 DEF AloneInv, UInv, GcIdle
<1>2. AloneInv /\ [Next]_vars => AloneInv'
  BY NextAloneInv
<1>3. QED
  BY <1>1, <1>2, PTL DEF Spec

\* Collections that run while no build does, that the server survives and whose
\* deletions succeed, delete no layer of a manifest: gc_candidates marks every manifest, tagged or not.
THEOREM CollectedManifestsServe ==
    ASSUME GcMode = "alone", "gc_crash" \notin Faults, "delete" \notin Faults, ContentHasOneInput
    PROVE  Spec => []ManifestDeployable
<1>1. AloneInv => ManifestDeployable
  BY DEF AloneInv, UInv, CollectInv
<1>2. QED
  BY <1>1, CollectedAlone, PTL

\* And they leave no index entry whose layer is gone: gc_execute forgets the input
\* hash it reads from the layer's metadata, and no other leads to the layer.
THEOREM CollectedIndexServes ==
    ASSUME GcMode = "alone", "gc_crash" \notin Faults, "delete" \notin Faults, ContentHasOneInput
    PROVE  Spec => []IndexedIsComplete
<1>1. AloneInv => IndexedIsComplete
  BY DEF AloneInv, UInv, CollectInv, IndexComplete, IndexLeft, IndexedIsComplete
<1>2. QED
  BY <1>1, CollectedAlone, PTL
=============================================================================

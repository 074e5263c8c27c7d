--------------------------- MODULE BuildPlanProofs ---------------------------
(***************************************************************************)
(* Proofs about BuildPlan, for any Dockerfiles and any number of builds.   *)
(*                                                                         *)
(* That the cache is right is a matter of the store: an input hash is what *)
(* a stage is on top of and its instruction, all the way down, so it       *)
(* determines the filesystem (IndexInv), whichever build of the same world *)
(* has published it.                                                       *)
(* The result of a stage is the store's output for its input hash, and     *)
(* that is the filesystem of a build without a cache (ResultsInv).         *)
(***************************************************************************)
EXTENDS BuildPlan, WellFoundedInduction, TLAPS

-----------------------------------------------------------------------------
(* Numbers: the least and the greatest element of a set, and induction.    *)

\* A set of numbers has a least element.
LEMMA LeastNat ==
  ASSUME NEW T, T \subseteq Nat, T # {}
  PROVE  \E x \in T : \A y \in T : x <= y
<1> DEFINE R == {ss \in Nat \X Nat : ss[1] < ss[2]}
<1>1. IsWellFoundedOn(R, Nat)
  BY NatLessThanWellFounded DEF OpToRel
<1>2. \A x, y \in Nat : <<y, x>> \in R <=> y < x
  OBVIOUS
<1> HIDE DEF R
<1>3. \E x \in T : \A y \in T : ~(<<y, x>> \in R)
  BY <1>1, WFMin
<1>4. PICK x \in T : \A y \in T : ~(y < x)
  BY <1>2, <1>3
<1>5. \A y \in T : x \in Nat /\ y \in Nat /\ x <= y
  BY <1>4
<1> QED
  BY <1>5

\* A set of numbers with a bound has a greatest element.
LEMMA GreatestNat ==
  ASSUME NEW n \in Nat, NEW S, S \subseteq 1 .. n, S # {}
  PROVE  \E x \in S : \A y \in S : y <= x
<1> DEFINE T == {m \in Nat : \E y \in S : y + m = n}
<1>1. \A y \in S : n - y \in T
  OBVIOUS
<1>2. T \subseteq Nat /\ T # {}
  BY <1>1
<1> HIDE DEF T
<1>3. PICK m \in T : \A k \in T : m <= k
  BY <1>2, LeastNat
<1>4. PICK x \in S : x + m = n /\ m \in Nat
  BY DEF T
<1>5. \A y \in S : y <= x
  BY <1>1, <1>3, <1>4
<1> QED
  BY <1>5

\* Induction, for a set of numbers.
LEMMA InductionOnNat ==
  ASSUME NEW G, 0 \in G, \A n \in Nat : n \in G => n + 1 \in G
  PROVE  Nat \subseteq G
<1> DEFINE T == Nat \ G
<1>1. SUFFICES ASSUME T # {} PROVE FALSE
  OBVIOUS
<1>2. PICK x \in T : \A y \in T : x <= y
  BY <1>1, LeastNat
<1>3. x \in Nat /\ x # 0 /\ x - 1 \in Nat /\ x - 1 \notin T
  BY <1>2
<1>4. (x - 1) + 1 \in G /\ (x - 1) + 1 = x
  BY <1>3
<1> QED
  BY <1>2, <1>4

-----------------------------------------------------------------------------
(* The filesystems of a Dockerfile.                                        *)

\* A stage that is found is one of the first n, of that name, and the last.
LEMMA FindStageFacts ==
  ASSUME NEW d, NEW name, NEW n \in Nat
  PROVE  LET j == FindStage(d, name, n) IN
         /\ j \in 0 .. n
         /\ j = 0 => name = None \/ \A k \in 1 .. n : d.stages[k].name # name
         /\ j > 0 => /\ name # None /\ d.stages[j].name = name
                     /\ \A k \in 1 .. n : d.stages[k].name = name => k <= j
<1> DEFINE named == {k \in 1 .. n : name # None /\ d.stages[k].name = name}
<1>1. CASE named = {}
  BY <1>1 DEF FindStage
<1>2. CASE named # {}
  <2>1. \E x \in named : \A y \in named : y <= x
    BY <1>2, GreatestNat
  <2>2. FindStage(d, name, n) \in named /\ \A y \in named : y <= FindStage(d, name, n)
    BY <1>2, <2>1 DEF FindStage
  <2> QED
    BY <2>2
<1> QED
  BY <1>1, <1>2

\* A stage depends on the stages above it only.
LEMMA StageFsLocal ==
  ASSUME NEW d, NEW w, NEW context, NEW k \in Nat, NEW g, NEW h,
         \A j \in Nat : j < k => g[j] = h[j]
  PROVE  StageFs(d, w, context, g, k) = StageFs(d, w, context, h, k)
<1>1. CASE k = 0
  BY <1>1 DEF StageFs
<1>2. CASE k # 0
  <2>1. ASSUME NEW name PROVE Named(d, w, context, g, name, k) = Named(d, w, context, h, name, k)
    <3>1. k - 1 \in Nat
      BY <1>2
    <3>2. FindStage(d, name, k - 1) \in 0 .. k - 1
      BY <3>1, FindStageFacts
    <3>3. g[FindStage(d, name, k - 1)] = h[FindStage(d, name, k - 1)]
      BY <3>1, <3>2
    <3> QED
      BY <3>3 DEF Named
  <2> QED
    BY <1>2, <2>1 DEF StageFs
<1> QED
  BY <1>1, <1>2

\* So the recursion has a solution.
LEMMA FsExists ==
  ASSUME NEW d, NEW w, NEW context
  PROVE  \A n \in Nat : \E g : g = [k \in 0 .. n |-> StageFs(d, w, context, g, k)]
<1> DEFINE F(g, k) == StageFs(d, w, context, g, k)
           G == {n \in Nat : \E g : g = [k \in 0 .. n |-> F(g, k)]}
<1>0. \A k \in Nat : \A g, h :
          (\A j \in Nat : j < k => g[j] = h[j]) => F(g, k) = F(h, k)
  BY StageFsLocal
<1> HIDE DEF F
<1>1. 0 \in G
  <2> DEFINE e == [k \in 0 .. 0 |-> F(0, k)]
  <2>1. \A k \in 0 .. 0 : F(e, k) = F(0, k)
    BY <1>0
  <2>2. e = [k \in 0 .. 0 |-> F(e, k)]
    BY <2>1
  <2> QED
    BY <2>2
<1>2. ASSUME NEW n \in Nat, n \in G PROVE n + 1 \in G
  <2>1. PICK g : g = [k \in 0 .. n |-> F(g, k)]
    BY <1>2
  <2> DEFINE h == [k \in 0 .. n + 1 |-> F(g, k)]
  <2>2. \A k \in 0 .. n : h[k] = g[k]
    BY <2>1
  <2>3. h = [k \in 0 .. n + 1 |-> F(g, k)] /\ n + 1 \in Nat
    OBVIOUS
  <2> HIDE DEF h
  <2>4. ASSUME NEW k \in 0 .. n + 1 PROVE F(h, k) = F(g, k)
    <3>1. ASSUME NEW j \in Nat, j < k PROVE h[j] = g[j]
      <4>1. j \in 0 .. n
        BY <3>1
      <4> QED
        BY <2>2, <4>1
    <3>2. k \in Nat
      BY <2>3
    <3> QED
      BY <1>0, <3>1, <3>2
  <2>5. h = [k \in 0 .. n + 1 |-> F(h, k)]
    BY <2>3, <2>4
  <2> QED
    BY <2>3, <2>5
<1>3. Nat \subseteq G
  BY <1>1, <1>2, InductionOnNat
<1> QED
  BY <1>3 DEF F

\* The filesystem of every stage is what its instruction makes of those above.
LEMMA FilesystemsAre ==
  ASSUME NEW d, NEW w, NEW context, Len(d.stages) \in Nat, NEW k \in 0 .. Len(d.stages)
  PROVE  Filesystems(d, w, context)[k] = StageFs(d, w, context, Filesystems(d, w, context), k)
<1> DEFINE n == Len(d.stages)
           fs == CHOOSE g : g = [i \in 0 .. n |-> StageFs(d, w, context, g, i)]
<1>1. \E g : g = [i \in 0 .. n |-> StageFs(d, w, context, g, i)]
  <2>1. \A m \in Nat : \E g : g = [i \in 0 .. m |-> StageFs(d, w, context, g, i)]
    BY FsExists
  <2> QED
    BY <2>1
<1>2. fs = [i \in 0 .. n |-> StageFs(d, w, context, fs, i)]
  BY <1>1
<1>3. Filesystems(d, w, context) = fs
  BY DEF Filesystems
<1> HIDE DEF fs
<1> QED
  BY <1>2, <1>3

-----------------------------------------------------------------------------
(* What build looks up is there.                                           *)

Building == pc \in {"stages", "manifest", "done"}

\* Where the loop is, and what the maps have an entry for.
PlanInv ==
    /\ builds \in Nat /\ next \in Nat \ {0}
    /\ builds = 0 => pc = "idle"
    /\ Building =>
           /\ doc \in Dockerfiles /\ Accepted(doc)
           /\ next <= Len(doc.stages) + 1
           /\ pc = "stages" <=> next <= Len(doc.stages)
           /\ DOMAIN results = {Name(doc, k) : k \in 1 .. next - 1}
           /\ DOMAIN metas = {doc.stages[k].layer : k \in 1 .. next - 1}
    /\ AcceptedHasAll

\* The parent of a stage is a stage above it.
LEMMA ParentIsAbove ==
  ASSUME NEW d, NEW k \in Nat
  PROVE  Parent(d, k) = None \/ \E j \in 1 .. k - 1 : Parent(d, k) = Name(d, j)
BY DEF Parent

\* The keys after an insertion.
LEMMA InsertFacts ==
  ASSUME NEW f, NEW x, NEW v
  PROVE  /\ DOMAIN Insert(f, x, v) = DOMAIN f \cup {x}
         /\ Insert(f, x, v)[x] = v
         /\ \A y \in DOMAIN f : y # x => Insert(f, x, v)[y] = f[y]
BY DEF Insert

\* The body of the loop ends.
LEMMA PlanAdvance ==
  ASSUME PlanInv, pc = "stages", NEW o, NEW h, NEW m, Advance(o, h, m), UNCHANGED <<builds, doc>>
  PROVE  PlanInv'
<1> DEFINE n == Len(doc.stages)
<1>1. /\ doc \in Dockerfiles /\ Accepted(doc) /\ next \in 1 .. n /\ n \in Nat
      /\ DOMAIN results = {Name(doc, k) : k \in 1 .. next - 1}
      /\ DOMAIN metas = {doc.stages[k].layer : k \in 1 .. next - 1}
  BY BuildPlanAssumption DEF PlanInv, Building
<1>2. /\ next' = next + 1 /\ pc' = IF next = n THEN "manifest" ELSE "stages"
      /\ DOMAIN results' = DOMAIN results \cup {Name(doc, next)}
      /\ DOMAIN metas' = DOMAIN metas \cup {doc.stages[next].layer}
  <2>1. \E v : results' = Insert(results, Name(doc, next), v)
    BY DEF Advance
  <2>2. PICK l : l = doc.stages[next].layer /\ metas' = Insert(metas, l, m)
    BY DEF Advance, Stage
  <2>3. DOMAIN results' = DOMAIN results \cup {Name(doc, next)}
    BY <2>1, InsertFacts
  <2>4. DOMAIN metas' = DOMAIN metas \cup {l}
    BY <2>2, InsertFacts
  <2>5. next' = next + 1 /\ pc' = IF next = n THEN "manifest" ELSE "stages"
    BY DEF Advance
  <2> QED
    BY <2>2, <2>3, <2>4, <2>5
<1> HIDE DEF n
<1>3. next \in 1 .. n /\ n \in Nat /\ next' - 1 = next
  BY <1>1, <1>2
<1>4. 1 .. next = (1 .. next - 1) \cup {next}
  BY <1>3
<1>5. /\ DOMAIN results' = {Name(doc, k) : k \in 1 .. next}
      /\ DOMAIN metas' = {doc.stages[k].layer : k \in 1 .. next}
  BY <1>1, <1>2, <1>4
<1>6. next' \in Nat \ {0} /\ next' <= n + 1 /\ (pc' = "stages" <=> next' <= n) /\ AcceptedHasAll'
  BY <1>2, <1>3 DEF AcceptedHasAll
<1>7. builds' \in Nat /\ builds' # 0
  BY DEF PlanInv
<1> QED
  BY <1>1, <1>3, <1>5, <1>6, <1>7 DEF PlanInv, Building, n

\* The build ends with an error.
LEMMA PlanFail ==
  ASSUME PlanInv, pc \in {"stages", "manifest"}, Fail("failed")
  PROVE  PlanInv'
BY DEF PlanInv, Building, Fail, AcceptedHasAll

\* Every step keeps PlanInv.
LEMMA PlanStep == PlanInv /\ [Next]_vars => PlanInv'
<1> SUFFICES ASSUME PlanInv, [Next]_vars PROVE PlanInv'
  OBVIOUS
<1>1. ASSUME NEW d \in Dockerfiles, NEW w, Parse(d, w) PROVE PlanInv'
  <2>1. /\ builds' = builds + 1 /\ doc' = d /\ next' = 1 /\ results' = Empty /\ metas' = Empty
        /\ pc' = IF ~Accepted(d) THEN "rejected" ELSE IF d.stages = << >> THEN "manifest" ELSE "stages"
    BY <1>1 DEF Parse
  <2>2. Len(d.stages) \in Nat /\ DOMAIN d.stages = 1 .. Len(d.stages)
    BY BuildPlanAssumption
  <2>3. DOMAIN Empty = {} /\ 1 .. 1 - 1 = {}
    BY DEF Empty
  <2>4. Accepted(d) => (pc' = "stages" <=> 1 <= Len(d.stages))
    <3>1. d.stages = << >> => Len(d.stages) = 0
      OBVIOUS
    <3>2. d.stages # << >> => 1 <= Len(d.stages)
      <4>1. SUFFICES ASSUME Len(d.stages) = 0 PROVE d.stages = << >>
        BY <2>2
      <4> QED
        BY <2>2, <4>1
    <3> QED
      BY <2>1, <3>1, <3>2
  <2> QED
    BY <2>1, <2>2, <2>3, <2>4 DEF PlanInv, Building, AcceptedHasAll
<1>2. CASE Hit
  BY <1>2, PlanAdvance DEF Hit
<1>3. CASE CallFails
  BY <1>3, PlanFail DEF CallFails
<1>4. CASE Miss
  <2>1. pc = "stages" /\ DOMAIN results = {Name(doc, k) : k \in 1 .. next - 1} /\ next \in Nat
    BY <1>4 DEF Miss, Missed, PlanInv, Building
  <2>2. Parent(doc, next) \in DOMAIN results \cup {None}
    BY <2>1, ParentIsAbove
  <2>3. CASE Fail("failed")
    BY <2>1, <2>3, PlanFail
  <2>4. ASSUME NEW o, NEW m, Advance(o, FALSE, m), UNCHANGED <<builds, doc>> PROVE PlanInv'
    BY <2>1, <2>4, PlanAdvance
  <2>5. CASE pc' = "failed" /\ UNCHANGED <<builds, next>>
    BY <2>1, <2>5 DEF PlanInv, Building, AcceptedHasAll
  <2> QED
    BY <1>4, <2>2, <2>3, <2>4, <2>5 DEF Miss
<1>5. CASE Manifest
  <2>1. /\ pc = "manifest" /\ doc \in Dockerfiles /\ Accepted(doc) /\ next = Len(doc.stages) + 1
        /\ DOMAIN metas = {doc.stages[k].layer : k \in 1 .. next - 1}
        /\ Len(doc.stages) \in Nat /\ DOMAIN doc.stages = 1 .. Len(doc.stages)
    BY <1>5, BuildPlanAssumption DEF Manifest, PlanInv, Building
  <2>2. \A i \in DOMAIN doc.release : doc.release[i] \in DOMAIN metas
    BY <2>1 DEF Accepted, validate_graph, LayerNames
  <2>3. CASE Fail("failed")
    BY <2>1, <2>3, PlanFail
  <2>4. CASE pc' = "done" /\ UNCHANGED <<builds, doc, next, results, metas>>
    BY <2>1, <2>4 DEF PlanInv, Building, AcceptedHasAll
  <2> QED
    BY <1>5, <2>2, <2>3, <2>4 DEF Manifest
<1>6. CASE UNCHANGED vars
  BY <1>6 DEF vars, PlanInv, Building, AcceptedHasAll
<1> QED
  BY <1>1, <1>2, <1>3, <1>4, <1>5, <1>6 DEF Next

\* PlanInv is an invariant.
LEMMA PlanInvariant == Spec => []PlanInv
<1>1. Init => PlanInv
  BY DEF Init, PlanInv, Building, AcceptedHasAll
<1> QED
  BY <1>1, PlanStep, PTL DEF Spec

\* build never answers "Parent result missing" or "Missing metadata for layer"
\* for a Dockerfile that parse has accepted.
THEOREM BuildFindsAll == Spec => []AcceptedHasAll
<1>1. PlanInv => AcceptedHasAll
  BY DEF PlanInv
<1> QED
  BY <1>1, PlanInvariant, PTL

-----------------------------------------------------------------------------
(* The cache is right.                                                     *)

\* None is no hash.
NoneIsNoHash == \A p, i : None # [parent |-> p, instructions |-> i]

\* The metadata that is published with the output o of the input hash h.
MetaOf(h, o) == [input |-> h, output |-> o, parent |-> h.parent]

\* The input hash of the stage that stage k is on top of.
ParentInput(k) == IF Parent(doc, k) = None THEN None ELSE results[Parent(doc, k)].input

\* What an instruction makes of what is below it.
OnTop(w, fs, text) == fs \o <<Step(w, text, "", << >>)>>
ImageFs(w, image)  == <<Step(w, image, "", << >>)>>

\* An input hash determines the filesystem: the store's output for it is the
\* instruction in it on top of the store's output for its parent.
EntryRight(h) ==
    /\ h.parent # None => h.parent \in DOMAIN index
    /\ index[h] = OnTop(world, IF h.parent = None THEN ImageFs(world, h.instructions.image)
                                              ELSE index[h.parent],
                           h.instructions.text)

IndexInv ==
    /\ builds = 0 => DOMAIN index = {}
    /\ plain => \A h \in DOMAIN index : EntryRight(h)

\* The result of stage k is the store's output for its input hash.
ResultRight(k) ==
    LET r == results[Name(doc, k)] IN
    /\ r.input = compute_input_hash(doc.stages[k], ParentInput(k))
    /\ r.input \in DOMAIN index /\ r.output = index[r.input]
    /\ r.output = Fresh(doc, world, k)

ResultsInv ==
    plain /\ Building =>
        /\ Plain(doc)
        /\ \A k \in 1 .. next - 1 : ResultRight(k)

\* A layer has metadata of the last stage with its name: what was published, or
\* what a hit has made up.
LayersInv ==
    plain /\ Building =>
        \A k \in 1 .. next - 1 :
            LET r == results[Name(doc, k)] IN
            (\A j \in k + 1 .. next - 1 : doc.stages[j].layer # doc.stages[k].layer) =>
                metas[doc.stages[k].layer] \in {MetaOf(r.input, r.output), PulledMeta(r.output)}

ManifestInv ==
    manifest # None => pc = "done" /\ manifest = ReleaseLayers /\ Parsed(manifest)

\* In a plain Dockerfile the parser and BuildKit agree on what a stage is on top of.
LEMMA PlainParent ==
  ASSUME NEW d \in Dockerfiles, Plain(d), NEW k \in 1 .. Len(d.stages)
  PROVE  LET j == FindStage(d, d.stages[k].image, k - 1) IN
         /\ j \in 0 .. k - 1
         /\ j = 0 => Parent(d, k) = None
         /\ j # 0 => /\ Parent(d, k) # None /\ Parent(d, k) = d.stages[k].image
                     /\ Parent(d, k) = Name(d, j)
<1> DEFINE image == d.stages[k].image
           j == FindStage(d, image, k - 1)
<1>0. Len(d.stages) \in Nat /\ DOMAIN d.stages = 1 .. Len(d.stages) /\ k - 1 \in Nat
  BY BuildPlanAssumption
<1>1. \A i \in 1 .. k - 1 : /\ i \in DOMAIN d.stages
                            /\ Name(d, i) = d.stages[i].name /\ d.stages[i].name \notin {None, "scratch"}
  <2>1. \A i \in 1 .. k - 1 : i \in DOMAIN d.stages
    BY <1>0
  <2>2. \A i \in DOMAIN d.stages : d.stages[i].name \notin {None, "scratch"}
    BY DEF Plain
  <2>3. \A i \in DOMAIN d.stages : Name(d, i) = d.stages[i].name
    BY <2>2 DEF Name
  <2> QED
    BY <2>1, <2>2, <2>3
<1>2. /\ j \in 0 .. k - 1
      /\ j = 0 => image = None \/ \A i \in 1 .. k - 1 : d.stages[i].name # image
      /\ j > 0 => image # None /\ d.stages[j].name = image
  BY <1>0, FindStageFacts
<1> HIDE DEF image, j
<1>3. CASE j = 0
  <2>1. \A i \in 1 .. k - 1 : Name(d, i) # image
    BY <1>1, <1>2, <1>3
  <2> QED
    BY <1>2, <1>3, <2>1 DEF Parent, image, j
<1>4. CASE j # 0
  <2>1. j \in 1 .. k - 1 /\ Name(d, j) = image /\ image \notin {None, "scratch"} /\ k > 1
    BY <1>1, <1>2, <1>4
  <2>2. Parent(d, k) = image
    BY <2>1 DEF Parent, image
  <2> QED
    BY <1>2, <1>4, <2>1, <2>2 DEF image, j
<1> QED
  BY <1>3, <1>4

\* The filesystem of a stage of a plain Dockerfile, built with a context.
LEMMA PlainFs ==
  ASSUME NEW d \in Dockerfiles, NEW w, Plain(d), NEW k \in 1 .. Len(d.stages), NEW context
  PROVE  Filesystems(d, w, context)[k] =
             OnTop(w, Named(d, w, context, Filesystems(d, w, context), d.stages[k].image, k), d.stages[k].text)
<1>1. Len(d.stages) \in Nat /\ k \in DOMAIN d.stages /\ k \in 0 .. Len(d.stages) /\ k # 0
  BY BuildPlanAssumption
<1>2. d.stages[k].copy = None /\ d.stages[k].tail = ""
  BY <1>1 DEF Plain
<1> DEFINE fs == Filesystems(d, w, context)
<1>3. fs[k] = StageFs(d, w, context, fs, k)
  BY <1>1, FilesystemsAre
<1> HIDE DEF fs
<1>4. StageFs(d, w, context, fs, k) = OnTop(w, Named(d, w, context, fs, d.stages[k].image, k), d.stages[k].text)
  BY <1>1, <1>2 DEF StageFs, OnTop
<1> QED
  BY <1>3, <1>4 DEF fs

\* Without a context it is on top of the image or of the parent's.
LEMMA PlainFresh ==
  ASSUME NEW d \in Dockerfiles, NEW w, Plain(d), NEW k \in 1 .. Len(d.stages)
  PROVE  LET j == FindStage(d, d.stages[k].image, k - 1) IN
         /\ Named(d, w, Empty, Filesystems(d, w, Empty), d.stages[k].image, k) =
                IF j = 0 THEN ImageFs(w, d.stages[k].image) ELSE Fresh(d, w, j)
         /\ Fresh(d, w, k) = OnTop(w, IF j = 0 THEN ImageFs(w, d.stages[k].image) ELSE Fresh(d, w, j), d.stages[k].text)
<1> DEFINE image == d.stages[k].image
           j == FindStage(d, image, k - 1)
           fs == Filesystems(d, w, Empty)
<1>1. j \in 0 .. k - 1
  BY PlainParent
<1>2. fs[k] = OnTop(w, Named(d, w, Empty, fs, image, k), d.stages[k].text)
  BY PlainFs
<1>3. DOMAIN Empty = {}
  BY DEF Empty
<1> HIDE DEF fs
<1>4. Named(d, w, Empty, fs, image, k) = IF j > 0 THEN fs[j] ELSE ImageFs(w, image)
  BY <1>3 DEF Named, ImageFs
<1>5. j > 0 <=> j # 0
  BY <1>1
<1> QED
  BY <1>2, <1>4, <1>5 DEF Fresh, fs

\* What the hash of a stage is made of.
LEMMA HashFacts ==
  ASSUME NEW d \in Dockerfiles, NEW k \in 1 .. Len(d.stages), NEW p
  PROVE  LET h == compute_input_hash(d.stages[k], p) IN
         /\ h.parent = p
         /\ h.instructions.image = d.stages[k].image
         /\ h.instructions.text = d.stages[k].text
<1> DEFINE s == d.stages[k]
<1>1. IsStage(s)
  BY BuildPlanAssumption
<1> HIDE DEF s
<1>2. PICK a, b, c, e, f, g, i :
          s = [name |-> a, image |-> b, text |-> c, tail |-> e, copy |-> f, layer |-> g, order |-> i]
  BY <1>1 DEF IsStage
<1>3. normalize_instruction(s).image = s.image /\ normalize_instruction(s).text = s.text
  BY <1>2 DEF normalize_instruction
<1> QED
  BY <1>3 DEF compute_input_hash, s

\* The stage that is next, and what is below it.
LEMMA NextStage ==
  ASSUME NoneIsNoHash, PlanInv, ResultsInv, plain, pc = "stages"
  PROVE  LET p == Parent(doc, next) IN
         /\ ParentHash = ParentInput(next)
         /\ p # None => /\ results[p].input # None /\ results[p].input \in DOMAIN index
                        /\ results[p].output = index[results[p].input]
         /\ Fresh(doc, world, next) = OnTop(world, IF p = None THEN ImageFs(world, Stage.image) ELSE results[p].output,
                                     Stage.text)
         /\ Named(doc, world, Empty, Filesystems(doc, world, Empty), Stage.image, next) =
                IF p = None THEN ImageFs(world, Stage.image) ELSE results[p].output
         /\ p # None => p = Stage.image
<1> DEFINE p == Parent(doc, next)
           j == FindStage(doc, doc.stages[next].image, next - 1)
<1>1. /\ doc \in Dockerfiles /\ Plain(doc) /\ next \in 1 .. Len(doc.stages)
      /\ DOMAIN results = {Name(doc, k) : k \in 1 .. next - 1}
      /\ \A k \in 1 .. next - 1 : ResultRight(k)
  BY DEF PlanInv, ResultsInv, Building
<1>2. /\ j \in 0 .. next - 1
      /\ j = 0 => p = None
      /\ j # 0 => p # None /\ p = doc.stages[next].image /\ p = Name(doc, j)
  BY <1>1, PlainParent
<1>3. /\ Named(doc, world, Empty, Filesystems(doc, world, Empty), doc.stages[next].image, next) =
             IF j = 0 THEN ImageFs(world, doc.stages[next].image) ELSE Fresh(doc, world, j)
      /\ Fresh(doc, world, next) = OnTop(world, IF j = 0 THEN ImageFs(world, doc.stages[next].image) ELSE Fresh(doc, world, j),
                                  doc.stages[next].text)
  BY <1>1, PlainFresh
<1> HIDE DEF j, p
<1>4. CASE j = 0
  <2>1. p = None
    BY <1>2, <1>4
  <2>2. None \notin DOMAIN results
    <3>1. ASSUME NEW k \in 1 .. next - 1 PROVE Name(doc, k) # None
      <4>1. k \in DOMAIN doc.stages
        BY <1>1, BuildPlanAssumption
      <4>2. doc.stages[k].name # None
        BY <1>1, <4>1 DEF Plain
      <4> QED
        BY <4>2 DEF Name
    <3> QED
      BY <1>1, <3>1
  <2>3. ParentHash = None /\ ParentInput(next) = None
    BY <2>1, <2>2 DEF ParentHash, ParentInput, p
  <2> QED
    BY <1>3, <1>4, <2>1, <2>3 DEF Stage, p
<1>5. CASE j # 0
  <2>1. j \in 1 .. next - 1 /\ p # None /\ p = doc.stages[next].image /\ p = Name(doc, j) /\ p \in DOMAIN results
    BY <1>1, <1>2, <1>5
  <2>2. ParentHash = results[p].input /\ ParentInput(next) = results[p].input
    BY <2>1 DEF ParentHash, ParentInput, p
  <2>3. /\ results[p].input = compute_input_hash(doc.stages[j], ParentInput(j))
        /\ results[p].input \in DOMAIN index /\ results[p].output = index[results[p].input]
        /\ results[p].output = Fresh(doc, world, j)
    BY <1>1, <2>1 DEF ResultRight
  <2>4. results[p].input # None
    BY <2>3 DEF NoneIsNoHash, compute_input_hash
  <2> QED
    BY <1>3, <1>5, <2>1, <2>2, <2>3, <2>4 DEF Stage, p
<1> QED
  BY <1>4, <1>5

\* A hit gives the filesystem that a build without a cache would.
LEMMA HitIsFresh ==
  ASSUME NoneIsNoHash, PlanInv, ResultsInv, IndexInv, plain, pc = "stages", InputHash \in DOMAIN index
  PROVE  index[InputHash] = Fresh(doc, world, next)
<1> DEFINE p == Parent(doc, next)
<1>1. doc \in Dockerfiles /\ next \in 1 .. Len(doc.stages)
  BY DEF PlanInv, Building
<1>2. /\ InputHash.parent = ParentHash
      /\ InputHash.instructions.image = Stage.image /\ InputHash.instructions.text = Stage.text
  BY <1>1, HashFacts DEF InputHash, Stage
<1>3. /\ ParentHash = ParentInput(next)
      /\ p # None => /\ results[p].input # None
                     /\ results[p].output = index[results[p].input]
      /\ Fresh(doc, world, next) = OnTop(world, IF p = None THEN ImageFs(world, Stage.image) ELSE results[p].output,
                                  Stage.text)
  BY NextStage
<1>4. index[InputHash] = OnTop(world, IF InputHash.parent = None THEN ImageFs(world, InputHash.instructions.image)
                                                           ELSE index[InputHash.parent],
                                  InputHash.instructions.text)
  BY DEF IndexInv, EntryRight
<1>5. ParentInput(next) = IF p = None THEN None ELSE results[p].input
  BY DEF ParentInput
<1> HIDE DEF p
<1> QED
  BY <1>2, <1>3, <1>4, <1>5

\* So does a miss, with the parent's artifact from the store or without.
LEMMA MissIsFresh ==
  ASSUME NoneIsNoHash, PlanInv, ResultsInv, plain, pc = "stages", NEW context,
         context = IF Parent(doc, next) # None /\ results[Parent(doc, next)].hit
                   THEN [n \in {Parent(doc, next)} |-> results[Parent(doc, next)].output] ELSE Empty
  PROVE  Filesystems(doc, world, context)[FindStage(doc, Name(doc, next), Len(doc.stages))] = Fresh(doc, world, next)
<1> DEFINE p == Parent(doc, next)
           target == FindStage(doc, Name(doc, next), Len(doc.stages))
<1>1. /\ doc \in Dockerfiles /\ Plain(doc) /\ next \in 1 .. Len(doc.stages)
      /\ Len(doc.stages) \in Nat /\ DOMAIN doc.stages = 1 .. Len(doc.stages)
  BY BuildPlanAssumption DEF PlanInv, ResultsInv, Building
<1>2. target = next
  <2>1. doc.stages[next].name # None /\ Name(doc, next) = doc.stages[next].name
    BY <1>1 DEF Plain, Name
  <2>2. /\ target \in 0 .. Len(doc.stages)
        /\ target = 0 => Name(doc, next) = None \/ \A k \in 1 .. Len(doc.stages) : doc.stages[k].name # Name(doc, next)
        /\ target > 0 => doc.stages[target].name = Name(doc, next)
    BY <1>1, FindStageFacts
  <2> HIDE DEF target
  <2>3. target \in DOMAIN doc.stages /\ doc.stages[target].name = Name(doc, next)
    BY <1>1, <2>1, <2>2
  <2>4. Name(doc, target) = Name(doc, next)
    BY <2>1, <2>3 DEF Name
  <2> QED
    BY <1>1, <2>3, <2>4 DEF Plain
<1>3. Filesystems(doc, world, context)[next] =
          OnTop(world, Named(doc, world, context, Filesystems(doc, world, context), Stage.image, next), Stage.text)
  BY <1>1, PlainFs DEF Stage
<1>4. /\ Fresh(doc, world, next) = OnTop(world, IF p = None THEN ImageFs(world, Stage.image) ELSE results[p].output,
                                  Stage.text)
      /\ Named(doc, world, Empty, Filesystems(doc, world, Empty), Stage.image, next) =
             IF p = None THEN ImageFs(world, Stage.image) ELSE results[p].output
      /\ p # None => p = Stage.image
  BY NextStage
<1> HIDE DEF target
<1>5. CASE p # None /\ results[p].hit
  <2>1. context = [n \in {p} |-> results[p].output]
    BY <1>5
  <2>2. Named(doc, world, context, Filesystems(doc, world, context), Stage.image, next) = results[p].output
    BY <1>4, <1>5, <2>1 DEF Named
  <2> QED
    BY <1>2, <1>3, <1>4, <1>5, <2>2 DEF target
<1>6. CASE ~(p # None /\ results[p].hit)
  <2>1. context = Empty
    BY <1>6
  <2> QED
    BY <1>2, <1>3, <1>4, <2>1 DEF target
<1> QED
  BY <1>5, <1>6

\* The result of a stage joins those of the stages above it.
LEMMA StageDone ==
  ASSUME NoneIsNoHash, PlanInv, ResultsInv, LayersInv, plain, pc = "stages", NEW o, NEW hit, NEW meta,
         meta \in {MetaOf(InputHash, o), PulledMeta(o)},
         Advance(o, hit, meta), doc' = doc, world' = world,
         o = Fresh(doc, world, next), InputHash \in DOMAIN index', index'[InputHash] = o,
         \A h \in DOMAIN index : h \in DOMAIN index' /\ index'[h] = index[h]
  PROVE  ResultsInv' /\ LayersInv'
<1> DEFINE L(k) == doc.stages[k].layer
<1>0. PICK n : n = next
  OBVIOUS
<1>1. /\ doc \in Dockerfiles /\ Plain(doc) /\ n \in 1 .. Len(doc.stages)
      /\ Len(doc.stages) \in Nat /\ DOMAIN doc.stages = 1 .. Len(doc.stages)
      /\ DOMAIN results = {Name(doc, k) : k \in 1 .. n - 1}
      /\ DOMAIN metas = {L(k) : k \in 1 .. n - 1}
      /\ \A k \in 1 .. n - 1 : ResultRight(k)
  BY <1>0, BuildPlanAssumption DEF PlanInv, ResultsInv, Building
<1>2. PICK r, nm : /\ r.input = InputHash /\ r.output = o /\ nm = Name(doc, n)
                   /\ results' = Insert(results, nm, r)
  BY <1>0 DEF Advance
<1>3. PICK l, m : /\ l = L(n) /\ m \in {MetaOf(InputHash, o), PulledMeta(o)}
               /\ metas' = Insert(metas, l, m)
  BY <1>0 DEF Advance, Stage
<1>4. next' = n + 1 /\ next' - 1 = n /\ n \in Nat
  BY <1>0, <1>1 DEF Advance
<1>5. /\ results'[nm] = r /\ metas'[l] = m
      /\ \A x \in DOMAIN results : x # nm => results'[x] = results[x]
      /\ \A x \in DOMAIN metas : x # l => metas'[x] = metas[x]
  <2>1. \A f, x, v : /\ Insert(f, x, v)[x] = v
                    /\ \A y \in DOMAIN f : y # x => Insert(f, x, v)[y] = f[y]
    BY DEF Insert
  <2>2. results'[nm] = r /\ \A x \in DOMAIN results : x # nm => results'[x] = results[x]
    BY <1>2, <2>1
  <2>3. metas'[l] = m /\ \A x \in DOMAIN metas : x # l => metas'[x] = metas[x]
    BY <1>3, <2>1
  <2> QED
    BY <2>2, <2>3
<1>6. ASSUME NEW k \in 1 .. n - 1
      PROVE  Name(doc, k) \in DOMAIN results /\ results'[Name(doc, k)] = results[Name(doc, k)]
  <2>1. k \in DOMAIN doc.stages /\ n \in DOMAIN doc.stages /\ k # n
    BY <1>1
  <2>2. Name(doc, k) # Name(doc, n)
    BY <1>1, <2>1 DEF Plain
  <2> QED
    BY <1>1, <1>2, <1>5, <2>2
<1>7. \A k \in 1 .. n : k \in 1 .. n - 1 \/ k = n
  BY <1>4
<1>8. ASSUME NEW k \in 1 .. n PROVE ParentInput(k)' = ParentInput(k)
  <2>1. CASE Parent(doc, k) = None
    BY <2>1 DEF ParentInput
  <2>2. CASE Parent(doc, k) # None
    <3>1. k \in Nat
      BY <1>4
    <3>2. PICK j \in 1 .. k - 1 : Parent(doc, k) = Name(doc, j)
      BY <2>2, <3>1, ParentIsAbove
    <3>3. j \in 1 .. n - 1
      BY <1>4
    <3>4. results'[Parent(doc, k)] = results[Parent(doc, k)]
      BY <1>6, <3>2, <3>3
    <3> QED
      BY <2>2, <3>4 DEF ParentInput
  <2> QED
    BY <2>1, <2>2
<1>9. ResultsInv'
  <2>1. ASSUME NEW k \in 1 .. n - 1 PROVE ResultRight(k)'
    <3>1. /\ results[Name(doc, k)].input = compute_input_hash(doc.stages[k], ParentInput(k))
          /\ results[Name(doc, k)].input \in DOMAIN index
          /\ results[Name(doc, k)].output = index[results[Name(doc, k)].input]
          /\ results[Name(doc, k)].output = Fresh(doc, world, k)
      BY <1>1 DEF ResultRight
    <3>2. results'[Name(doc, k)] = results[Name(doc, k)] /\ ParentInput(k)' = ParentInput(k)
      BY <1>6, <1>7, <1>8, <1>4
    <3>3. Fresh(doc, world, k)' = Fresh(doc, world, k)
      OBVIOUS
    <3> QED
      BY <3>1, <3>2, <3>3 DEF ResultRight
  <2>2. ResultRight(n)'
    <3>1. InputHash = compute_input_hash(doc.stages[n], ParentInput(n))
      BY <1>0, NextStage DEF InputHash, Stage
    <3>2. ParentInput(n)' = ParentInput(n)
      BY <1>1, <1>8
    <3> QED
      BY <1>0, <1>2, <1>5, <3>1, <3>2 DEF ResultRight
  <2>3. \A k \in 1 .. next' - 1 : ResultRight(k)'
    BY <1>4, <1>7, <2>1, <2>2
  <2> QED
    BY <1>1, <2>3 DEF ResultsInv
<1>10. LayersInv'
  <2>1. ASSUME NEW k \in 1 .. n, \A j \in k + 1 .. n : L(j) # L(k)
        PROVE  metas'[L(k)] \in {MetaOf(results'[Name(doc, k)].input, results'[Name(doc, k)].output),
                                 PulledMeta(results'[Name(doc, k)].output)}
    <3>1. CASE k = n
      BY <1>2, <1>3, <1>5, <3>1
    <3>2. CASE k \in 1 .. n - 1
      <4>1. n \in k + 1 .. n /\ \A j \in k + 1 .. n - 1 : j \in k + 1 .. n
        BY <1>4, <3>2
      <4>2. L(k) # l /\ L(k) \in DOMAIN metas
        BY <1>1, <1>3, <2>1, <3>2, <4>1
      <4>3. metas[L(k)] \in {MetaOf(results[Name(doc, k)].input, results[Name(doc, k)].output),
                             PulledMeta(results[Name(doc, k)].output)}
        BY <1>0, <2>1, <3>2, <4>1 DEF LayersInv, Building
      <4> QED
        BY <1>5, <1>6, <3>2, <4>2, <4>3
    <3> QED
      BY <1>7, <3>1, <3>2
  <2> QED
    BY <1>4, <2>1 DEF LayersInv
<1> QED
  BY <1>9, <1>10


-----------------------------------------------------------------------------
(* Every step keeps it.                                                    *)

CacheInv == IndexInv /\ ResultsInv /\ LayersInv /\ ManifestInv

\* What is in the store stays right while nothing is added to it.
LEMMA StoreStays ==
  ASSUME IndexInv, UNCHANGED <<index, world, builds, plain>>
  PROVE  IndexInv'
BY DEF IndexInv, EntryRight

\* A step of a build to one that has ended.
LEMMA CacheEnds ==
  ASSUME CacheInv, pc \in {"stages", "manifest"}, pc' \in {"failed", "internal"},
         manifest' = manifest
  PROVE  ResultsInv' /\ LayersInv' /\ ManifestInv'
<1>1. manifest' = None
  BY DEF CacheInv, ManifestInv
<1> QED
  BY <1>1 DEF ResultsInv, LayersInv, ManifestInv, Building

\* A step that leaves all but pc alone, and is not to a build that goes on.
LEMMA CacheFail ==
  ASSUME CacheInv, pc \in {"stages", "manifest"}, NEW why, why \in {"failed", "internal"}, Fail(why)
  PROVE  CacheInv'
<1>1. IndexInv'
  BY StoreStays DEF Fail, CacheInv
<1>2. pc' \in {"failed", "internal"} /\ manifest' = manifest
  BY DEF Fail
<1>3. ResultsInv' /\ LayersInv' /\ ManifestInv'
  BY <1>2, CacheEnds
<1> QED
  BY <1>1, <1>3 DEF CacheInv

\* Parse begins a build: nothing has been built of it.  What is in the store is of
\* the same world, if there is anything.
LEMMA CacheParse ==
  ASSUME PlanInv, CacheInv, NEW d \in Dockerfiles, NEW w, Parse(d, w)
  PROVE  CacheInv'
<1>1. /\ builds' = builds + 1 /\ next' = 1 /\ doc' = d /\ world' = w /\ UNCHANGED index
      /\ plain' = (plain /\ Plain(d) /\ (builds = 0 \/ w = world)) /\ manifest' = None
  BY DEF Parse
<1>2. builds' # 0
  BY <1>1 DEF PlanInv
<1>3. IndexInv'
  <2>1. SUFFICES ASSUME plain', NEW h \in DOMAIN index PROVE EntryRight(h)'
    BY <1>1, <1>2 DEF IndexInv
  <2>2. plain /\ world' = world
    BY <1>1, <2>1 DEF CacheInv, IndexInv
  <2> QED
    BY <1>1, <2>1, <2>2 DEF CacheInv, IndexInv, EntryRight
<1>4. 1 .. next' - 1 = {}
  BY <1>1
<1>5. ResultsInv' /\ LayersInv' /\ ManifestInv'
  BY <1>1, <1>4 DEF ResultsInv, LayersInv, ManifestInv
<1> QED
  BY <1>3, <1>5 DEF CacheInv

\* A hit takes the output of the stage from the store, and makes up its metadata.
LEMMA CacheHit ==
  ASSUME NoneIsNoHash, PlanInv, CacheInv, Hit
  PROVE  CacheInv'
<1>1. /\ pc = "stages" /\ InputHash \in DOMAIN index
      /\ UNCHANGED <<builds, doc, world, index, manifest, plain>>
  BY DEF Hit
<1>2. IndexInv'
  BY <1>1, StoreStays DEF CacheInv
<1>3. ManifestInv'
  BY <1>1 DEF CacheInv, ManifestInv
<1>4. PICK o : o = index[InputHash]
  OBVIOUS
<1>5. Advance(o, TRUE, PulledMeta(o))
  BY <1>4 DEF Hit, Advance
<1>6. plain => o = Fresh(doc, world, next)
  BY <1>1, <1>4, HitIsFresh DEF CacheInv
<1>7. ResultsInv' /\ LayersInv'
  <2>1. CASE plain
    <3>1. /\ InputHash \in DOMAIN index' /\ index'[InputHash] = o
          /\ \A h \in DOMAIN index : h \in DOMAIN index' /\ index'[h] = index[h]
      BY <1>1, <1>4
    <3>2. PICK m : m = PulledMeta(o)
      OBVIOUS
    <3>3. m \in {MetaOf(InputHash, o), PulledMeta(o)} /\ Advance(o, TRUE, m)
      BY <1>5, <3>2
    <3> QED
      BY <1>1, <1>6, <2>1, <3>1, <3>3, StageDone DEF CacheInv
  <2>2. CASE ~plain
    BY <1>1, <2>2 DEF ResultsInv, LayersInv
  <2> QED
    BY <2>1, <2>2
<1> QED
  BY <1>2, <1>3, <1>7 DEF CacheInv

\* What a miss publishes is right: the stage's instruction, on top of what the
\* store has for the stage below it.
LEMMA StoreMiss ==
  ASSUME NoneIsNoHash, PlanInv, CacheInv, Missed, NEW o,
         plain => o = Fresh(doc, world, next),
         Publish(InputHash, o), UNCHANGED <<builds, world, plain>>
  PROVE  /\ IndexInv'
         /\ InputHash \in DOMAIN index' /\ index'[InputHash] = o
         /\ \A h \in DOMAIN index : h \in DOMAIN index' /\ index'[h] = index[h]
<1>0. PICK i : i = InputHash
  OBVIOUS
<1>1. pc = "stages" /\ i \notin DOMAIN index /\ builds # 0
  BY <1>0 DEF Missed, PlanInv
<1>2. /\ DOMAIN index' = DOMAIN index \cup {i} /\ index'[i] = o
      /\ \A h \in DOMAIN index : index'[h] = index[h]
  BY <1>0, <1>1 DEF Publish, Insert
<1>3. ASSUME plain PROVE \A h \in DOMAIN index' : EntryRight(h)'
  <2>1. o = Fresh(doc, world, next)
    BY <1>3
  <2>2. ASSUME NEW h \in DOMAIN index PROVE EntryRight(h)'
    <3>1. EntryRight(h)
      BY <1>3 DEF CacheInv, IndexInv
    <3> QED
      BY <1>2, <3>1 DEF EntryRight
  <2>3. EntryRight(i)'
    <3> DEFINE p == Parent(doc, next)
    <3>1. /\ ParentHash = ParentInput(next)
          /\ p # None => /\ results[p].input # None /\ results[p].input \in DOMAIN index
                         /\ results[p].output = index[results[p].input]
          /\ Fresh(doc, world, next) =
                 OnTop(world, IF p = None THEN ImageFs(world, Stage.image) ELSE results[p].output,
                       Stage.text)
      BY <1>1, <1>3, NextStage DEF CacheInv
    <3>2. doc \in Dockerfiles /\ next \in 1 .. Len(doc.stages)
      BY <1>1 DEF PlanInv, Building
    <3>3. i.parent = ParentHash /\ i.instructions.image = Stage.image /\ i.instructions.text = Stage.text
      BY <1>0, <3>2, HashFacts DEF InputHash, Stage
    <3>4. ParentInput(next) = IF p = None THEN None ELSE results[p].input
      BY DEF ParentInput
    <3> HIDE DEF p
    <3>5. CASE p = None
      BY <1>2, <2>1, <3>1, <3>3, <3>4, <3>5 DEF EntryRight
    <3>6. CASE p # None
      <4>1. i.parent # None /\ i.parent \in DOMAIN index' /\ index'[i.parent] = results[p].output
        BY <1>2, <3>1, <3>3, <3>4, <3>6
      <4> QED
        BY <1>2, <2>1, <3>1, <3>3, <3>6, <4>1 DEF EntryRight
    <3> QED
      BY <3>5, <3>6
  <2> QED
    BY <1>2, <2>2, <2>3
<1>4. IndexInv'
  BY <1>1, <1>3 DEF IndexInv
<1> QED
  BY <1>0, <1>2, <1>4

\* A miss adds the output that it has made to the store, and goes on or has lost
\* the answer.
LEMMA CacheMiss ==
  ASSUME NoneIsNoHash, PlanInv, CacheInv, Missed, NEW o, NEW context,
         o = Filesystems(doc, world, context)[FindStage(doc, Name(doc, next), Len(doc.stages))],
         context = IF Parent(doc, next) # None /\ results[Parent(doc, next)].hit
                   THEN [n \in {Parent(doc, next)} |-> results[Parent(doc, next)].output] ELSE Empty,
         Advance(o, FALSE, MetaOf(InputHash, o)) \/ pc' = "failed",
         Publish(InputHash, o), UNCHANGED <<builds, doc, world, manifest, plain>>
  PROVE  CacheInv'
<1>1. pc = "stages"
  BY DEF Missed
<1>2. plain => o = Fresh(doc, world, next)
  BY <1>1, MissIsFresh DEF CacheInv
<1>3. /\ IndexInv'
      /\ InputHash \in DOMAIN index' /\ index'[InputHash] = o
      /\ \A h \in DOMAIN index : h \in DOMAIN index' /\ index'[h] = index[h]
  BY <1>2, StoreMiss
<1>4. CASE pc' = "failed"
  <2>1. ResultsInv' /\ LayersInv' /\ ManifestInv'
    BY <1>1, <1>4, CacheEnds
  <2> QED
    BY <1>3, <2>1 DEF CacheInv
<1>5. CASE Advance(o, FALSE, MetaOf(InputHash, o))
  <2>1. ManifestInv'
    BY <1>1 DEF CacheInv, ManifestInv
  <2>2. CASE ~plain
    BY <1>3, <2>1, <2>2 DEF CacheInv, ResultsInv, LayersInv
  <2>3. CASE plain
    <3>1. PICK m : m = MetaOf(InputHash, o)
      OBVIOUS
    <3>2. m \in {MetaOf(InputHash, o), PulledMeta(o)} /\ Advance(o, FALSE, m)
      BY <1>5, <3>1
    <3>3. ResultsInv' /\ LayersInv'
      BY <1>1, <1>2, <1>3, <2>3, <3>2, StageDone DEF CacheInv
    <3> QED
      BY <1>3, <2>1, <3>3 DEF CacheInv
  <2> QED
    BY <2>2, <2>3
<1> QED
  BY <1>4, <1>5

\* One step of the program.
LEMMA CacheStep ==
  ASSUME NoneIsNoHash, PlanInv, CacheInv, [Next]_vars
  PROVE  CacheInv'
<1>1. ASSUME NEW d \in Dockerfiles, NEW w, Parse(d, w) PROVE CacheInv'
  BY <1>1, CacheParse
<1>2. CASE Hit
  BY <1>2, CacheHit
<1>3. CASE CallFails
  BY <1>3, CacheFail DEF CallFails
<1>4. CASE Miss
  <2> DEFINE p == Parent(doc, next)
             target == FindStage(doc, Name(doc, next), Len(doc.stages))
  <2>1. Missed /\ pc = "stages"
    BY <1>4 DEF Miss, Missed
  <2>2. PICK context : context = IF p # None /\ results[p].hit
                                 THEN [n \in {p} |-> results[p].output] ELSE Empty
    OBVIOUS
  <2>3. PICK o : o = Filesystems(doc, world, context)[target]
    OBVIOUS
  <2>4. [input |-> InputHash, output |-> o, parent |-> ParentHash] = MetaOf(InputHash, o)
    BY DEF MetaOf, InputHash, compute_input_hash
  <2>5. CASE Fail("failed") \/ Fail("internal")
    BY <2>1, <2>5, CacheFail
  <2>6. CASE /\ Advance(o, FALSE, MetaOf(InputHash, o)) \/ pc' = "failed"
             /\ Publish(InputHash, o)
             /\ UNCHANGED <<builds, doc, world, manifest, plain>>
    BY <2>1, <2>2, <2>3, <2>6, CacheMiss
  <2> QED
    BY <1>4, <2>2, <2>3, <2>4, <2>5, <2>6 DEF Miss
<1>5. CASE Manifest
  <2>1. pc = "manifest"
    BY <1>5 DEF Manifest
  <2>2. CASE Fail("internal") \/ Fail("failed")
    BY <2>1, <2>2, CacheFail
  <2>3. CASE /\ Parsed(ReleaseLayers) /\ manifest' = ReleaseLayers /\ pc' = "done"
             /\ UNCHANGED <<builds, doc, world, next, results, metas, index, plain>>
    <3>1. IndexInv'
      BY <2>3, StoreStays DEF CacheInv
    <3>2. ManifestInv'
      <4>1. PICK listed : listed = ReleaseLayers
        OBVIOUS
      <4>2. ReleaseLayers' = listed /\ manifest' = listed /\ Parsed(listed)
        BY <2>3, <4>1 DEF ReleaseLayers
      <4>3. Parsed(manifest)'
        BY <4>2 DEF Parsed
      <4> QED
        BY <2>3, <4>2, <4>3 DEF ManifestInv
    <3>3. Building
      BY <2>1 DEF Building
    <3>4. ResultsInv'
      BY <2>3, <3>3 DEF CacheInv, ResultsInv, ResultRight, ParentInput
    <3>5. LayersInv'
      BY <2>3, <3>3 DEF CacheInv, LayersInv
    <3> QED
      BY <3>1, <3>2, <3>4, <3>5 DEF CacheInv
  <2> QED
    BY <1>5, <2>2, <2>3 DEF Manifest
<1>6. CASE UNCHANGED vars
  <2>1. UNCHANGED <<builds, doc, world, pc, next, results, metas, index, manifest, plain>>
    BY <1>6 DEF vars
  <2>2. IndexInv'
    BY <2>1, StoreStays DEF CacheInv
  <2>3. ManifestInv'
    BY <2>1 DEF CacheInv, ManifestInv, ReleaseLayers, Parsed
  <2>4. Building' = Building
    BY <2>1 DEF Building
  <2>5. ResultsInv'
    BY <2>1, <2>4 DEF CacheInv, ResultsInv, ResultRight, ParentInput
  <2>6. LayersInv'
    BY <2>1, <2>4 DEF CacheInv, LayersInv
  <2> QED
    BY <2>2, <2>3, <2>5, <2>6 DEF CacheInv
<1> QED
  BY <1>1, <1>2, <1>3, <1>4, <1>5, <1>6 DEF Next

\* The inductive invariant.
LEMMA CacheInvariant ==
  ASSUME NoneIsNoHash
  PROVE  Spec => [](PlanInv /\ CacheInv)
<1>1. Init => CacheInv
  <2> SUFFICES ASSUME Init PROVE CacheInv
    OBVIOUS
  <2>1. index = Empty /\ DOMAIN Empty = {} /\ pc = "idle" /\ manifest = None
    BY DEF Init, Empty
  <2> QED
    BY <2>1 DEF CacheInv, IndexInv, ResultsInv, LayersInv, ManifestInv, Building
<1>2. PlanInv /\ CacheInv /\ [Next]_vars => CacheInv'
  BY CacheStep
<1> QED
  BY <1>1, <1>2, PlanInvariant, PTL DEF Spec

\* A layer is never stale for a reason within the Dockerfiles: whatever plain
\* Dockerfiles were built before, with the images, arguments and context files
\* of this build, every stage has the filesystem that a build without a cache
\* would give it.
THEOREM CacheIsNeverStale ==
  ASSUME NoneIsNoHash
  PROVE  Spec => []CacheIsRight
<1>1. PlanInv /\ CacheInv => CacheIsRight
  BY DEF CacheInv, ResultsInv, ResultRight, CacheIsRight, Building
<1> QED
  BY <1>1, CacheInvariant, PTL

\* The stage of a layer of the release is the last one with its label.
LEMMA LayerStageFacts ==
  ASSUME NEW d \in Dockerfiles, NEW l \in LayerNames(d)
  PROVE  LET k == LayerStage(d, l) IN
         /\ k \in 1 .. Len(d.stages) /\ d.stages[k].layer = l
         /\ \A j \in 1 .. Len(d.stages) : d.stages[j].layer = l => j <= k
<1>1. Len(d.stages) \in Nat /\ DOMAIN d.stages = 1 .. Len(d.stages)
  BY BuildPlanAssumption
<1> DEFINE S == {k \in 1 .. Len(d.stages) : d.stages[k].layer = l}
<1>2. S \subseteq 1 .. Len(d.stages) /\ S # {}
  BY <1>1 DEF LayerNames
<1>3. \E k \in S : \A j \in S : j <= k
  BY <1>1, <1>2, GreatestNat
<1>4. \E k \in DOMAIN d.stages :
          /\ d.stages[k].layer = l
          /\ \A j \in DOMAIN d.stages : d.stages[j].layer = l => j <= k
  BY <1>1, <1>3
<1> QED
  BY <1>1, <1>4 DEF LayerStage

\* A manifest that is published is a chain of this build's hashes, of the layers
\* the release lists; what hits make up never gets into it.
THEOREM ManifestIsAlwaysChain ==
  ASSUME NoneIsNoHash
  PROVE  Spec => []ManifestIsChain
<1>1. ASSUME PlanInv, CacheInv PROVE ManifestIsChain
  <2>1. SUFFICES ASSUME plain, manifest # None, NEW i \in DOMAIN doc.release
                 PROVE  LET k == LayerStage(doc, doc.release[i])
                            p == Parent(doc, k) IN
                        /\ manifest[i].output = Fresh(doc, world, k)
                        /\ manifest[i].input = results[Name(doc, k)].input
                        /\ manifest[i].parent = IF p = None THEN None ELSE results[p].input
    BY DEF ManifestIsChain
  <2>2. PICK l, k : l = doc.release[i] /\ k = LayerStage(doc, l)
    OBVIOUS
  <2>3. pc = "done" /\ Building /\ manifest[i] = metas[l] /\ manifest[i].input # None
    BY <1>1, <2>1, <2>2 DEF CacheInv, ManifestInv, ReleaseLayers, Parsed, Building
  <2>4. /\ doc \in Dockerfiles /\ Accepted(doc) /\ next - 1 = Len(doc.stages)
        /\ Len(doc.stages) \in Nat
    <3>1. /\ doc \in Dockerfiles /\ Accepted(doc) /\ next \in Nat
          /\ next <= Len(doc.stages) + 1 /\ ~(next <= Len(doc.stages))
      BY <1>1, <2>3 DEF PlanInv
    <3>2. PICK n : n = Len(doc.stages) /\ n \in Nat
      BY <3>1, BuildPlanAssumption
    <3>3. next - 1 = n
      BY <3>1, <3>2
    <3> QED
      BY <3>1, <3>2, <3>3
  <2>5. l \in LayerNames(doc)
    BY <2>2, <2>4 DEF Accepted, validate_graph
  <2>6. /\ k \in 1 .. Len(doc.stages) /\ doc.stages[k].layer = l
        /\ \A j \in 1 .. Len(doc.stages) : doc.stages[j].layer = l => j <= k
    BY <2>2, <2>4, <2>5, LayerStageFacts
  <2>7. \A j \in k + 1 .. next - 1 : doc.stages[j].layer # doc.stages[k].layer
    BY <2>4, <2>6
  <2>8. k \in 1 .. next - 1
    BY <2>4, <2>6
  <2> DEFINE r == results[Name(doc, k)]
  <2>9. metas[l] = MetaOf(r.input, r.output)
    <3>1. metas[l] \in {MetaOf(r.input, r.output), PulledMeta(r.output)}
      BY <1>1, <2>1, <2>3, <2>6, <2>7, <2>8 DEF CacheInv, LayersInv
    <3>2. PulledMeta(r.output).input = None
      BY DEF PulledMeta
    <3> HIDE DEF r
    <3> QED
      BY <2>3, <3>1, <3>2
  <2>10. r.input = compute_input_hash(doc.stages[k], ParentInput(k)) /\ r.output = Fresh(doc, world, k)
    BY <1>1, <2>1, <2>3, <2>8 DEF CacheInv, ResultsInv, ResultRight
  <2>11. r.input.parent = ParentInput(k)
    BY <2>10 DEF compute_input_hash
  <2> HIDE DEF r
  <2>12. /\ manifest[i].output = Fresh(doc, world, k)
         /\ manifest[i].input = r.input
         /\ manifest[i].parent = ParentInput(k)
    BY <2>3, <2>9, <2>10, <2>11 DEF MetaOf
  <2> QED
    BY <2>2, <2>12 DEF ParentInput, r
<1> QED
  BY <1>1, CacheInvariant, PTL
==============================================================================

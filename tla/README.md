# Microvisor: TLA+ models and proofs

Microvisor boots Firecracker microVMs from content-addressed root file systems.
This directory models the parts of it in which order, failure and concurrency
decide whether it is correct, checks them with TLC on small instances and proves
the central facts with TLAPS for all instances. Paths below are relative to the
repository's root, `src/`. `PROJECT.json` is the machine-readable index: which
definition models which lines, what each run checks, which hazard each property
is for.

## 1. The system

| Part | State it keeps | Operations | Interacts with |
|---|---|---|---|
| `control-plane/src/vmm/mod.rs`, Orchestrator | nothing of its own; a `ProvisioningContext` per launch | `launch_vm` = `provision_vm`, then `cleanup` on error | all managers below, the jailer process, the kernel |
| `vmm/state.rs`, state machine | one state per launch | `transition_to` | orchestrator |
| `vmm/storage.rs`, StorageManager | the next thin id, from 100 at every start | `create_snapshot` (4 dmsetup commands), `delete_snapshot` (2) | thin pool and device-mapper names, which outlive the process |
| `vmm/network.rs`, IpAm | a 64-bit atomic bitset | `allocate` (load / compare-exchange loop), `release` | concurrent launches |
| `vmm/network.rs`, TapDevice, EbpfProgram | a persistent TAP; loaded programs | `create`, `Drop`, `load_nat_program` | kernel, Firecracker |
| `vmm/cgroup.rs` | directories | create, configure, delete | kernel |
| `vmm/firecracker_api.rs` | none | `wait_for_socket`, `put` with a 100 ms timeout | Firecracker's API socket in the jail |
| `microvisor-ebpf` | one configuration map | two classifiers: rewrite, pass or drop a packet | guest and host traffic |
| `fs-storage/src/layer_store.rs`, LayerStore | none; everything is in the directory | publish layer and manifest, resolve, tags, `gc_candidates`, `gc_execute` | backend |
| `fs-storage/src/backends` | `objects/`, `meta/`, `manifests/`, `refs/tags/`, `tmp/` | put (temporary file and rename), get, list, delete | file system |
| `fs-storage/src/server.rs` | none | gRPC handlers; a demultiplexer task per upload | store, clients |
| `build-system/src/orchestrator.rs` | results of the stages so far | `build`: resolve, pull or solve and publish, manifest | store, BuildKit |
| `build-system/src/{parser,hasher,converter,buildkit,store}.rs` | none | parse a Dockerfile, hash stages, pack artifacts, run BuildKit, gRPC client | build orchestrator |

What is hard in it:

- **Concurrent launches** share the address bitset, the id counter and, for two
  launches of one VM id, every host name. There is no lock on a VM id.
- **Partial failure**: a launch is some twenty steps over kernel objects that
  outlive it; each step can fail, and what a failed launch must undo is recorded
  in two ways (RAII locals and the context), undone at two different times.
- **A process that is not waited for**: Firecracker opens the disk and the TAP,
  may serve a request after its client gave up, and keeps both open for a while
  after SIGKILL.
- **Crash and restart** of the orchestrator: the counter and the bitset start
  over, the pool, the devices and the jails do not.
- **The store has no lock and no transaction**: a publish is two blobs, a
  metadata file and an index entry; a manifest and a catalog entry; a tag. Builds,
  tag commands and a collection interleave file by file, and a crash keeps any
  prefix.
- **An upload is four tasks and two bounded channels**: two artifacts share one
  stream, each has a reader that may not read, fail or be dropped, and the end of a
  stream, a lost client and a file that cannot be read look alike to the server.
- **A stateless NAT**: two programs that know one address must undo each other's
  work, in headers, in checksums and in the headers ICMP errors quote.
- **A cache addressed by inputs**: a layer is found by a hash of what the code
  takes for its inputs, and built on parents that are either layers or rebuilt.

What makes each part correct: addresses are exclusive and none is lost; a launch
that fails leaves nothing it has not warned of, and takes nothing from another; a
launch that succeeds has everything; no two VMs share a disk; every launch ends;
whatever the store refers to is there; an artifact in place is whole, and
an upload ends; an answer to a translated packet gets back to its sender with right
checksums; a layer is what a build without a cache would have made.

## 2. Modules

    IpBits ─┬─ IpAmSpec          what the allocator promises, one step per call
            ├─ IpBitsProofs ─┬─ IpAmProofs
            │                └─ ProvisioningProofs
            ├─ IpAm          one step per atomic access; implements IpAmSpec
            └─ Provisioning ── MCProvisioning
    LayerStore ─┬─ MCLayerStore
                ├─ LayerStoreProofs
                └┄ PublishStream ─┬─ MCPublishStream   implements LayerStore's publish
                                  └─ PublishStreamProofs
    NatDatapath ─┬─ MCNatDatapath
                 └─ NatDatapathProofs
    BuildPlan ─┬─ MCBuildPlan
               └─ BuildPlanProofs

**IpBits** is the arithmetic between slots and 32-bit addresses. A bitset is the
set of its one bits, `IpOf` wraps at `IpSpace` like u32 addition, `Cleared` is
`release`'s bounds check and mask. `IpBitsAssumption` says that the pool does not
run past the last address; the one caller passes 10.0.0.1.

**IpAm** is `allocate` and `release`. `Load` is the load of a new call with the
early return when full; `Swap` the exchange that succeeds; `Retry` the exchange
that fails with the load that follows it (nothing lies between them); `Release`
the `fetch_and`. A caller is a launch: it holds at most one address and releases it once,
since `host_ip` is `take()`n. **IpAmSpec** has no bitset and no loop: the lowest
unheld address in one step, or a refusal at a moment when all are held.
`ImplementsIpAmSpec` maps `held` to the granted addresses and a pending exchange
to "idle".

**Provisioning** is `launch_vm` for several launches over one host. Host state
(`pool`, `dm`, `tap`, `cgroup`, `jail`) names the launch that made each entry and
survives the orchestrator; `vmm` and `opened` are the Firecracker processes and
the files they have open; `ctx` is the context, `locals` the RAII locals. There
is one action per step that can fail by itself: each dmsetup command, the TAP,
the address (one step, as the refinement of IpAm justifies), the programs, the
cgroup and its settings, the jail, the spawn, the wait for the socket, and per API
request a send, the service by the process, and the answer or the timeout.
`DropLocals` comes before the steps of `cleanup`, as `provision_vm` returns before
`launch_vm` sees the error. `DropVm` and `Exit` are main after Ctrl-C; `Crash`
stops it anywhere; `Restart` is `Orchestrator::new`. `Faults` names the steps the
environment can make fail in a run, the steps of the rollback included: where
`cleanup` logs an error and goes on, the resource stays and `warned` records it; the
TAP's Drop reports nothing.

**LayerStore** is the store's directory and the calls under way, one step per
file made, read or removed. A build walks a linear chain of stages; what BuildKit
and the converter do is one step that can fail. `up` follows the two uploads of
`publish_layer_concurrent`; a build in `Direct` has a `StoreClient` in the
server's process and uses the sequential `publish_layer`. No such client is in the
repository, only the `publish_layer` it would call: the instances have both, which
adds behaviours (a cache hit that succeeds among them) and takes none away. A manifest is named by
its build (its hash covers a fresh id). `GcMode` says when an operator collects:
never, only while no build is under way, or at any time.

**PublishStream** is one `publish_layer` over gRPC, for several clients that upload
one layer. `sending` and `sent` are the client's sender task, `wire` the messages
under way, `demux` the server's demultiplexer, `chan` its two channels, `put` and
`file` the two `put_blob` calls and what they have read, hashed and written. One
action is one chunk sent, forwarded or copied, or one step of the handler. A client
that cannot read a file goes on with the next (`EndArtifact`); a client that is lost
(`Cut`) makes hyper drop the handler's future, while the spawned demultiplexer goes
on until it finds the receivers gone. `ImplementsStore` maps an upload to
LayerStore's: there a `put_blob` checks and then places an artifact at once, and
every step of the streams is one of those or leaves the store as it is.

**NatDatapath** is `load_nat_program` step by step, and one packet at a time through
the classifiers. A word is a number up to `M`, so that the
ones' complement arithmetic is exact and its width a parameter; an address is two
words, and the words no program touches count through their sum only (`rest`,
`body`). `try_egress` and `try_ingress` are functions of a packet, `None` for
TC_ACT_SHOT, with the early returns in the code's order (`len` says how far
`ctx.load` gets). `CsumReplace` is what the kernel's two helpers compute. `Hooks`
says which program sees which direction, as the calls of `attach` have it. What the
comments expect of the directions is `find_nat_hooks`; `AnswersComeBack` is about the
two classifiers as functions of a packet and does not depend on where they are.

**BuildPlan** is parser, hasher and the loop of `build`, for builds that follow
each other and share a store. A Dockerfile is already split into stages and
instructions. A hash is the record of what it is computed from, so that two hashes are
equal exactly if their inputs are; a filesystem is the sequence of the steps that
made it, each in the `world` of its build: what the images' tags point to, the build
arguments and the files of the context, none of which is hashed. `Fresh` is the
reference: what a stage is when nothing is cached, in the world of this build. `plain`
records whether all builds so far were in one world and of Dockerfiles whose stages
have names of their own, none of them `scratch`, and whose instructions neither copy
from a stage nor have a `#`. (`FROM scratch` is the empty image to the parser even
below a stage of that name; BuildKit is taken to look for the stage first, so the two
disagree on the parent.) A Dockerfile without a stage is accepted, and gives a manifest
without layers.

A hit pulls the layer to the path `""` for its metadata. `GrpcStoreClient` creates a
file of that name and fails (`store.rs:56`), so with it every build that hits fails;
this is `CallFails`, or `PullWorks = FALSE`. With `PullWorks` the path is taken to be
writable, and the hit goes on with the metadata `pull_layer` makes up
(`store.rs:64-73`): no input hash and no parent. If such a layer is of the release, the
server panics when it parses the manifest (`server.rs:242`) and nothing is published
(`Parsed`). The runs have `PullWorks = TRUE`, which has all behaviours of FALSE and
those in which hits succeed; the theorems are for both.

Assumptions about what is outside the repository, each marked external in the map
or named as a constant: TUNSETIFF fails with EBUSY on a TAP another process has
open; dmsetup refuses to create a name or a thin id that exists and to remove an
open device; Firecracker opens a drive or TAP when it is configured and closes it
when it is gone; a rename is atomic; tc's egress of a TAP is what the host
transmits on it, and dropping an `Ebpf` detaches its programs; BuildKit resolves a
name to the last stage above that has it, or to the context given for it. `DeathSignal` is whether the child still has
its parent-death signal after the jailer: Linux clears it when a process changes
its effective uid, and the jailer changes to 1000, so every run has FALSE; only a
process that has not got so far dies with its parent. The theorems are for both.

## 3. Runs

Passing runs:

| Run | Shows | Bounds |
|---|---|---|
| `ipam` | exclusive addresses, exact bitset, refinement of IpAmSpec, lock-freedom | 4 callers, 3 slots |
| `launch_retry` | two launches of one id, faults of every step, a crash, a restart: the device name keeps them apart, the socket polled is the launch's own, Ok means complete, what a rollback leaves was warned of, every launch ends | 2 launches, 1 restart, fairness; 523,000 states |
| `launch_restart` | the id counter starting over never maps one thin id twice; the address bookkeeping stays exact; what a rollback leaves was warned of, with requests served after their timeout and thin ids that cannot be deleted | 2 VMs, 2 addresses, 1 restart, symmetry; 2.7 million states |
| `store` | references resolve, manifests can be deployed, index entries can be used, with faults and crashes anywhere in a build and collections between builds | 3 builds, 2 layers, 1 tag; 789,000 states |
| `upload` | an artifact in place is whole unless a client could not read its file; Ok means published; uploads end unless the demultiplexer is starved; no task is left behind; the streams implement LayerStore | 2 uploads, 2 chunks per artifact, channels and wire of 1, one fault |
| `nat` | with the hooks as attached, and while they are being attached, checksums are right behind a hook exactly if they were before, but for rewritten ICMP errors; each classifier undoes the other in an answer, addresses and quoted header | 2-bit words, 2 host addresses, 2 peers; 855,000 states |
| `planner` | an accepted Dockerfile has all that `build` looks up; no layer is stale for plain Dockerfiles in one world; a published manifest is a chain | 2 builds out of 353 Dockerfiles of 0, 2 or 3 stages, 2 worlds, symmetry; 294,000 states |

The faults of the launches: `launch_retry` has those of every forward step but the
timeouts, the death of the process, the crash and a jail that cannot be removed; `launch_restart` the
timeout, the crash and a thin id that cannot be deleted. Firecracker answering an error
by itself ("api") and the other failures of the rollback ("tap_drop", "rm_cgroup",
"dm_remove") are in no run, to keep them small; the theorems allow them all.

The bounds: an address race needs two callers on one slot and a third that changes
the bitset back, four callers on three slots also reach exhaustion. Launches
interact in pairs, through one name or one slot each, so two launches with one id
and two with different ids cover both kinds of conflict; one restart is what makes
the counter meet ids of the previous run. Two launches do not exhaust two addresses:
exhaustion is `ipam`'s. For the store, two builds share a layer,
one of them has a second stage on top, and a third comes later and hits the cache;
one tag is moved and deleted. For the upload, what matters is an artifact longer than
its channel (two chunks, a channel of one) and a second upload that meets the first
at any point or retries after it; with two faults instead of one the same properties
hold (251,597 states). For the NAT, one of the two host addresses has the guest's ones'
complement sum and the other has not, and with two bits both zeros of ones'
complement occur; the proofs are for any width. For the planner, three stages are a
parent, a child and a stage beside or on top of it, and two builds are one that fills
the cache and one that hits it; two worlds, which differ in nothing but their names,
are one that stays and one that changes. `CHECK_DEADLOCK FALSE` is set where the calls of an instance
come to an end.

Fairness. `IpAm`: a thread inside `allocate` keeps running, the loop has no
await. `Provisioning`: a launch under way is polled by the runtime; its waits for
the process have a timeout in the code (`wait_for_socket` five seconds, `put` 100
ms); the commands it waits for without one (dmsetup, mke2fs) are assumed to end; a
live Firecracker is scheduled; a SIGKILL is delivered. Nothing is assumed about when anybody launches, crashes or restarts.
`PublishStream`: the client's sender, the demultiplexer and the handler are tasks
their runtimes poll, each by itself; nothing is assumed about faults.
`EndsUnlessStarved` excuses exactly one state, `Starved`: the demultiplexer has a
chunk for a channel that is full and has no reader any more. `LayerStore`,
`NatDatapath` and `BuildPlan` have no liveness property.

Runs that show a disagreement between the code and what the repository says of it
(each is a finding in PROJECT.json, with the line quoted):

| Run | What happens |
|---|---|
| `find_gc_race` | a collection deletes the layers of a build published meanwhile, which is then tagged |
| `find_nat_hooks` | the programs are attached to the TAP's directions, not the guest's: the guest's packets pass `tc_ingress` and leave with the guest's address |
| `find_stale_copy` | the input hash has the text of `COPY --from`, not the stage it names: after a change of that stage the old files are a cache hit (of a store client whose hits succeed, see BuildPlan) |
| `find_orphan` | the orchestrator dies after Firecracker became uid 1000, which has cleared its parent-death signal, and the process runs on |
| `find_checksum` | a `put_blob` that finds the artifact in place reads nothing, and the metadata gets the checksum of no bytes instead of that of the bytes on disk |

The models have other behaviours a reader of the code should know of, which follow
so directly from it that no run is kept for them:

Launches (Provisioning):

- an error in the later commands of `create_snapshot` leaves a thin id, and from
  the third on a device, that nobody recorded;
- `cleanup` kills Firecracker and does not wait (`mod.rs:420`): if that has been
  told of the rootfs, `dmsetup remove` finds the device open and the snapshot stays;
- the TAP's Drop runs before that; if Firecracker has opened the TAP, Drop fails and
  the TAP stays;
- a rollback frees the device name before it removes the jail (`mod.rs:456`), which
  by then may be the one the next launch of the id has built;
- after Ctrl-C nothing deletes the snapshot, the cgroup and the jail;
- ids that agree in their first 11 bytes get one TAP name.

Store and uploads (LayerStore, PublishStream):

- over gRPC a cache hit fails the build, since the path to pull to is empty
  (`store.rs:56`), and `pull_layer` makes up empty metadata;
- a failed cache upload leaves half a layer, which later counts as whole
  (`layer_store.rs:138`);
- an upload is starved, and never answered, when one artifact is not read, because
  it is in place already or its `put_blob` failed, and has more than 32 chunks left
  while the other is still waited for: two clients that upload one layer at once, a
  retry after one artifact failed, a full disk;
- a client that cannot read its artifact publishes what it has read, as the whole;
- a second stage with the output of the first is not registered if the first is
  published already, and not forgotten by a collection if both are registered;
- a crash inside `gc_execute` after the deploy artifact is deleted leaves an index
  entry whose layer cannot be deployed;
- blobs of a publish that failed before its metadata was written are never
  candidates for collection.

NAT (NatDatapath):

- in an ICMP error, the new quoted address and the new checksum of the quoted header
  cancel out in the sum of the message; the classifiers correct its checksum all the
  same, and make it wrong unless guest and host address happen to have one sum. This
  contradicts `microvisor-ebpf/src/main.rs:187-189` ("it covers the full ICMP payload,
  which includes the inner IP header we just changed"), spec 007:28 and ADR-011:32 ("so
  PMTUD and traceroute work"). No run is kept for it: the theorem
  `IcmpErrorsCharacterised` says exactly when the checksum is wrong.

Builds (BuildPlan, and what it leaves out):

- what follows a `#` inside an instruction is not hashed; neither are an ARG and the
  digest of a base image, which `build-system/docs/002-tad.md:234` and 236 say are
  hashed, and the files of the context: a build in another world may get the layers of
  the old one;
- a build that hits a layer of its release publishes no manifest, even if the pull
  succeeds;
- stages without a name get one the parser makes up, which is no target for
  BuildKit; of two stages with one name BuildKit takes the last;
- a layer name may be used twice, and the order of the release list is not compared
  with `steel.layer.order`.

`LeftoversAreReported`, `EndsUnlessStarved`, `WholeUnlessUnread`, `ChecksumsKept`,
`CacheIsRight` and `store` say what holds outside these: what a launch that failed
after its snapshot was recorded has left, but for the TAP, cleanup has warned of; and
`store` collects without a crash or a failed deletion in the collection, with plans in
which inputs and contents correspond one to one.

## 4. Proofs

Checked by TLAPS, for every value of the constants that satisfies the named
assumptions.

**IpAmProofs.** The inductive invariant `IInv` is the type invariant, "the bitset
is exactly the slots of the addresses held", exclusiveness, and "a caller holds an
address exactly when its last answer was Ok". Exclusiveness alone is not inductive:
a successful exchange hands out a slot that is clear in the bitset, and only the
exactness of the bitset says that nobody holds it. The value loaded
earlier need only have a clear bit (`LoadedHasRoom`), because the exchange compares
it with the bitset of that moment; this is why the bitset changing and changing
back is harmless. From
`IInv`: `TypeCorrect`, `AddressesExclusive`, `BitsetExact`, and `Refinement`, which
shows each step to be a step of IpAmSpec or a stutter (`UnheldIsClear` relates
"lowest clear bit" to "lowest unheld address"). They rest on `IpOfFacts`: no
address wraps.

**LayerStoreProofs.** `TInv` is the type invariant with two facts without which
it is not inductive: a build that is working has a stage left, and a collection
that is deleting has a layer in hand. `RInv` adds `ReferencesResolve` and what is
pending: the manifest a tag command has found, and the manifest whose catalog
entry is about to be written, exist. With `ManifestsStay` (no step removes a
manifest) it gives `ReferencesAlwaysResolve`, for any faults, crashes and
collections. `UInv`, for a store that is not collected, adds that finished uploads
are in place, that a build past its uploads has a complete layer, and that the
layers a build counts as done can be deployed; it gives `UncollectedManifestsServe`
and `UncollectedIndexServes`, for any number of builds, stages and layers, with any
faults and crashes. `AloneInv`, for a store that is collected while no build is under
way, is `UInv` between collections and `CollectInv` during one: every manifest is
marked once the manifests have been listed (`MarkedAll`), a candidate has metadata and
is in no manifest (`CandidatesUnused`), and only the layer being deleted may have an
index entry that it does not serve (`IndexLeft`). The last is what makes
`IndexedIsComplete` hold again when the collection ends: `gc_execute` forgets the one
input hash it reads from the layer's metadata, and this is every entry of the layer
only if no two input hashes lead to one content (`ContentHasOneInput`). That is a
hypothesis of `CollectedManifestsServe` and `CollectedIndexServes`, as is that no
deletion fails and no crash cuts a collection off (a crash of a build may); without any one of them an index
entry can outlive its deploy artifact, and a build that hits it may publish a manifest
that cannot be deployed. `mke2fs` gives every image a UUID, so contents of different
stages do differ.

`ReferencesResolve` under concurrent collection and with ignored deletion errors is
established by the proof; `store` checks it with collections between builds.

**NatDatapathProofs.** The arithmetic first: ones' complement addition is
commutative and associative, its result is zero only for two zeros, and from that
`CsumReplaceKeeps`: replacing an address and correcting the checksum by
`CsumReplace` leaves a sum that was M at M and one that was not at something else.
It needs a word that is not zero among those left alone, because ones' complement
has two zeros; an IP header has its version, a segment its ports or length, and the
model says so of every packet it sends. Then one lemma per classifier on what it
does to a packet, and the invariant. `NatInv`: the types; once the
configuration is set it is the VM's address, and before that no program is attached,
so that the hooks never rewrite with a zero address; every packet has the shape
above; and an ICMP error that has not passed a hook has a right checksum, without
which nothing could be said of the checksum behind it. It gives `TypeCorrect`,
`ChecksumsAlwaysKept` and `IcmpErrorsCharacterised`; `ClassifiersUndoEachOther` needs
of it only that the configuration is the VM's address once the programs are attached,
and two lemmas on what the classifiers make of an answer. All of it holds for any width,
any addresses and any sets of hosts and peers that `NatAssumption` allows: guest,
metadata service, hosts and peers have different addresses.

**ProvisioningProofs.** Nothing in the code locks a VM id; the argument is that the
device-mapper name does. `dmsetup create` refuses a name that exists, so a launch past
`dm_create`, until its rollback has removed the device, is the only one of its id
(`LockIsExclusive`), and what it makes afterwards under the id, without looking, is its
own. `CoreInv` is the type invariant, with a bound on the thin id counter without which
it is not inductive (`CounterInv`); for every launch what the context and the locals
have at the step it is at (`Recorded`), who owns the disk, cgroup and jail (`OwnsDisk`,
`OwnsCgroup`, `OwnsJail`) and what a rollback leaves of the disk; `DevicesInv`, that a mapped thin
id is in the pool and belongs to the launch that mapped it; and `SlotsMatchLaunches`.
From it `TypeCorrect`, `SlotsAreSafe`, `ThinIdsAreSafe` and `SocketsAreSafe`, for any
launches, ids, faults, crashes and restarts. The TAP is the one resource the lock does
not cover: its name is the id cut to 11 bytes. Under `TapNamesDiffer`, that no two ids
share a name, `TapInv` adds its owner, and gives `RunningVmIsIntact`,
`LaunchesDoNotInterfere` (an action property) and `RollbackIsReported`: whatever steps
of the launch and of its cleanup fail, a leftover has a warning. Neither of the first
two is about the jail, which the lock does not cover either: the device name is free
before the rollback removes the jail. The arithmetic of addresses is shared
with IpAmProofs, in IpBitsProofs.

**PublishStreamProofs.** For artifacts of any length, channels of any capacity and any
number of uploads and faults. What a file, its channel, the wire and the sender have
is, in this order, the artifact: `Prefix` says it of what has reached the server,
`Framed` and `InOrder` of what is on the wire, `Complete` that nothing is missing once
the sender is done with an artifact it could read. `InOrder` and `Complete` are only
claimed until the client is lost or the handler is through: from then on its
`put_blob`s are dropped with it and put nothing in place. `HandlerInv` relates the
handler's step to its `put_blob`s and the store. `WholeUnlessUnread` is not inductive without
all of them: a `put_blob` takes the end of its channel for the end of the artifact, and
why that is right is a matter of the sender and the demultiplexer, three queues away.
`ChecksumKnown`, that a recorded checksum is that of the artifact or of nothing, is part
of it. `UploadInv` gives `TypeCorrect`, `ArtifactsAreWhole` and `OkIsTrue`. `ImplementsLayerStore` maps every action to an action of LayerStore's
build or a stutter.

**BuildPlanProofs.** For any Dockerfiles and any number of builds. `PlanInv` says
where the loop is and for which stages the maps have an entry, and gives
`BuildFindsAll`. That the cache is right is a statement about a recursive function,
the filesystems of a Dockerfile. TLAPS does not know that the recursion has a
solution: `LeastNat`, from the library's theorem on well-founded relations, gives
induction over a set of numbers, that gives a solution for the first n stages for
every n (`FsExists`), and with it the recursion equation (`FilesystemsAre`). The
invariant `CacheInv` is about the store rather than the build: `IndexInv`, that the
output for an input hash is its instruction on top of the output for its parent's
hash, so that the hash determines the filesystem whichever build of this world
published it; and about the build `ResultsInv`, `LayersInv` (a layer has the metadata
of the last stage with its label, as published or as a hit has made it up) and
`ManifestInv`, that a published manifest has no hash the server cannot parse. It gives
`CacheIsNeverStale` and `ManifestIsAlwaysChain`. Their hypothesis `NoneIsNoHash` says that no hash is `None`;
in the code these are the two cases of an `Option`. They are about plain Dockerfiles
in one world, as the properties are; outside these `find_stale_copy` shows a stale
layer.

Only model-checked: liveness (`LockFree`, `LaunchEnds`, `EndsUnlessStarved`,
`TasksEnd`), which is out of the prover's reach. Every other
property of a passing run is stated by a theorem, under the hypotheses named above.

## 5. What is not modelled

- Contents of artifacts, tar, zstd, ext4, JSON and protobuf: formats no property
  here is about. The converter is a step that makes an image or fails.
- In a packet: IP options, fragments and checksum offload, and the words no program
  reads. Routing and ARP outside the TAP.
- How a Dockerfile's text is split into instructions, `\` continuations included.
- The stream of `pull_layer` (whose task takes an error of read for the end of the
  file, `server.rs:147`; what it damages is the client's own file).
- Which CPUs and NUMA node are chosen; logging and tracing; `list_builds`,
  `get_build`, `verify_store`, which change nothing.
- The test doubles: `MockStoreClient` and the other mocks of `build-system`.
- The in-memory backend (a lock around maps), BuildKit itself, xtask and the
  host set-up scripts.

## 6. Plan

Done, in this order: IpBits, IpAmSpec, IpAm and its proofs; Provisioning;
LayerStore and its proofs; PublishStream and its refinement of LayerStore;
NatDatapath and its proofs; BuildPlan; the proofs about Provisioning, PublishStream
and BuildPlan; LayerStore collected while no build is under way. Next:

1. Action properties of LayerStore with their proofs: a manifest that is published is
   never changed, and what a crash may take away.
2. `LeftoversAreReported` without `TapNamesDiffer`, for the launches whose TAP name
   nobody shares.

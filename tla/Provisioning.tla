---------------------------- MODULE Provisioning ----------------------------
(***************************************************************************)
(* Orchestrator::launch_vm (control-plane/src/vmm/mod.rs): concurrent      *)
(* launches over one host, each step of provision_vm that can fail, the    *)
(* rollback of ProvisioningContext::cleanup and of the Drop of the locals, *)
(* the Firecracker processes, and exit, crash and restart of the           *)
(* orchestrator.                                                           *)
(*                                                                         *)
(* The host keeps thin-pool ids, device-mapper devices, TAPs, cgroups and  *)
(* jails across a restart; each entry names the launch that made it.  The  *)
(* orchestrator keeps its counters, the address bitset and the launches in *)
(* memory.  A launch is a session; sessions may share a VM id (a retry).   *)
(***************************************************************************)
EXTENDS IpBits, FiniteSets, Sequences

CONSTANTS
    Sessions,     \* the launches, one call of launch_vm each
    NoOne,        \* no session
    Ids,          \* VM ids
    IdOf,         \* IdOf[s]: config.id of s
    TapOf,        \* TapOf[i]: "tap-" + i cut to the kernel's 15 bytes
    LongIds,      \* ids whose "tap-" + i does not fit in 15 bytes
    Faults,       \* the steps the environment can make fail
    DeathSignal,  \* whether PR_SET_PDEATHSIG outlives the jailer's change of uid
    FirstDev,     \* StorageManager's first id: 100
    MaxRestarts   \* bound on orchestrator restarts

TapNames == {TapOf[i] : i \in Ids}

FaultKinds == {"create_snap", "dm_create", "dm_load", "dm_resume", "tap", "tap_up",
               "ebpf", "cgroup", "cgroup_conf", "jail", "spawn", "vmm_exit",
               "metadata", "api", "timeout", "crash",
               "tap_drop", "rm_cgroup", "dm_remove", "dm_delete", "rm_jail"}

ASSUME ProvisioningAssumption ==
    /\ NoOne \notin Sessions
    /\ IdOf \in [Sessions -> Ids]
    /\ DOMAIN TapOf = Ids
    /\ LongIds \subseteq Ids
    /\ Faults \subseteq FaultKinds
    /\ DeathSignal \in BOOLEAN
    /\ FirstDev \in Nat
    /\ MaxRestarts \in Nat
    /\ IsFiniteSet(Sessions)

\* Each launch takes one id, so between two restarts ids stay in this range.
DevIds == FirstDev .. FirstDev + Cardinality(Sessions)

VARIABLES
    \* The host; survives the orchestrator.
    pool,      \* pool[d]: the session that made thin id d in the pool, or NoOne
    dm,        \* dm[i]: the device-mapper device named i
    tap,       \* tap[n]: the session that last made the persistent TAP n
    cgroup,    \* cgroup[i]: the session that last made cgroup vm-i
    jail,      \* jail[i]: who built the jail of i and whose API socket is in it
    vmm,       \* vmm[s]: the Firecracker process of s
    opened,    \* opened[s]: what that process has open: "rootfs", "tap"
    \* The orchestrator process.
    orch,      \* "up", "exited" (main returned) or "crashed"
    restarts,
    warned,    \* warned[s]: what cleanup logged that it could not remove
    nextDev,   \* StorageManager::next_device_id
    bits,      \* IpAm::bits
    \* One launch_vm call per session.
    pc,        \* the next step of s
    st,        \* VmStateMachine::state
    ctx,       \* the resources recorded in the ProvisioningContext
    locals,    \* the RAII locals alive: "tap", "ebpf"
    dev,       \* snapshot_internal_id
    ip,        \* host_ip, as a slot of the bitset
    put,       \* index of the API request under way
    req,       \* "none", "sent", "ok", "err": that request
    peer       \* the session whose process received it

host == <<pool, dm, tap, cgroup, jail>>
vmms == <<vmm, opened>>
proc == <<orch, restarts, warned>>
mem  == <<nextDev, bits>>
recs == <<ctx, locals, dev, ip>>
api  == <<put, req, peer>>
vars == <<host, vmms, proc, mem, pc, st, recs, api>>

NoDm   == [state |-> "none", dev |-> 0, by |-> NoOne]
NoJail == [by |-> NoOne, sock |-> NoOne]

\* The requests of step 5 of provision_vm, in order.
Api == <<"machine-config", "boot-source", "rootfs", "metadata", "network", "start">>

\* The rollback: the locals' Drop, then ProvisioningContext::cleanup.
Rollback == {"drop", "kill", "rm_cgroup", "release_ip", "dm_remove", "dm_delete", "rm_jail"}
Forward  == {"create_snap", "dm_create", "dm_load", "dm_resume", "tap", "ip", "ebpf",
             "cgroup", "cgroup_conf", "jail", "spawn", "socket", "send", "await"}
Ended    == {"failed", "dropped", "lost"}

VmStates == {"Pending", "ProvisioningStorage", "ConfiguringNetwork", "InitializingCgroup",
             "LaunchingVMM", "ConfiguringVMM", "Running", "Terminating", "Destroyed"}

\* VmStateMachine::is_valid_transition.
IsValidTransition(from, to) ==
    \/ <<from, to>> \in
          {<<"Pending", "ProvisioningStorage">>,
           <<"ProvisioningStorage", "ConfiguringNetwork">>,
           <<"ConfiguringNetwork", "InitializingCgroup">>,
           <<"InitializingCgroup", "LaunchingVMM">>,
           <<"LaunchingVMM", "ConfiguringVMM">>,
           <<"ConfiguringVMM", "Running">>,
           <<"LaunchingVMM", "Running">>,
           <<"Terminating", "Destroyed">>}
    \/ from \notin {"Pending", "Terminating", "Destroyed"} /\ to = "Terminating"

Alive(v) == vmm[v] \in {"starting", "listening"}

\* A process that has been sent SIGKILL keeps its files until it is gone.
TapBusy(n) == \E v \in Sessions : TapOf[IdOf[v]] = n /\ "tap" \in opened[v]
DmBusy(i)  == \E v \in Sessions : IdOf[v] = i /\ "rootfs" \in opened[v]

Init ==
    /\ pool = [d \in DevIds |-> NoOne]
    /\ dm = [i \in Ids |-> NoDm]
    /\ tap = [n \in TapNames |-> NoOne]
    /\ cgroup = [i \in Ids |-> NoOne]
    /\ jail = [i \in Ids |-> NoJail]
    /\ vmm = [s \in Sessions |-> "none"]
    /\ opened = [s \in Sessions |-> {}]
    /\ orch = "up"
    /\ restarts = 0
    /\ warned = [s \in Sessions |-> {}]
    /\ nextDev = FirstDev
    /\ bits = {}
    /\ pc = [s \in Sessions |-> "idle"]
    /\ st = [s \in Sessions |-> "Pending"]
    /\ ctx = [s \in Sessions |-> {}]
    /\ locals = [s \in Sessions |-> {}]
    /\ dev = [s \in Sessions |-> FirstDev]
    /\ ip = [s \in Sessions |-> 0]
    /\ put = [s \in Sessions |-> 1]
    /\ req = [s \in Sessions |-> "none"]
    /\ peer = [s \in Sessions |-> NoOne]

-----------------------------------------------------------------------------
(* Control flow.                                                           *)

At(s, p)   == orch = "up" /\ pc[s] = p
Goto(s, p) == pc' = [pc EXCEPT ![s] = p]

\* sm.transition_to(to)?, then p; a refused transition is an error.
Enter(s, to, p) ==
    IF IsValidTransition(st[s], to)
    THEN st' = [st EXCEPT ![s] = to] /\ Goto(s, p)
    ELSE Goto(s, "drop") /\ UNCHANGED st

\* The `?` of a failed step: provision_vm returns Err.
Fail(s) == Goto(s, "drop") /\ UNCHANGED st

Record(s, what) == ctx' = [ctx EXCEPT ![s] = @ \cup {what}]

-----------------------------------------------------------------------------
(* Storage: StorageManager::create_snapshot.                               *)

\* Mutant of Launch: the snapshot is recorded before it is made.
LaunchRecordingEarly(s) ==
    /\ At(s, "idle")
    /\ Enter(s, "ProvisioningStorage", "create_snap")
    /\ dev' = [dev EXCEPT ![s] = nextDev]
    /\ nextDev' = nextDev + 1
    /\ Record(s, "snapshot")
    /\ UNCHANGED <<host, vmms, proc, bits, locals, ip, api>>

\* launch_vm up to the first blocking call: the id is taken with fetch_add.
Launch(s) ==
    /\ At(s, "idle")
    /\ Enter(s, "ProvisioningStorage", "create_snap")
    /\ dev' = [dev EXCEPT ![s] = nextDev]
    /\ nextDev' = nextDev + 1
    /\ UNCHANGED <<host, vmms, proc, bits, ctx, locals, ip, api>>

\* Mutant of CreateSnap: the exit status of dmsetup is not looked at.
CreateSnapIgnoringStatus(s) ==
    /\ At(s, "create_snap")
    /\ \/ /\ pool[dev[s]] = NoOne
          /\ pool' = [pool EXCEPT ![dev[s]] = s]
       \/ UNCHANGED pool
    /\ Goto(s, "dm_create")
    /\ UNCHANGED <<dm, tap, cgroup, jail, vmms, proc, mem, st, recs, api>>

\* dmsetup message create_snap: refused when the pool already has the id.
CreateSnap(s) ==
    /\ At(s, "create_snap")
    /\ \/ /\ pool[dev[s]] = NoOne
          /\ pool' = [pool EXCEPT ![dev[s]] = s]
          /\ Goto(s, "dm_create")
          /\ UNCHANGED st
       \/ /\ pool[dev[s]] # NoOne \/ "create_snap" \in Faults
          /\ Fail(s)
          /\ UNCHANGED pool
    /\ UNCHANGED <<dm, tap, cgroup, jail, vmms, proc, mem, recs, api>>

\* Mutant of DmCreate: a name that exists is taken to be the launch's own.
DmCreateTakingOver(s) ==
    /\ At(s, "dm_create")
    /\ \/ /\ dm[IdOf[s]] = NoDm
          /\ dm' = [dm EXCEPT ![IdOf[s]] = [state |-> "created", dev |-> 0, by |-> s]]
       \/ dm[IdOf[s]] # NoDm /\ UNCHANGED dm
    /\ Goto(s, "dm_load")
    /\ UNCHANGED <<pool, tap, cgroup, jail, vmms, proc, mem, st, recs, api>>

\* dmsetup create --notable: refused when the name exists.
DmCreate(s) ==
    /\ At(s, "dm_create")
    /\ LET i == IdOf[s] IN
       \/ /\ dm[i] = NoDm
          /\ dm' = [dm EXCEPT ![i] = [state |-> "created", dev |-> 0, by |-> s]]
          /\ Goto(s, "dm_load")
          /\ UNCHANGED st
       \/ /\ dm[i] # NoDm \/ "dm_create" \in Faults
          /\ Fail(s)
          /\ UNCHANGED dm
    /\ UNCHANGED <<pool, tap, cgroup, jail, vmms, proc, mem, recs, api>>

\* dmsetup load.
DmLoad(s) ==
    /\ At(s, "dm_load")
    /\ \/ /\ dm' = [dm EXCEPT ![IdOf[s]].state = "loaded", ![IdOf[s]].dev = dev[s]]
          /\ Goto(s, "dm_resume")
          /\ UNCHANGED st
       \/ /\ "dm_load" \in Faults
          /\ Fail(s)
          /\ UNCHANGED dm
    /\ UNCHANGED <<pool, tap, cgroup, jail, vmms, proc, mem, recs, api>>

\* Mutant of DmResume: the snapshot is not recorded.
DmResumeUnrecorded(s) ==
    /\ At(s, "dm_resume")
    /\ \/ /\ dm' = [dm EXCEPT ![IdOf[s]].state = "active"]
          /\ Enter(s, "ConfiguringNetwork", "tap")
       \/ /\ "dm_resume" \in Faults
          /\ Fail(s)
          /\ UNCHANGED dm
    /\ UNCHANGED <<pool, tap, cgroup, jail, vmms, proc, mem, recs, api>>

\* dmsetup resume; only now does provision_vm record the snapshot.
DmResume(s) ==
    /\ At(s, "dm_resume")
    /\ \/ /\ dm' = [dm EXCEPT ![IdOf[s]].state = "active"]
          /\ Record(s, "snapshot")
          /\ Enter(s, "ConfiguringNetwork", "tap")
       \/ /\ "dm_resume" \in Faults
          /\ Fail(s)
          /\ UNCHANGED <<dm, ctx>>
    /\ UNCHANGED <<pool, tap, cgroup, jail, vmms, proc, mem, locals, dev, ip, api>>

-----------------------------------------------------------------------------
(* Network: TapDevice::create, IpAm::allocate, load_nat_program.           *)

\* TUNSETIFF attaches to a TAP of that name if there is one, unless a
\* process has it open; TUNSETPERSIST makes it outlive the descriptor.  An
\* error of set_interface_up comes after that and leaves the TAP behind.
TapCreate(s) ==
    /\ At(s, "tap")
    /\ LET n == TapOf[IdOf[s]] IN
       \/ /\ ~TapBusy(n)
          /\ tap' = [tap EXCEPT ![n] = s]
          /\ locals' = [locals EXCEPT ![s] = @ \cup {"tap"}]
          /\ Goto(s, "ip")
          /\ UNCHANGED st
       \/ /\ ~TapBusy(n) /\ "tap_up" \in Faults
          /\ tap' = [tap EXCEPT ![n] = s]
          /\ Fail(s)
          /\ UNCHANGED locals
       \/ /\ TapBusy(n) \/ "tap" \in Faults
          /\ Fail(s)
          /\ UNCHANGED <<tap, locals>>
    /\ UNCHANGED <<pool, dm, cgroup, jail, vmms, proc, mem, ctx, dev, ip, api>>

\* One step, as IpAmProofs!Refinement justifies.
AllocateIp(s) ==
    /\ At(s, "ip")
    /\ \/ \E i \in Slots :
             /\ LowestClear(bits, i)
             /\ bits' = bits \cup {i}
             /\ ip' = [ip EXCEPT ![s] = i]
             /\ Record(s, "ip")
             /\ Goto(s, "ebpf")
             /\ UNCHANGED st
       \/ /\ NoneClear(bits)
          /\ Fail(s)
          /\ UNCHANGED <<bits, ip, ctx>>
    /\ UNCHANGED <<host, vmms, proc, nextDev, locals, dev, api>>

\* The programs are attached by the full name, which the kernel does not
\* know when it was cut.  On error the loaded object is dropped at once.
LoadEbpf(s) ==
    /\ At(s, "ebpf")
    /\ LET usable == IdOf[s] \notin LongIds /\ tap[TapOf[IdOf[s]]] # NoOne IN
       \/ /\ usable
          /\ locals' = [locals EXCEPT ![s] = @ \cup {"ebpf"}]
          /\ Enter(s, "InitializingCgroup", "cgroup")
       \/ /\ ~usable \/ "ebpf" \in Faults
          /\ Fail(s)
          /\ UNCHANGED locals
    /\ UNCHANGED <<host, vmms, proc, mem, ctx, dev, ip, api>>

-----------------------------------------------------------------------------
(* Cgroup, jail and process.                                               *)

\* create_vm_cgroup: an existing directory is taken over.
CreateCgroup(s) ==
    /\ At(s, "cgroup")
    /\ \/ /\ cgroup' = [cgroup EXCEPT ![IdOf[s]] = s]
          /\ Record(s, "cgroup")
          /\ Goto(s, "cgroup_conf")
          /\ UNCHANGED st
       \/ /\ "cgroup" \in Faults
          /\ Fail(s)
          /\ UNCHANGED <<cgroup, ctx>>
    /\ UNCHANGED <<pool, dm, tap, jail, vmms, proc, mem, locals, dev, ip, api>>

\* allocate_cpus, get_mems_string, set_cpuset and set_memory_limit; then
\* jail_dir is recorded before the file system is touched.
ConfigureCgroup(s) ==
    /\ At(s, "cgroup_conf")
    /\ \/ /\ cgroup[IdOf[s]] # NoOne
          /\ Record(s, "jail")
          /\ Enter(s, "LaunchingVMM", "jail")
       \/ /\ cgroup[IdOf[s]] = NoOne \/ "cgroup_conf" \in Faults
          /\ Fail(s)
          /\ UNCHANGED ctx
    /\ UNCHANGED <<host, vmms, proc, mem, locals, dev, ip, api>>

\* Mutant of SetupJail: a stale jail is built over.
SetupJailKeepingStale(s) ==
    /\ At(s, "jail")
    /\ jail' = [jail EXCEPT ![IdOf[s]].by = s]
    /\ \/ Goto(s, "spawn") /\ UNCHANGED st
       \/ "jail" \in Faults /\ Fail(s)
    /\ UNCHANGED <<pool, dm, tap, cgroup, vmms, proc, mem, recs, api>>

\* setup_jail: a stale jail is removed first, with the socket in it.  A
\* failure leaves a partly built jail.
SetupJail(s) ==
    /\ At(s, "jail")
    /\ jail' = [jail EXCEPT ![IdOf[s]] = [by |-> s, sock |-> NoOne]]
    /\ \/ Goto(s, "spawn") /\ UNCHANGED st
       \/ "jail" \in Faults /\ Fail(s)
    /\ UNCHANGED <<pool, dm, tap, cgroup, vmms, proc, mem, recs, api>>

\* Mutant of Spawn: the child is not recorded.
SpawnUnrecorded(s) ==
    /\ At(s, "spawn")
    /\ \/ /\ vmm' = [vmm EXCEPT ![s] = "starting"]
          /\ Enter(s, "ConfiguringVMM", "socket")
       \/ /\ "spawn" \in Faults
          /\ Fail(s)
          /\ UNCHANGED vmm
    /\ UNCHANGED <<host, opened, proc, mem, recs, api>>

\* The jailer is spawned with PR_SET_PDEATHSIG and execs Firecracker.
Spawn(s) ==
    /\ At(s, "spawn")
    /\ \/ /\ vmm' = [vmm EXCEPT ![s] = "starting"]
          /\ Record(s, "process")
          /\ Enter(s, "ConfiguringVMM", "socket")
       \/ /\ "spawn" \in Faults
          /\ Fail(s)
          /\ UNCHANGED <<vmm, ctx>>
    /\ UNCHANGED <<host, opened, proc, mem, locals, dev, ip, api>>

-----------------------------------------------------------------------------
(* FirecrackerClient: one connection and one request at a time.            *)

\* Mutant of WaitForSocket: the loop has no deadline.
WaitForSocketWithoutTimeout(s) ==
    /\ At(s, "socket")
    /\ jail[IdOf[s]].sock # NoOne
    /\ Goto(s, "send")
    /\ UNCHANGED <<host, vmms, proc, mem, st, recs, api>>

\* wait_for_socket: polls for the path.  The five seconds pass when the
\* process is slow, is gone, or is not in the jail that is polled.
WaitForSocket(s) ==
    /\ At(s, "socket")
    /\ LET j == jail[IdOf[s]] IN
       \/ j.sock # NoOne /\ Goto(s, "send") /\ UNCHANGED st
       \/ /\ j.sock = NoOne
          /\ "timeout" \in Faults \/ vmm[s] # "starting" \/ j.by # s
          /\ Fail(s)
    /\ UNCHANGED <<host, vmms, proc, mem, recs, api>>

\* put, up to the written request; the metadata drive is made before its own
\* request.
SendPut(s) ==
    /\ At(s, "send")
    /\ LET l == jail[IdOf[s]].sock
           reachable == l # NoOne /\ vmm[l] = "listening" IN
       \/ /\ reachable
          /\ req' = [req EXCEPT ![s] = "sent"]
          /\ peer' = [peer EXCEPT ![s] = l]
          /\ Goto(s, "await")
          /\ UNCHANGED st
       \/ /\ ~reachable \/ (Api[put[s]] = "metadata" /\ "metadata" \in Faults)
          /\ Fail(s)
          /\ UNCHANGED <<req, peer>>
    /\ UNCHANGED <<host, vmms, proc, mem, recs, put>>

\* Mutant of AwaitPut: one request more than there are.
AwaitPutPastEnd(s) ==
    /\ At(s, "await")
    /\ req[s] = "ok"
    /\ req' = [req EXCEPT ![s] = "none"]
    /\ put' = [put EXCEPT ![s] = @ + 1]
    /\ Goto(s, "send")
    /\ UNCHANGED <<host, vmms, proc, mem, st, recs, peer>>

\* The answer: a 2xx leads to the next request or, after InstanceStart, to
\* Running, when the context is given up for the Vm.
AwaitPut(s) ==
    /\ At(s, "await")
    /\ \/ /\ req[s] = "ok"
          /\ req' = [req EXCEPT ![s] = "none"]
          /\ IF put[s] < Len(Api)
             THEN put' = [put EXCEPT ![s] = @ + 1] /\ Goto(s, "send") /\ UNCHANGED <<st, ctx>>
             ELSE Enter(s, "Running", "running") /\ ctx' = [ctx EXCEPT ![s] = {}] /\ UNCHANGED put
       \/ req[s] = "err" /\ Fail(s) /\ UNCHANGED <<req, put, ctx>>
    /\ UNCHANGED <<host, vmms, proc, mem, locals, dev, ip, peer>>

\* REQUEST_TIMEOUT, or the connection closed by a dead process.  The request
\* stays where it is: the process may still serve it.
PutTimeout(s) ==
    /\ At(s, "await")
    /\ req[s] = "sent"
    /\ "timeout" \in Faults \/ vmm[peer[s]] # "listening"
    /\ Fail(s)
    /\ UNCHANGED <<host, vmms, proc, mem, recs, api>>

-----------------------------------------------------------------------------
(* The Firecracker process (external: modelled from how the client uses it)*)

VmmListen(v) ==
    /\ vmm[v] = "starting"
    /\ vmm' = [vmm EXCEPT ![v] = "listening"]
    /\ jail' = IF jail[IdOf[v]].by = v
               THEN [jail EXCEPT ![IdOf[v]].sock = v] ELSE jail
    /\ UNCHANGED <<pool, dm, tap, cgroup, opened, proc, mem, pc, st, recs, api>>

\* A drive or a TAP is opened when it is configured.
VmmServe(s) ==
    /\ req[s] = "sent"
    /\ LET v == peer[s]
           r == Api[put[s]]
           file == CASE r = "rootfs" -> {"rootfs"} [] r = "network" -> {"tap"} [] OTHER -> {}
           usable == /\ r = "rootfs" => dm[IdOf[v]].state = "active"
                     /\ r = "network" => /\ tap[TapOf[IdOf[v]]] # NoOne
                                         /\ ~TapBusy(TapOf[IdOf[v]]) IN
       /\ vmm[v] = "listening"
       /\ \/ /\ usable
             /\ opened' = [opened EXCEPT ![v] = @ \cup file]
             /\ req' = [req EXCEPT ![s] = "ok"]
          \/ /\ ~usable \/ "api" \in Faults
             /\ req' = [req EXCEPT ![s] = "err"]
             /\ UNCHANGED opened
    /\ UNCHANGED <<host, vmm, proc, mem, pc, st, recs, put, peer>>

\* The process ends: by itself, or once a SIGKILL has taken effect.
VmmExit(v) ==
    /\ vmm[v] = "killed" \/ (Alive(v) /\ "vmm_exit" \in Faults)
    /\ vmm' = [vmm EXCEPT ![v] = "dead"]
    /\ opened' = [opened EXCEPT ![v] = {}]
    /\ UNCHANGED <<host, proc, mem, pc, st, recs, api>>

-----------------------------------------------------------------------------
(* Rollback: provision_vm has returned Err.                                *)

\* TapDevice::drop: TUNSETIFF fails with EBUSY while a process has the TAP
\* open, and then nothing is un-persisted; no error of drop is reported.
DropTap(s) ==
    \/ tap' = IF "tap" \in locals[s] /\ ~TapBusy(TapOf[IdOf[s]])
              THEN [tap EXCEPT ![TapOf[IdOf[s]]] = NoOne]
              ELSE tap
    \/ "tap_drop" \in Faults /\ UNCHANGED tap

\* The locals ebpf and tap go out of scope before launch_vm sees the error.
DropLocals(s) ==
    /\ At(s, "drop")
    /\ DropTap(s)
    /\ locals' = [locals EXCEPT ![s] = {}]
    /\ Goto(s, "kill")
    /\ UNCHANGED <<pool, dm, cgroup, jail, vmms, proc, mem, st, ctx, dev, ip, api>>

\* Each step of cleanup takes its field of the context.
Take(s, what) == ctx' = [ctx EXCEPT ![s] = @ \ {what}]

\* An error of a step of cleanup is logged, and cleanup goes on.
Warn(s, what) == warned' = [warned EXCEPT ![s] = @ \cup {what}]

\* child.kill(): the signal is sent, the process is not waited for.
KillVmm(s) ==
    /\ At(s, "kill")
    /\ vmm' = [vmm EXCEPT ![s] = IF "process" \in ctx[s] /\ Alive(s) THEN "killed" ELSE @]
    /\ Take(s, "process")
    /\ Goto(s, "rm_cgroup")
    /\ UNCHANGED <<host, opened, proc, mem, st, locals, dev, ip, api>>

\* VmCgroup::delete.  No process is ever put in this cgroup.
DeleteCgroup(s) ==
    /\ At(s, "rm_cgroup")
    /\ \/ /\ cgroup' = [cgroup EXCEPT ![IdOf[s]] = IF "cgroup" \in ctx[s] THEN NoOne ELSE @]
          /\ UNCHANGED warned
       \/ /\ "cgroup" \in ctx[s] /\ "rm_cgroup" \in Faults
          /\ Warn(s, "cgroup")
          /\ UNCHANGED cgroup
    /\ Take(s, "cgroup")
    /\ Goto(s, "release_ip")
    /\ UNCHANGED <<pool, dm, tap, jail, vmms, orch, restarts, mem, st, locals, dev, ip, api>>

\* Mutant of ReleaseIp: the slot is computed one too high.
ReleaseIpOffByOne(s) ==
    /\ At(s, "release_ip")
    /\ bits' = IF "ip" \in ctx[s] THEN Cleared(bits, IpOf(ip[s]) + 1) ELSE bits
    /\ Take(s, "ip")
    /\ Goto(s, "dm_remove")
    /\ UNCHANGED <<host, vmms, proc, nextDev, st, locals, dev, ip, api>>

ReleaseIp(s) ==
    /\ At(s, "release_ip")
    /\ bits' = IF "ip" \in ctx[s] THEN Cleared(bits, IpOf(ip[s])) ELSE bits
    /\ Take(s, "ip")
    /\ Goto(s, "dm_remove")
    /\ UNCHANGED <<host, vmms, proc, nextDev, st, locals, dev, ip, api>>

\* delete_snapshot, first half: dmsetup remove fails on an open device, and
\* the pool's entry is then left too.
RemoveDm(s) ==
    /\ At(s, "dm_remove")
    /\ \/ /\ "snapshot" \notin ctx[s]
          /\ Goto(s, "rm_jail")
          /\ UNCHANGED <<dm, warned>>
       \/ /\ "snapshot" \in ctx[s] /\ ~DmBusy(IdOf[s])
          /\ dm' = [dm EXCEPT ![IdOf[s]] = NoDm]
          /\ Goto(s, "dm_delete")
          /\ UNCHANGED warned
       \/ /\ "snapshot" \in ctx[s] /\ (DmBusy(IdOf[s]) \/ "dm_remove" \in Faults)
          /\ Warn(s, "snapshot")
          /\ Goto(s, "rm_jail")
          /\ UNCHANGED dm
    /\ Take(s, "snapshot")
    /\ UNCHANGED <<pool, tap, cgroup, jail, vmms, orch, restarts, mem, st, locals, dev, ip, api>>

\* delete_snapshot, second half: dmsetup message delete.
DeleteThinId(s) ==
    /\ At(s, "dm_delete")
    /\ \/ pool' = [pool EXCEPT ![dev[s]] = NoOne] /\ UNCHANGED warned
       \/ "dm_delete" \in Faults /\ Warn(s, "snapshot") /\ UNCHANGED pool
    /\ Goto(s, "rm_jail")
    /\ UNCHANGED <<dm, tap, cgroup, jail, vmms, orch, restarts, mem, st, recs, api>>

\* Mutant of RemoveJail: its error is swallowed.
RemoveJailSilently(s) ==
    /\ At(s, "rm_jail")
    /\ \/ jail' = [jail EXCEPT ![IdOf[s]] = IF "jail" \in ctx[s] THEN NoJail ELSE @]
       \/ "rm_jail" \in Faults /\ UNCHANGED jail
    /\ Take(s, "jail")
    /\ Goto(s, "failed")
    /\ UNCHANGED <<pool, dm, tap, cgroup, vmms, proc, mem, st, locals, dev, ip, api>>

\* remove_dir_all fails when the jail is not there any more; when it fails on
\* the way, the socket may be gone already.
RemoveJail(s) ==
    /\ At(s, "rm_jail")
    /\ LET i == IdOf[s] IN
       \/ /\ "jail" \notin ctx[s]
          /\ UNCHANGED <<jail, warned>>
       \/ /\ "jail" \in ctx[s] /\ jail[i] # NoJail
          /\ jail' = [jail EXCEPT ![i] = NoJail]
          /\ UNCHANGED warned
       \/ /\ "jail" \in ctx[s] /\ (jail[i] = NoJail \/ "rm_jail" \in Faults)
          /\ \E k \in {jail[i].sock, NoOne} :
                jail' = [jail EXCEPT ![i] = [by |-> jail[i].by, sock |-> k]]
          /\ Warn(s, "jail")
    /\ Take(s, "jail")
    /\ Goto(s, "failed")
    /\ UNCHANGED <<pool, dm, tap, cgroup, vmms, orch, restarts, mem, st, locals, dev, ip, api>>

-----------------------------------------------------------------------------
(* The end of a Vm and of the orchestrator.                                *)

\* After Ctrl-C main leaves the match arm and the Vm is dropped: its TAP and
\* its eBPF object have a Drop, the other fields have none.
DropVm(s) ==
    /\ At(s, "running")
    /\ DropTap(s)
    /\ locals' = [locals EXCEPT ![s] = {}]
    /\ Goto(s, "dropped")
    /\ UNCHANGED <<pool, dm, cgroup, jail, vmms, proc, mem, st, ctx, dev, ip, api>>

\* PR_SET_PDEATHSIG: the children are killed with the orchestrator, if they
\* still have it.  Linux clears it when a process changes its credentials, as
\* the jailer does (--uid, --gid) before Firecracker listens.
KillAll ==
    \E early \in SUBSET {v \in Sessions : vmm[v] = "starting"} :
        vmm' = [v \in Sessions |-> IF v \in early \/ (DeathSignal /\ Alive(v))
                                  THEN "killed" ELSE vmm[v]]

\* main returns.
Exit ==
    /\ orch = "up"
    /\ \A s \in Sessions : pc[s] \in {"idle", "failed", "dropped", "lost"}
    /\ \E s \in Sessions : pc[s] \in {"failed", "dropped"}
    /\ orch' = "exited"
    /\ KillAll
    /\ UNCHANGED <<host, opened, restarts, warned, mem, pc, st, recs, api>>

\* The orchestrator dies anywhere, and nothing of it runs afterwards.
Crash ==
    /\ orch = "up"
    /\ "crash" \in Faults
    /\ orch' = "crashed"
    /\ pc' = [s \in Sessions |-> IF pc[s] \in {"idle"} \cup Ended THEN pc[s] ELSE "lost"]
    /\ locals' = [s \in Sessions |-> {}]
    /\ ctx' = [s \in Sessions |-> {}]
    /\ KillAll
    /\ UNCHANGED <<host, opened, restarts, warned, mem, st, dev, ip, api>>

\* Orchestrator::new: counters and bitset start over; the host is not looked at.
Restart ==
    /\ orch # "up"
    /\ restarts < MaxRestarts
    /\ orch' = "up"
    /\ restarts' = restarts + 1
    /\ nextDev' = FirstDev
    /\ bits' = {}
    /\ UNCHANGED <<host, vmms, warned, pc, st, recs, api>>

-----------------------------------------------------------------------------

Provision(s) ==
    \/ CreateSnap(s) \/ DmCreate(s) \/ DmLoad(s) \/ DmResume(s)
    \/ TapCreate(s) \/ AllocateIp(s) \/ LoadEbpf(s)
    \/ CreateCgroup(s) \/ ConfigureCgroup(s) \/ SetupJail(s) \/ Spawn(s)
    \/ WaitForSocket(s) \/ SendPut(s) \/ AwaitPut(s) \/ PutTimeout(s)

CleanUp(s) ==
    \/ DropLocals(s) \/ KillVmm(s) \/ DeleteCgroup(s) \/ ReleaseIp(s)
    \/ RemoveDm(s) \/ DeleteThinId(s) \/ RemoveJail(s)

Vmm(v) == VmmListen(v) \/ VmmServe(v) \/ VmmExit(v)

Next ==
    \/ \E s \in Sessions : Launch(s) \/ Provision(s) \/ CleanUp(s) \/ DropVm(s) \/ Vmm(s)
    \/ Exit \/ Crash \/ Restart

Spec == Init /\ [][Next]_vars

\* A launch under way is polled by the runtime; its waits for the process have
\* a timeout, and the commands it waits for without one (dmsetup, mke2fs) are
\* taken to end; a live process is scheduled; a SIGKILL is delivered.  Nothing
\* obliges anyone to launch, stop, crash or restart.
Fairness ==
    \A s \in Sessions :
        /\ WF_vars(Provision(s) \/ CleanUp(s))
        /\ WF_vars(VmmListen(s))
        /\ WF_vars(VmmServe(s))
        /\ WF_vars(vmm[s] = "killed" /\ VmmExit(s))

FairSpec == Spec /\ Fairness
-----------------------------------------------------------------------------

DmDevs == [state : {"none", "created", "loaded", "active"},
           dev : DevIds \cup {0}, by : Sessions \cup {NoOne}]

TypeOK ==
    /\ pool \in [DevIds -> Sessions \cup {NoOne}]
    /\ dm \in [Ids -> DmDevs]
    /\ tap \in [TapNames -> Sessions \cup {NoOne}]
    /\ cgroup \in [Ids -> Sessions \cup {NoOne}]
    /\ jail \in [Ids -> [by : Sessions \cup {NoOne}, sock : Sessions \cup {NoOne}]]
    /\ vmm \in [Sessions -> {"none", "starting", "listening", "killed", "dead"}]
    /\ opened \in [Sessions -> SUBSET {"rootfs", "tap"}]
    /\ orch \in {"up", "exited", "crashed"}
    /\ restarts \in 0 .. MaxRestarts
    /\ warned \in [Sessions -> SUBSET {"cgroup", "snapshot", "jail"}]
    /\ nextDev \in DevIds
    /\ bits \subseteq Slots
    /\ pc \in [Sessions -> {"idle", "running"} \cup Forward \cup Rollback \cup Ended]
    /\ st \in [Sessions -> VmStates]
    /\ ctx \in [Sessions -> SUBSET {"snapshot", "ip", "cgroup", "jail", "process"}]
    /\ locals \in [Sessions -> SUBSET {"tap", "ebpf"}]
    /\ dev \in [Sessions -> DevIds]
    /\ ip \in [Sessions -> Slots]
    /\ put \in [Sessions -> 1 .. Len(Api)]
    /\ req \in [Sessions -> {"none", "sent", "ok", "err"}]
    /\ peer \in [Sessions -> Sessions \cup {NoOne}]

\* What the host holds for a session.
Snapshot(s) == {<<"thin", d>> : d \in {e \in DevIds : pool[e] = s}}
                 \cup {<<"dm", i>> : i \in {j \in Ids : dm[j].by = s}}
Taps(s)     == {n \in TapNames : tap[n] = s}
Cgroups(s)  == {i \in Ids : cgroup[i] = s}
Jails(s)    == {i \in Ids : jail[i].by = s}

\* The slot of s is its own: s has it from allocate until release.
HasIp(s) == orch = "up" /\ (pc[s] = "running" \/ "ip" \in ctx[s])

\* A VM that launch_vm returned Ok for has what it runs on: its snapshot is
\* active on the thin id it was given, its TAP is up and filtered, its cgroup is
\* there, its address is marked taken, and a live Firecracker has its own rootfs
\* and TAP open.
RunningOwnsItsResources ==
    \A s \in Sessions : (orch = "up" /\ pc[s] = "running") =>
        /\ st[s] = "Running"
        /\ dm[IdOf[s]] = [state |-> "active", dev |-> dev[s], by |-> s]
        /\ pool[dev[s]] = s
        /\ tap[TapOf[IdOf[s]]] = s
        /\ locals[s] = {"tap", "ebpf"}
        /\ cgroup[IdOf[s]] = s
        /\ ip[s] \in bits
        /\ vmm[s] = "listening" => opened[s] = {"rootfs", "tap"}

\* Two launches never hold one address slot at the same time, and a slot
\* marked taken is one some launch holds or a dropped Vm held: rollback
\* neither loses a slot nor frees one a concurrent launch was given.
SlotsMatchLaunches ==
    /\ \A s, t \in Sessions : (s # t /\ HasIp(s) /\ HasIp(t)) => ip[s] # ip[t]
    /\ orch = "up" =>
         \A i \in bits : \E s \in Sessions :
             ip[s] = i /\ (HasIp(s) \/ pc[s] = "dropped")
    /\ \A s \in Sessions : HasIp(s) => ip[s] \in bits

\* Two device-mapper devices are never backed by one thin id, even though
\* the id counter starts over at a restart while the pool keeps the old ids.
NoDoubleMapping ==
    \A i, j \in Ids :
        (i # j /\ dm[i].dev # 0 /\ dm[j].dev # 0) => dm[i].dev # dm[j].dev

\* A launch that wait_for_socket let through is looking at the socket of the
\* process it spawned, not at one a previous run left in the jail.
SocketIsOwn ==
    \A s \in Sessions : (orch = "up" /\ pc[s] \in {"send", "await"}) =>
        jail[IdOf[s]].sock \in {s, NoOne}

\* What a launch that failed once its snapshot was recorded could not remove,
\* cleanup has warned of: a cgroup, a jail, a thin id or a device left on the
\* host is one whose removal failed, the device that the killed process still
\* had open included.  The Drop of the TAP reports nothing: the TAP is gone if
\* its own system calls did not fail and the process was not told of it.
LeftoversAreReported ==
    \A s \in Sessions : (pc[s] = "failed" /\ st[s] # "ProvisioningStorage") =>
        /\ Cgroups(s) # {} => "cgroup" \in warned[s]
        /\ Jails(s) # {} => "jail" \in warned[s]
        /\ Snapshot(s) # {} => "snapshot" \in warned[s]
        /\ ("tap_up" \notin Faults /\ "tap_drop" \notin Faults /\ put[s] < 5) => Taps(s) = {}

\* The steps of one launch never take away a thin id, device, TAP or cgroup
\* of another launch that is under way or running: the device-mapper name
\* acts as a lock on the VM id.
OthersKeepTheirs ==
    [][\A t \in Sessions :
          (pc[t] \in Forward \cup {"running"} /\ pc'[t] = pc[t] /\ UNCHANGED <<dev[t], orch>>) =>
              /\ Snapshot(t) \subseteq Snapshot(t)'
              /\ Taps(t) \subseteq Taps(t)'
              /\ Cgroups(t) \subseteq Cgroups(t)']_vars

\* Every launch ends: Ok, or Err after its rollback and with the process that
\* the rollback killed gone, or with the orchestrator.
LaunchEnds ==
    \A s \in Sessions :
        pc[s] \in Forward \cup Rollback ~>
            \/ pc[s] \in {"running", "dropped", "lost"}
            \/ pc[s] = "failed" /\ vmm[s] \in {"none", "dead"}

\* No orphan Firecracker: once a launch has failed or the orchestrator is gone,
\* the process it started goes away (vmm/mod.rs:212 and ADR-012).
NoOrphanVmm ==
    \A s \in Sessions :
        (pc[s] \in {"failed", "lost"} \/ orch # "up") ~> vmm[s] \in {"none", "dead"}
=============================================================================

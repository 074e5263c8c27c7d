-------------------------- MODULE ProvisioningProofs --------------------------
(***************************************************************************)
(* Proofs about Provisioning, for any number of launches of any ids, any   *)
(* faults and any number of crashes and restarts.                          *)
(*                                                                         *)
(* The argument: the device-mapper name of a VM id is a lock.  dmsetup     *)
(* refuses to create a name that exists, so a launch that is past          *)
(* dm_create, and until its rollback has removed the device, is the only   *)
(* one of its id (OneHolder); its thin id, TAP, cgroup and jail are then   *)
(* its own although nothing else is checked when they are made.            *)
(***************************************************************************)
EXTENDS Provisioning, IpBitsProofs, FiniteSetTheorems

-----------------------------------------------------------------------------
(* The type invariant in parts.                                            *)

DiskTypes ==
    /\ pool \in [DevIds -> Sessions \cup {NoOne}]
    /\ dm \in [Ids -> DmDevs]

LinkTypes ==
    /\ tap \in [TapNames -> Sessions \cup {NoOne}]
    /\ cgroup \in [Ids -> Sessions \cup {NoOne}]
    /\ jail \in [Ids -> [by : Sessions \cup {NoOne}, sock : Sessions \cup {NoOne}]]

VmmTypes ==
    /\ vmm \in [Sessions -> {"none", "starting", "listening", "killed", "dead"}]
    /\ opened \in [Sessions -> SUBSET {"rootfs", "tap"}]

ProcTypes ==
    /\ orch \in {"up", "exited", "crashed"}
    /\ restarts \in 0 .. MaxRestarts
    /\ warned \in [Sessions -> SUBSET {"cgroup", "snapshot", "jail"}]
    /\ nextDev \in DevIds
    /\ bits \subseteq Slots

ControlTypes ==
    /\ pc \in [Sessions -> {"idle", "running"} \cup Forward \cup Rollback \cup Ended]
    /\ st \in [Sessions -> VmStates]

RecordTypes ==
    /\ ctx \in [Sessions -> SUBSET {"snapshot", "ip", "cgroup", "jail", "process"}]
    /\ locals \in [Sessions -> SUBSET {"tap", "ebpf"}]
    /\ dev \in [Sessions -> DevIds]
    /\ ip \in [Sessions -> Slots]

ApiTypes ==
    /\ put \in [Sessions -> 1 .. Len(Api)]
    /\ req \in [Sessions -> {"none", "sent", "ok", "err"}]
    /\ peer \in [Sessions -> Sessions \cup {NoOne}]

\* The id counter is behind the launches of this run of the orchestrator.
Launched == {s \in Sessions : pc[s] # "idle"}
CounterInv == nextDev <= FirstDev + Cardinality(Launched)

-----------------------------------------------------------------------------
(* What a launch knows.                                                    *)

\* The control states from p on, up to the answer of the last request.
FromTap    == {"tap", "ip", "ebpf", "cgroup", "cgroup_conf", "jail", "spawn",
               "socket", "send", "await"}
FromIp     == FromTap \ {"tap"}
FromEbpf   == FromIp \ {"ip"}
FromCgroup == FromEbpf \ {"ebpf"}
FromConf   == FromCgroup \ {"cgroup"}
FromJail   == FromConf \ {"cgroup_conf"}
FromSpawn  == FromJail \ {"jail"}
FromSocket == FromSpawn \ {"spawn"}

\* What the context and the locals have, by the step a launch is at: a forward
\* step has what came before it, a step of the rollback what is still to undo.
Recorded(s) ==
    /\ pc[s] \in FromTap => "snapshot" \in ctx[s]
    /\ pc[s] \in FromEbpf => "ip" \in ctx[s]
    /\ pc[s] \in FromConf => "cgroup" \in ctx[s]
    /\ pc[s] \in FromJail => "jail" \in ctx[s]
    /\ pc[s] \in FromSocket => "process" \in ctx[s]
    /\ "snapshot" \in ctx[s] =>
          pc[s] \in FromTap \cup {"drop", "kill", "rm_cgroup", "release_ip", "dm_remove"}
    /\ "ip" \in ctx[s] => pc[s] \in FromEbpf \cup {"drop", "kill", "rm_cgroup", "release_ip"}
    /\ "cgroup" \in ctx[s] =>
          pc[s] \in FromConf \cup {"drop", "kill", "rm_cgroup"} /\ "snapshot" \in ctx[s]
    /\ "jail" \in ctx[s] => pc[s] \in FromJail \cup Rollback
    /\ "process" \in ctx[s] => pc[s] \in FromSocket \cup {"drop", "kill"}
    /\ pc[s] \in FromIp \cup {"running"} => "tap" \in locals[s]
    /\ pc[s] \in FromCgroup \cup {"running"} => "ebpf" \in locals[s]
    /\ "tap" \in locals[s] => pc[s] = "running" \/ "snapshot" \in ctx[s]
    /\ "tap" \in locals[s] => pc[s] \in FromIp \cup {"running", "drop"}

\* The state machine is where the step says, so that no transition is refused.
InStep(s) ==
    /\ orch # "up" => pc[s] \in {"idle"} \cup Ended
    /\ pc[s] = "idle" => st[s] = "Pending"
    /\ pc[s] \in {"create_snap", "dm_create", "dm_load", "dm_resume"} =>
          st[s] = "ProvisioningStorage"
    /\ pc[s] \in {"tap", "ip", "ebpf"} => st[s] = "ConfiguringNetwork"
    /\ pc[s] \in {"cgroup", "cgroup_conf"} => st[s] = "InitializingCgroup"
    /\ pc[s] \in {"jail", "spawn"} => st[s] = "LaunchingVMM"
    /\ pc[s] \in FromSocket => st[s] = "ConfiguringVMM"
    /\ pc[s] = "running" => st[s] = "Running"
    /\ pc[s] \in {"drop", "kill", "rm_cgroup", "release_ip", "dm_remove"} =>
          st[s] = "ProvisioningStorage" \/ "snapshot" \in ctx[s]

\* The process of s and the requests it has served.
Served(s) ==
    /\ pc[s] \in {"idle", "create_snap", "dm_create", "dm_load", "dm_resume"}
                 \cup (FromTap \ FromSocket) => vmm[s] = "none"
    /\ pc[s] \notin {"await"} \cup Rollback \cup Ended => req[s] = "none"
    /\ req[s] # "none" => peer[s] = s
    /\ pc[s] = "running" => put[s] = 6
    /\ Alive(s) => \/ pc[s] \in FromSocket \cup {"running", "dropped", "lost"}
                   \/ pc[s] \in {"drop", "kill"} /\ "process" \in ctx[s]
    /\ vmm[s] \in {"none", "starting"} => put[s] = 1 /\ req[s] = "none"
    /\ vmm[s] \in {"none", "starting", "dead"} => opened[s] = {}
    /\ "rootfs" \in opened[s] => put[s] >= 3
    /\ "tap" \in opened[s] => put[s] >= 5 /\ "rootfs" \in opened[s]
    /\ vmm[s] = "listening" =>
          /\ put[s] > 3 \/ (put[s] = 3 /\ req[s] = "ok") => "rootfs" \in opened[s]
          /\ put[s] > 5 \/ (put[s] = 5 /\ req[s] = "ok") => "tap" \in opened[s]

\* The device named after s is active on the thin id of s.
Mapped(s) == dm[IdOf[s]] = [state |-> "active", dev |-> dev[s], by |-> s]

\* From create_snap to its deletion.
HasThinId(s) ==
    \/ pc[s] \in {"dm_create", "dm_load", "dm_resume", "running", "dm_delete"}
    \/ "snapshot" \in ctx[s]

\* The storage of s.
OwnsDisk(s) ==
    /\ HasThinId(s) => pool[dev[s]] = s
    /\ pc[s] = "dm_load" => dm[IdOf[s]].by = s
    /\ pc[s] = "dm_resume" => dm[IdOf[s]] = [state |-> "loaded", dev |-> dev[s], by |-> s]
    /\ pc[s] = "running" \/ "snapshot" \in ctx[s] => Mapped(s)
    /\ Alive(s) \/ "rootfs" \in opened[s] => Mapped(s)
    /\ pc[s] = "dm_delete" => dm[IdOf[s]].by # s

\* Every device was made by a launch of its id, on a thin id that is its own.
DevicesInv ==
    \A i \in Ids :
        /\ dm[i].by = NoOne => dm[i] = NoDm
        /\ dm[i].by # NoOne => IdOf[dm[i].by] = i
        /\ dm[i].dev # 0 => dm[i].by # NoOne /\ pool[dm[i].dev] = dm[i].by

\* What is left of the storage of s: nothing it did not make, and nothing at all
\* after a rollback that did not warn of it.
LeavesDisk(s) ==
    /\ \A d \in DevIds : pool[d] = s => d = dev[s] /\ pc[s] \notin {"idle", "create_snap"}
    /\ \A i \in Ids : dm[i].by = s => i = IdOf[s] /\ pc[s] \notin {"idle", "create_snap", "dm_create"}
    /\ (pc[s] \in {"rm_jail", "failed"} /\ st[s] # "ProvisioningStorage"
            /\ "snapshot" \notin warned[s]) =>
           dm[IdOf[s]].by # s /\ pool[dev[s]] # s

\* s has the lock on its id.
Holds(s) == pc[s] \in {"dm_load", "dm_resume", "running"} \/ "snapshot" \in ctx[s]
OneHolder(s, t) == Holds(s) /\ Holds(t) /\ IdOf[s] = IdOf[t] => s = t

\* The cgroup and the jail of s.
OwnsCgroup(s) ==
    /\ pc[s] = "running" \/ "cgroup" \in ctx[s] => cgroup[IdOf[s]] = s
    /\ \A i \in Ids : cgroup[i] = s =>
          i = IdOf[s] /\ \/ "cgroup" \in ctx[s] \/ pc[s] \in {"running", "dropped", "lost"}
                         \/ "cgroup" \in warned[s] /\ pc[s] \in Rollback \cup {"failed"}

OwnsJail(s) ==
    /\ pc[s] \in FromSpawn => jail[IdOf[s]].by \in {s, NoOne} /\ jail[IdOf[s]].sock \in {s, NoOne}
    /\ \A i \in Ids : jail[i].by = s =>
          i = IdOf[s] /\ \/ "jail" \in ctx[s] \/ pc[s] \in {"running", "dropped", "lost"}
                         \/ "jail" \in warned[s] /\ pc[s] = "failed"

\* A step of the launch s or of its process.
Step(s) == Launch(s) \/ Provision(s) \/ CleanUp(s) \/ DropVm(s) \/ Vmm(s)

-----------------------------------------------------------------------------
(* Some steps in a form that is easier to use.                              *)

\* The requests by their number.
LEMMA ApiIs ==
    /\ Len(Api) = 6
    /\ \A k \in 1 .. 6 : /\ Api[k] = "rootfs" <=> k = 3
                         /\ Api[k] = "network" <=> k = 5
<1>1. Len(Api) = 6
  BY DEF Api
<1>2. /\ Api[1] = "machine-config" /\ Api[2] = "boot-source" /\ Api[3] = "rootfs"
      /\ Api[4] = "metadata" /\ Api[5] = "network" /\ Api[6] = "start"
  BY DEF Api
<1>3. \A k \in 1 .. 6 : k = 1 \/ k = 2 \/ k = 3 \/ k = 4 \/ k = 5 \/ k = 6
  OBVIOUS
<1> QED
  BY <1>1, <1>2, <1>3

\* A launch is at one of them.
LEMMA PutNumber ==
  ASSUME NEW s \in Sessions, ApiTypes
  PROVE  put[s] \in 1 .. 6
<1>1. put[s] \in 1 .. Len(Api)
  BY DEF ApiTypes
<1> QED
  BY <1>1, ApiIs

\* The answer to a request: the next one, the end, or the rollback.
LEMMA AwaitPutSteps ==
  ASSUME NEW s \in Sessions, AwaitPut(s), InStep(s), ControlTypes, ApiTypes
  PROVE  /\ orch = "up" /\ pc[s] = "await" /\ UNCHANGED <<host, vmms, proc, mem, locals, dev, ip, peer>>
         /\ \/ /\ req[s] = "ok" /\ put[s] < 6
               /\ put' = [put EXCEPT ![s] = put[s] + 1]
               /\ req' = [req EXCEPT ![s] = "none"]
               /\ pc' = [pc EXCEPT ![s] = "send"]
               /\ UNCHANGED <<st, ctx>>
            \/ /\ req[s] = "ok" /\ put[s] = 6
               /\ req' = [req EXCEPT ![s] = "none"]
               /\ pc' = [pc EXCEPT ![s] = "running"]
               /\ st' = [st EXCEPT ![s] = "Running"]
               /\ ctx' = [ctx EXCEPT ![s] = {}]
               /\ UNCHANGED put
            \/ /\ pc' = [pc EXCEPT ![s] = "drop"]
               /\ UNCHANGED <<st, req, put, ctx>>
<1>1. Len(Api) = 6
  BY DEF Api
<1>2. orch = "up" /\ pc[s] = "await" /\ st[s] = "ConfiguringVMM"
  BY DEF AwaitPut, At, InStep, FromTap, FromIp, FromEbpf, FromCgroup, FromConf, FromJail,
         FromSpawn, FromSocket
<1>3. put[s] \in 1 .. 6
  BY <1>1 DEF ApiTypes
<1> QED
  BY <1>1, <1>2, <1>3 DEF AwaitPut, Enter, Fail, Goto, IsValidTransition

\* dmsetup load, as an update of the device of s.
LEMMA LoadSteps ==
  ASSUME NEW s \in Sessions, DiskTypes, DmLoad(s)
  PROVE  /\ orch = "up" /\ pc[s] = "dm_load"
         /\ UNCHANGED <<pool, tap, cgroup, jail, vmms, proc, mem, st, recs, api>>
         /\ \/ pc' = [pc EXCEPT ![s] = "drop"] /\ UNCHANGED dm
            \/ /\ pc' = [pc EXCEPT ![s] = "dm_resume"]
               /\ dm' = [dm EXCEPT ![IdOf[s]] =
                            [state |-> "loaded", dev |-> dev[s], by |-> dm[IdOf[s]].by]]
<1>1. IdOf[s] \in Ids /\ dm[IdOf[s]] \in DmDevs /\ DOMAIN dm = Ids
  BY ProvisioningAssumption DEF DiskTypes
<1>2. [dm EXCEPT ![IdOf[s]].state = "loaded", ![IdOf[s]].dev = dev[s]]
        = [dm EXCEPT ![IdOf[s]] = [dm[IdOf[s]] EXCEPT !.state = "loaded", !.dev = dev[s]]]
  BY <1>1 DEF DiskTypes
<1>3. [dm[IdOf[s]] EXCEPT !.state = "loaded", !.dev = dev[s]]
        = [state |-> "loaded", dev |-> dev[s], by |-> dm[IdOf[s]].by]
  <2>1. ASSUME NEW r, r = [dm[IdOf[s]] EXCEPT !.state = "loaded", !.dev = dev[s]]
        PROVE  r = [state |-> "loaded", dev |-> dev[s], by |-> dm[IdOf[s]].by]
    BY <1>1, <2>1 DEF DmDevs
  <2> QED
    BY <2>1
<1> QED
  BY <1>2, <1>3 DEF DmLoad, At, Goto, Fail

\* dmsetup resume, likewise; the transition is not refused.
LEMMA ResumeSteps ==
  ASSUME NEW s \in Sessions, DiskTypes, ControlTypes, InStep(s), DmResume(s)
  PROVE  /\ orch = "up" /\ pc[s] = "dm_resume"
         /\ UNCHANGED <<pool, tap, cgroup, jail, vmms, proc, mem, locals, dev, ip, api>>
         /\ \/ pc' = [pc EXCEPT ![s] = "drop"] /\ UNCHANGED <<dm, st, ctx>>
            \/ /\ pc' = [pc EXCEPT ![s] = "tap"]
               /\ st' = [st EXCEPT ![s] = "ConfiguringNetwork"]
               /\ ctx' = [ctx EXCEPT ![s] = ctx[s] \cup {"snapshot"}]
               /\ dm' = [dm EXCEPT ![IdOf[s]] =
                            [state |-> "active", dev |-> dm[IdOf[s]].dev, by |-> dm[IdOf[s]].by]]
<1>1. IdOf[s] \in Ids /\ dm[IdOf[s]] \in DmDevs /\ DOMAIN dm = Ids
  BY ProvisioningAssumption DEF DiskTypes
<1>2. [dm EXCEPT ![IdOf[s]].state = "active"]
        = [dm EXCEPT ![IdOf[s]] = [dm[IdOf[s]] EXCEPT !.state = "active"]]
  BY <1>1 DEF DiskTypes
<1>3. [dm[IdOf[s]] EXCEPT !.state = "active"]
        = [state |-> "active", dev |-> dm[IdOf[s]].dev, by |-> dm[IdOf[s]].by]
  BY <1>1 DEF DmDevs
<1>4. orch = "up" /\ pc[s] = "dm_resume" /\ st[s] = "ProvisioningStorage"
  BY DEF DmResume, At, InStep
<1>5. IsValidTransition(st[s], "ConfiguringNetwork")
  BY <1>4 DEF IsValidTransition
<1> QED
  BY <1>2, <1>3, <1>4, <1>5 DEF DmResume, Enter, Record, Goto, Fail

\* The process makes its socket in the jail of its launch, if that is there.
LEMMA ListenSteps ==
  ASSUME NEW s \in Sessions, VmmListen(s), LinkTypes
  PROVE  /\ jail' \in [Ids -> [by : Sessions \cup {NoOne}, sock : Sessions \cup {NoOne}]]
         /\ \A i \in Ids : jail'[i] = jail[i] \/ (i = IdOf[s] /\ jail[i].by = s
                                                  /\ jail'[i] = [by |-> s, sock |-> s])
<1>1. IdOf[s] \in Ids /\ jail[IdOf[s]] \in [by : Sessions \cup {NoOne}, sock : Sessions \cup {NoOne}]
  BY ProvisioningAssumption DEF LinkTypes
<1>2. CASE jail[IdOf[s]].by = s
  <2>1. jail' = [jail EXCEPT ![IdOf[s]] = [jail[IdOf[s]] EXCEPT !.sock = s]]
    BY <1>1, <1>2 DEF VmmListen
  <2>2. [jail[IdOf[s]] EXCEPT !.sock = s] = [by |-> s, sock |-> s]
    BY <1>1, <1>2
  <2> QED
    BY <1>2, <2>1, <2>2 DEF LinkTypes
<1>3. CASE jail[IdOf[s]].by # s
  BY <1>3 DEF VmmListen, LinkTypes
<1> QED
  BY <1>2, <1>3

-----------------------------------------------------------------------------
(* Typing.                                                                 *)

\* The pool and the devices keep their types.
LEMMA DiskTyped ==
  ASSUME DiskTypes, RecordTypes, ControlTypes, NEW s \in Sessions, Step(s), InStep(s)
  PROVE  DiskTypes'
<1> USE ProvisioningAssumption DEF DiskTypes, host, vmms, proc, mem, recs, api
<1>1. CASE Launch(s)
  BY <1>1 DEF Launch, At, Goto, Enter, IsValidTransition
<1>2. CASE CreateSnap(s)
  BY <1>2 DEF CreateSnap, At, Goto, Fail
<1>3. CASE DmCreate(s)
  BY <1>3 DEF DmCreate, DmDevs
<1>4. CASE DmLoad(s)
  <2>1. [state |-> "loaded", dev |-> dev[s], by |-> dm[IdOf[s]].by] \in DmDevs
    <3>1. dm[IdOf[s]] \in DmDevs /\ dev[s] \in DevIds
      BY DEF RecordTypes
    <3> QED
      BY <3>1 DEF DmDevs
  <2> QED
    BY <2>1, <1>4, LoadSteps
<1>5. CASE DmResume(s)
  <2>1. [state |-> "active", dev |-> dm[IdOf[s]].dev, by |-> dm[IdOf[s]].by] \in DmDevs
    <3>1. dm[IdOf[s]] \in DmDevs
      OBVIOUS
    <3> QED
      BY <3>1 DEF DmDevs
  <2> QED
    BY <2>1, <1>5, ResumeSteps
<1>6. CASE TapCreate(s)
  BY <1>6 DEF TapCreate, At, Goto, Fail
<1>7. CASE AllocateIp(s)
  BY <1>7 DEF AllocateIp, At, Goto, Fail, Record
<1>8. CASE LoadEbpf(s)
  BY <1>8 DEF LoadEbpf, At, Goto, Enter, IsValidTransition, Fail
<1>9. CASE CreateCgroup(s)
  BY <1>9 DEF CreateCgroup, At, Goto, Fail, Record
<1>10. CASE ConfigureCgroup(s)
  BY <1>10 DEF ConfigureCgroup, At, Goto, Enter, IsValidTransition, Fail, Record
<1>11. CASE SetupJail(s)
  BY <1>11 DEF SetupJail, At, Goto, Fail
<1>12. CASE Spawn(s)
  BY <1>12 DEF Spawn, At, Goto, Enter, IsValidTransition, Fail, Record
<1>13. CASE WaitForSocket(s)
  BY <1>13 DEF WaitForSocket, At, Goto, Fail
<1>14. CASE SendPut(s)
  BY <1>14 DEF SendPut, At, Goto, Fail
<1>15. CASE AwaitPut(s)
  BY <1>15 DEF AwaitPut, At, Goto, Enter, IsValidTransition, Fail
<1>16. CASE PutTimeout(s)
  BY <1>16 DEF PutTimeout, At, Goto, Fail
<1>17. CASE DropLocals(s)
  BY <1>17 DEF DropLocals, At, Goto
<1>18. CASE KillVmm(s)
  BY <1>18 DEF KillVmm, At, Goto, Take
<1>19. CASE DeleteCgroup(s)
  BY <1>19 DEF DeleteCgroup, At, Goto, Take, Warn
<1>20. CASE ReleaseIp(s)
  BY <1>20 DEF ReleaseIp, At, Goto, Take
<1>21. CASE RemoveDm(s)
  BY <1>21 DEF RemoveDm, DmDevs, NoDm
<1>22. CASE DeleteThinId(s)
  BY <1>22 DEF DeleteThinId, Warn, At, Goto
<1>23. CASE RemoveJail(s)
  BY <1>23 DEF RemoveJail, At, Goto, Take, Warn
<1>24. CASE DropVm(s)
  BY <1>24 DEF DropVm, At, Goto
<1>25. CASE VmmListen(s)
  BY <1>25 DEF VmmListen
<1>26. CASE VmmServe(s)
  BY <1>26 DEF VmmServe
<1>27. CASE VmmExit(s)
  BY <1>27 DEF VmmExit
<1> QED
  BY <1>1, <1>2, <1>3, <1>4, <1>5, <1>6, <1>7, <1>8, <1>9, <1>10, <1>11, <1>12, <1>13,
     <1>14, <1>15, <1>16, <1>17, <1>18, <1>19, <1>20, <1>21, <1>22, <1>23, <1>24, <1>25,
     <1>26, <1>27 DEF Step, Provision, CleanUp, Vmm

\* So do the TAPs, the cgroups and the jails.
LEMMA LinkTyped ==
  ASSUME LinkTypes, NEW s \in Sessions, Step(s)
  PROVE  LinkTypes'
<1> USE ProvisioningAssumption DEF LinkTypes, host, vmms, proc, mem, recs, api
<1>1. CASE Launch(s)
  BY <1>1 DEF Launch, At, Goto, Enter, IsValidTransition
<1>2. CASE CreateSnap(s)
  BY <1>2 DEF CreateSnap, At, Goto, Fail
<1>3. CASE DmCreate(s)
  BY <1>3 DEF DmCreate, At, Goto, Fail
<1>4. CASE DmLoad(s)
  BY <1>4 DEF DmLoad, At, Goto, Fail
<1>5. CASE DmResume(s)
  BY <1>5 DEF DmResume, At, Goto, Enter, IsValidTransition, Fail, Record
<1>6. CASE TapCreate(s)
  BY <1>6 DEF TapCreate, At, Goto, Fail
<1>7. CASE AllocateIp(s)
  BY <1>7 DEF AllocateIp, At, Goto, Fail, Record
<1>8. CASE LoadEbpf(s)
  BY <1>8 DEF LoadEbpf, At, Goto, Enter, IsValidTransition, Fail
<1>9. CASE CreateCgroup(s)
  BY <1>9 DEF CreateCgroup, At, Goto, Fail, Record
<1>10. CASE ConfigureCgroup(s)
  BY <1>10 DEF ConfigureCgroup, At, Goto, Enter, IsValidTransition, Fail, Record
<1>11. CASE SetupJail(s)
  BY <1>11 DEF SetupJail, At, Goto, Fail
<1>12. CASE Spawn(s)
  BY <1>12 DEF Spawn, At, Goto, Enter, IsValidTransition, Fail, Record
<1>13. CASE WaitForSocket(s)
  BY <1>13 DEF WaitForSocket, At, Goto, Fail
<1>14. CASE SendPut(s)
  BY <1>14 DEF SendPut, At, Goto, Fail
<1>15. CASE AwaitPut(s)
  BY <1>15 DEF AwaitPut, At, Goto, Enter, IsValidTransition, Fail
<1>16. CASE PutTimeout(s)
  BY <1>16 DEF PutTimeout, At, Goto, Fail
<1>17. CASE DropLocals(s)
  BY <1>17 DEF DropLocals, DropTap
<1>18. CASE KillVmm(s)
  BY <1>18 DEF KillVmm, At, Goto, Take
<1>19. CASE DeleteCgroup(s)
  BY <1>19 DEF DeleteCgroup, At, Goto, Take, Warn
<1>20. CASE ReleaseIp(s)
  BY <1>20 DEF ReleaseIp, At, Goto, Take
<1>21. CASE RemoveDm(s)
  BY <1>21 DEF RemoveDm, At, Goto, Take, Warn
<1>22. CASE DeleteThinId(s)
  BY <1>22 DEF DeleteThinId, Warn, At, Goto
<1>23. CASE RemoveJail(s)
  <2>1. /\ IdOf[s] \in Ids /\ DOMAIN jail = Ids
        /\ jail[IdOf[s]] \in [by : Sessions \cup {NoOne}, sock : Sessions \cup {NoOne}]
    OBVIOUS
  <2>2. ASSUME NEW k \in {jail[IdOf[s]].sock, NoOne}
        PROVE  [by |-> jail[IdOf[s]].by, sock |-> k]
                 \in [by : Sessions \cup {NoOne}, sock : Sessions \cup {NoOne}]
    BY <2>1
  <2>3. NoJail \in [by : Sessions \cup {NoOne}, sock : Sessions \cup {NoOne}]
    BY DEF NoJail
  <2>4. PICK j \in [by : Sessions \cup {NoOne}, sock : Sessions \cup {NoOne}] :
            jail' = jail \/ jail' = [jail EXCEPT ![IdOf[s]] = j]
    <3>1. \/ jail' = jail \/ jail' = [jail EXCEPT ![IdOf[s]] = NoJail]
          \/ \E k \in {jail[IdOf[s]].sock, NoOne} :
                jail' = [jail EXCEPT ![IdOf[s]] = [by |-> jail[IdOf[s]].by, sock |-> k]]
      BY <1>23, <2>1 DEF RemoveJail
    <3> QED
      BY <2>1, <2>2, <2>3, <3>1
  <2>5. tap' = tap /\ cgroup' = cgroup
    BY <1>23 DEF RemoveJail
  <2>6. PICK J : J = [by : Sessions \cup {NoOne}, sock : Sessions \cup {NoOne}]
    OBVIOUS
  <2>7. jail \in [Ids -> J] /\ j \in J /\ IdOf[s] \in Ids
    BY <2>1, <2>6
  <2>8. jail' \in [Ids -> J]
    BY <2>4, <2>7
  <2>9. jail' \in [Ids -> [by : Sessions \cup {NoOne}, sock : Sessions \cup {NoOne}]]
    BY <2>6, <2>8
  <2> QED
    BY <2>5, <2>9
<1>24. CASE DropVm(s)
  BY <1>24 DEF DropVm, DropTap
<1>25. CASE VmmListen(s)
  BY <1>25, ListenSteps DEF VmmListen
<1>26. CASE VmmServe(s)
  BY <1>26 DEF VmmServe
<1>27. CASE VmmExit(s)
  BY <1>27 DEF VmmExit
<1> QED
  BY <1>1, <1>2, <1>3, <1>4, <1>5, <1>6, <1>7, <1>8, <1>9, <1>10, <1>11, <1>12, <1>13,
     <1>14, <1>15, <1>16, <1>17, <1>18, <1>19, <1>20, <1>21, <1>22, <1>23, <1>24, <1>25,
     <1>26, <1>27 DEF Step, Provision, CleanUp, Vmm

\* The processes.
LEMMA VmmTyped ==
  ASSUME VmmTypes, NEW s \in Sessions, Step(s)
  PROVE  VmmTypes'
<1> USE ProvisioningAssumption DEF VmmTypes, host, vmms, proc, mem, recs, api
<1>1. CASE Launch(s)
  BY <1>1 DEF Launch, At, Goto, Enter, IsValidTransition
<1>2. CASE CreateSnap(s)
  BY <1>2 DEF CreateSnap, At, Goto, Fail
<1>3. CASE DmCreate(s)
  BY <1>3 DEF DmCreate, At, Goto, Fail
<1>4. CASE DmLoad(s)
  BY <1>4 DEF DmLoad, At, Goto, Fail
<1>5. CASE DmResume(s)
  BY <1>5 DEF DmResume, At, Goto, Enter, IsValidTransition, Fail, Record
<1>6. CASE TapCreate(s)
  BY <1>6 DEF TapCreate, At, Goto, Fail
<1>7. CASE AllocateIp(s)
  BY <1>7 DEF AllocateIp, At, Goto, Fail, Record
<1>8. CASE LoadEbpf(s)
  BY <1>8 DEF LoadEbpf, At, Goto, Enter, IsValidTransition, Fail
<1>9. CASE CreateCgroup(s)
  BY <1>9 DEF CreateCgroup, At, Goto, Fail, Record
<1>10. CASE ConfigureCgroup(s)
  BY <1>10 DEF ConfigureCgroup, At, Goto, Enter, IsValidTransition, Fail, Record
<1>11. CASE SetupJail(s)
  BY <1>11 DEF SetupJail, At, Goto, Fail
<1>12. CASE Spawn(s)
  BY <1>12 DEF Spawn, At, Goto, Enter, IsValidTransition, Fail, Record
<1>13. CASE WaitForSocket(s)
  BY <1>13 DEF WaitForSocket, At, Goto, Fail
<1>14. CASE SendPut(s)
  BY <1>14 DEF SendPut, At, Goto, Fail
<1>15. CASE AwaitPut(s)
  BY <1>15 DEF AwaitPut, At, Goto, Enter, IsValidTransition, Fail
<1>16. CASE PutTimeout(s)
  BY <1>16 DEF PutTimeout, At, Goto, Fail
<1>17. CASE DropLocals(s)
  BY <1>17 DEF DropLocals, At, Goto
<1>18. CASE KillVmm(s)
  BY <1>18 DEF KillVmm, At, Goto, Take
<1>19. CASE DeleteCgroup(s)
  BY <1>19 DEF DeleteCgroup, At, Goto, Take, Warn
<1>20. CASE ReleaseIp(s)
  BY <1>20 DEF ReleaseIp, At, Goto, Take
<1>21. CASE RemoveDm(s)
  BY <1>21 DEF RemoveDm, At, Goto, Take, Warn
<1>22. CASE DeleteThinId(s)
  BY <1>22 DEF DeleteThinId, Warn, At, Goto
<1>23. CASE RemoveJail(s)
  BY <1>23 DEF RemoveJail, At, Goto, Take, Warn
<1>24. CASE DropVm(s)
  BY <1>24 DEF DropVm, At, Goto
<1>25. CASE VmmListen(s)
  BY <1>25 DEF VmmListen
<1>26. CASE VmmServe(s)
  BY <1>26 DEF VmmServe
<1>27. CASE VmmExit(s)
  BY <1>27 DEF VmmExit
<1> QED
  BY <1>1, <1>2, <1>3, <1>4, <1>5, <1>6, <1>7, <1>8, <1>9, <1>10, <1>11, <1>12, <1>13,
     <1>14, <1>15, <1>16, <1>17, <1>18, <1>19, <1>20, <1>21, <1>22, <1>23, <1>24, <1>25,
     <1>26, <1>27 DEF Step, Provision, CleanUp, Vmm

\* The memory of the orchestrator, as long as there is room for one more id.
LEMMA ProcTyped ==
  ASSUME ProcTypes, RecordTypes, NEW s \in Sessions, Step(s),
         Launch(s) => nextDev + 1 \in DevIds
  PROVE  ProcTypes'
<1> USE ProvisioningAssumption DEF ProcTypes, host, vmms, proc, mem, recs, api
<1>1. CASE Launch(s)
  BY <1>1 DEF Launch, At, Goto, Enter, IsValidTransition
<1>2. CASE CreateSnap(s)
  BY <1>2 DEF CreateSnap, At, Goto, Fail
<1>3. CASE DmCreate(s)
  BY <1>3 DEF DmCreate, At, Goto, Fail
<1>4. CASE DmLoad(s)
  BY <1>4 DEF DmLoad, At, Goto, Fail
<1>5. CASE DmResume(s)
  BY <1>5 DEF DmResume, At, Goto, Enter, IsValidTransition, Fail, Record
<1>6. CASE TapCreate(s)
  BY <1>6 DEF TapCreate, At, Goto, Fail
<1>7. CASE AllocateIp(s)
  BY <1>7 DEF AllocateIp, At, Goto, Fail, Record
<1>8. CASE LoadEbpf(s)
  BY <1>8 DEF LoadEbpf, At, Goto, Enter, IsValidTransition, Fail
<1>9. CASE CreateCgroup(s)
  BY <1>9 DEF CreateCgroup, At, Goto, Fail, Record
<1>10. CASE ConfigureCgroup(s)
  BY <1>10 DEF ConfigureCgroup, At, Goto, Enter, IsValidTransition, Fail, Record
<1>11. CASE SetupJail(s)
  BY <1>11 DEF SetupJail, At, Goto, Fail
<1>12. CASE Spawn(s)
  BY <1>12 DEF Spawn, At, Goto, Enter, IsValidTransition, Fail, Record
<1>13. CASE WaitForSocket(s)
  BY <1>13 DEF WaitForSocket, At, Goto, Fail
<1>14. CASE SendPut(s)
  BY <1>14 DEF SendPut, At, Goto, Fail
<1>15. CASE AwaitPut(s)
  BY <1>15 DEF AwaitPut, At, Goto, Enter, IsValidTransition, Fail
<1>16. CASE PutTimeout(s)
  BY <1>16 DEF PutTimeout, At, Goto, Fail
<1>17. CASE DropLocals(s)
  BY <1>17 DEF DropLocals, At, Goto
<1>18. CASE KillVmm(s)
  BY <1>18 DEF KillVmm, At, Goto, Take
<1>19. CASE DeleteCgroup(s)
  BY <1>19 DEF DeleteCgroup, At, Goto, Take, Warn
<1>20. CASE ReleaseIp(s)
  BY <1>20, ClearedIp DEF ReleaseIp, RecordTypes
<1>21. CASE RemoveDm(s)
  BY <1>21 DEF RemoveDm, At, Goto, Take, Warn
<1>22. CASE DeleteThinId(s)
  BY <1>22 DEF DeleteThinId, Warn, At, Goto
<1>23. CASE RemoveJail(s)
  BY <1>23 DEF RemoveJail, At, Goto, Take, Warn
<1>24. CASE DropVm(s)
  BY <1>24 DEF DropVm, At, Goto
<1>25. CASE VmmListen(s)
  BY <1>25 DEF VmmListen
<1>26. CASE VmmServe(s)
  BY <1>26 DEF VmmServe
<1>27. CASE VmmExit(s)
  BY <1>27 DEF VmmExit
<1> QED
  BY <1>1, <1>2, <1>3, <1>4, <1>5, <1>6, <1>7, <1>8, <1>9, <1>10, <1>11, <1>12, <1>13,
     <1>14, <1>15, <1>16, <1>17, <1>18, <1>19, <1>20, <1>21, <1>22, <1>23, <1>24, <1>25,
     <1>26, <1>27 DEF Step, Provision, CleanUp, Vmm

\* The control state of the launches.
LEMMA ControlTyped ==
  ASSUME ControlTypes, NEW s \in Sessions, Step(s)
  PROVE  ControlTypes'
<1> USE ProvisioningAssumption DEF ControlTypes, Forward, Rollback, Ended, VmStates, host,
           vmms, proc, mem, recs, api
<1>1. CASE Launch(s)
  BY <1>1 DEF Launch, At, Goto, Enter, IsValidTransition
<1>2. CASE CreateSnap(s)
  BY <1>2 DEF CreateSnap, At, Goto, Fail
<1>3. CASE DmCreate(s)
  BY <1>3 DEF DmCreate, At, Goto, Fail
<1>4. CASE DmLoad(s)
  BY <1>4 DEF DmLoad, At, Goto, Fail
<1>5. CASE DmResume(s)
  BY <1>5 DEF DmResume, At, Goto, Enter, IsValidTransition, Fail, Record
<1>6. CASE TapCreate(s)
  BY <1>6 DEF TapCreate, At, Goto, Fail
<1>7. CASE AllocateIp(s)
  BY <1>7 DEF AllocateIp, At, Goto, Fail, Record
<1>8. CASE LoadEbpf(s)
  BY <1>8 DEF LoadEbpf, At, Goto, Enter, IsValidTransition, Fail
<1>9. CASE CreateCgroup(s)
  BY <1>9 DEF CreateCgroup, At, Goto, Fail, Record
<1>10. CASE ConfigureCgroup(s)
  BY <1>10 DEF ConfigureCgroup, At, Goto, Enter, IsValidTransition, Fail, Record
<1>11. CASE SetupJail(s)
  BY <1>11 DEF SetupJail, At, Goto, Fail
<1>12. CASE Spawn(s)
  BY <1>12 DEF Spawn, At, Goto, Enter, IsValidTransition, Fail, Record
<1>13. CASE WaitForSocket(s)
  BY <1>13 DEF WaitForSocket, At, Goto, Fail
<1>14. CASE SendPut(s)
  BY <1>14 DEF SendPut, At, Goto, Fail
<1>15. CASE AwaitPut(s)
  BY <1>15 DEF AwaitPut, At, Goto, Enter, IsValidTransition, Fail
<1>16. CASE PutTimeout(s)
  BY <1>16 DEF PutTimeout, At, Goto, Fail
<1>17. CASE DropLocals(s)
  BY <1>17 DEF DropLocals, At, Goto
<1>18. CASE KillVmm(s)
  BY <1>18 DEF KillVmm, At, Goto, Take
<1>19. CASE DeleteCgroup(s)
  BY <1>19 DEF DeleteCgroup, At, Goto, Take, Warn
<1>20. CASE ReleaseIp(s)
  BY <1>20 DEF ReleaseIp, At, Goto, Take
<1>21. CASE RemoveDm(s)
  BY <1>21 DEF RemoveDm, At, Goto, Take, Warn
<1>22. CASE DeleteThinId(s)
  BY <1>22 DEF DeleteThinId, Warn, At, Goto
<1>23. CASE RemoveJail(s)
  BY <1>23 DEF RemoveJail, At, Goto, Take, Warn
<1>24. CASE DropVm(s)
  BY <1>24 DEF DropVm, At, Goto
<1>25. CASE VmmListen(s)
  BY <1>25 DEF VmmListen
<1>26. CASE VmmServe(s)
  BY <1>26 DEF VmmServe
<1>27. CASE VmmExit(s)
  BY <1>27 DEF VmmExit
<1> QED
  BY <1>1, <1>2, <1>3, <1>4, <1>5, <1>6, <1>7, <1>8, <1>9, <1>10, <1>11, <1>12, <1>13,
     <1>14, <1>15, <1>16, <1>17, <1>18, <1>19, <1>20, <1>21, <1>22, <1>23, <1>24, <1>25,
     <1>26, <1>27 DEF Step, Provision, CleanUp, Vmm

\* What the launches have recorded.
LEMMA RecordTyped ==
  ASSUME RecordTypes, ProcTypes, NEW s \in Sessions, Step(s)
  PROVE  RecordTypes'
<1> USE ProvisioningAssumption DEF RecordTypes, host, vmms, proc, mem, recs, api
<1>1. CASE Launch(s)
  BY <1>1 DEF Launch, ProcTypes
<1>2. CASE CreateSnap(s)
  BY <1>2 DEF CreateSnap, At, Goto, Fail
<1>3. CASE DmCreate(s)
  BY <1>3 DEF DmCreate, At, Goto, Fail
<1>4. CASE DmLoad(s)
  BY <1>4 DEF DmLoad, At, Goto, Fail
<1>5. CASE DmResume(s)
  BY <1>5 DEF DmResume, At, Goto, Enter, IsValidTransition, Fail, Record
<1>6. CASE TapCreate(s)
  BY <1>6 DEF TapCreate, At, Goto, Fail
<1>7. CASE AllocateIp(s)
  BY <1>7 DEF AllocateIp, At, Goto, Fail, Record
<1>8. CASE LoadEbpf(s)
  BY <1>8 DEF LoadEbpf, At, Goto, Enter, IsValidTransition, Fail
<1>9. CASE CreateCgroup(s)
  BY <1>9 DEF CreateCgroup, At, Goto, Fail, Record
<1>10. CASE ConfigureCgroup(s)
  BY <1>10 DEF ConfigureCgroup, At, Goto, Enter, IsValidTransition, Fail, Record
<1>11. CASE SetupJail(s)
  BY <1>11 DEF SetupJail, At, Goto, Fail
<1>12. CASE Spawn(s)
  BY <1>12 DEF Spawn, At, Goto, Enter, IsValidTransition, Fail, Record
<1>13. CASE WaitForSocket(s)
  BY <1>13 DEF WaitForSocket, At, Goto, Fail
<1>14. CASE SendPut(s)
  BY <1>14 DEF SendPut, At, Goto, Fail
<1>15. CASE AwaitPut(s)
  BY <1>15 DEF AwaitPut, At, Goto, Enter, IsValidTransition, Fail
<1>16. CASE PutTimeout(s)
  BY <1>16 DEF PutTimeout, At, Goto, Fail
<1>17. CASE DropLocals(s)
  BY <1>17 DEF DropLocals, At, Goto
<1>18. CASE KillVmm(s)
  BY <1>18 DEF KillVmm, At, Goto, Take
<1>19. CASE DeleteCgroup(s)
  BY <1>19 DEF DeleteCgroup, At, Goto, Take, Warn
<1>20. CASE ReleaseIp(s)
  BY <1>20 DEF ReleaseIp, At, Goto, Take
<1>21. CASE RemoveDm(s)
  BY <1>21 DEF RemoveDm, At, Goto, Take, Warn
<1>22. CASE DeleteThinId(s)
  BY <1>22 DEF DeleteThinId, Warn, At, Goto
<1>23. CASE RemoveJail(s)
  BY <1>23 DEF RemoveJail, At, Goto, Take, Warn
<1>24. CASE DropVm(s)
  BY <1>24 DEF DropVm, At, Goto
<1>25. CASE VmmListen(s)
  BY <1>25 DEF VmmListen
<1>26. CASE VmmServe(s)
  BY <1>26 DEF VmmServe
<1>27. CASE VmmExit(s)
  BY <1>27 DEF VmmExit
<1> QED
  BY <1>1, <1>2, <1>3, <1>4, <1>5, <1>6, <1>7, <1>8, <1>9, <1>10, <1>11, <1>12, <1>13,
     <1>14, <1>15, <1>16, <1>17, <1>18, <1>19, <1>20, <1>21, <1>22, <1>23, <1>24, <1>25,
     <1>26, <1>27 DEF Step, Provision, CleanUp, Vmm

\* The requests.
LEMMA ApiTyped ==
  ASSUME ApiTypes, ControlTypes, LinkTypes, NEW s \in Sessions, InStep(s), Step(s)
  PROVE  ApiTypes'
<1> USE ProvisioningAssumption DEF ApiTypes, host, vmms, proc, mem, recs, api
<1>1. CASE Launch(s)
  BY <1>1 DEF Launch, At, Goto, Enter, IsValidTransition
<1>2. CASE CreateSnap(s)
  BY <1>2 DEF CreateSnap, At, Goto, Fail
<1>3. CASE DmCreate(s)
  BY <1>3 DEF DmCreate, At, Goto, Fail
<1>4. CASE DmLoad(s)
  BY <1>4 DEF DmLoad, At, Goto, Fail
<1>5. CASE DmResume(s)
  BY <1>5 DEF DmResume, At, Goto, Enter, IsValidTransition, Fail, Record
<1>6. CASE TapCreate(s)
  BY <1>6 DEF TapCreate, At, Goto, Fail
<1>7. CASE AllocateIp(s)
  BY <1>7 DEF AllocateIp, At, Goto, Fail, Record
<1>8. CASE LoadEbpf(s)
  BY <1>8 DEF LoadEbpf, At, Goto, Enter, IsValidTransition, Fail
<1>9. CASE CreateCgroup(s)
  BY <1>9 DEF CreateCgroup, At, Goto, Fail, Record
<1>10. CASE ConfigureCgroup(s)
  BY <1>10 DEF ConfigureCgroup, At, Goto, Enter, IsValidTransition, Fail, Record
<1>11. CASE SetupJail(s)
  BY <1>11 DEF SetupJail, At, Goto, Fail
<1>12. CASE Spawn(s)
  BY <1>12 DEF Spawn, At, Goto, Enter, IsValidTransition, Fail, Record
<1>13. CASE WaitForSocket(s)
  BY <1>13 DEF WaitForSocket, At, Goto, Fail
<1>14. CASE SendPut(s)
  <2>1. jail[IdOf[s]].sock \in Sessions \cup {NoOne}
    BY DEF LinkTypes
  <2> QED
    BY <1>14, <2>1 DEF SendPut, At, Goto, Fail
<1>15. CASE AwaitPut(s)
  <2>1. Len(Api) = 6
    BY DEF Api
  <2> QED
    BY <1>15, <2>1, AwaitPutSteps
<1>16. CASE PutTimeout(s)
  BY <1>16 DEF PutTimeout, At, Goto, Fail
<1>17. CASE DropLocals(s)
  BY <1>17 DEF DropLocals, At, Goto
<1>18. CASE KillVmm(s)
  BY <1>18 DEF KillVmm, At, Goto, Take
<1>19. CASE DeleteCgroup(s)
  BY <1>19 DEF DeleteCgroup, At, Goto, Take, Warn
<1>20. CASE ReleaseIp(s)
  BY <1>20 DEF ReleaseIp, At, Goto, Take
<1>21. CASE RemoveDm(s)
  BY <1>21 DEF RemoveDm, At, Goto, Take, Warn
<1>22. CASE DeleteThinId(s)
  BY <1>22 DEF DeleteThinId, Warn, At, Goto
<1>23. CASE RemoveJail(s)
  BY <1>23 DEF RemoveJail, At, Goto, Take, Warn
<1>24. CASE DropVm(s)
  BY <1>24 DEF DropVm, At, Goto
<1>25. CASE VmmListen(s)
  BY <1>25 DEF VmmListen
<1>26. CASE VmmServe(s)
  BY <1>26 DEF VmmServe
<1>27. CASE VmmExit(s)
  BY <1>27 DEF VmmExit
<1> QED
  BY <1>1, <1>2, <1>3, <1>4, <1>5, <1>6, <1>7, <1>8, <1>9, <1>10, <1>11, <1>12, <1>13,
     <1>14, <1>15, <1>16, <1>17, <1>18, <1>19, <1>20, <1>21, <1>22, <1>23, <1>24, <1>25,
     <1>26, <1>27 DEF Step, Provision, CleanUp, Vmm

-----------------------------------------------------------------------------
(* What each launch knows, and what its process has done.                  *)

\* Recorded(t) survives a step of any launch s.
LEMMA RecordedStep ==
  ASSUME ControlTypes, RecordTypes, ApiTypes, NEW s \in Sessions, NEW t \in Sessions,
         Step(s), 
         Recorded(t), InStep(s)
  PROVE  Recorded(t)'
<1> USE ProvisioningAssumption DEF Recorded, ControlTypes, RecordTypes, Rollback,
           FromTap, FromIp, FromEbpf, FromCgroup, FromConf, FromJail, FromSpawn, FromSocket,
           host, vmms, proc, mem, recs, api
<1>1. CASE Launch(s)
  BY <1>1 DEF Launch, At, Goto, Enter, IsValidTransition
<1>2. CASE CreateSnap(s)
  BY <1>2 DEF CreateSnap, At, Goto, Fail
<1>3. CASE DmCreate(s)
  BY <1>3 DEF DmCreate, At, Goto, Fail
<1>4. CASE DmLoad(s)
  BY <1>4 DEF DmLoad, At, Goto, Fail
<1>5. CASE DmResume(s)
  BY <1>5 DEF DmResume, At, Goto, Enter, IsValidTransition, Fail, Record
<1>6. CASE TapCreate(s)
  BY <1>6 DEF TapCreate, At, Goto, Fail
<1>7. CASE AllocateIp(s)
  BY <1>7 DEF AllocateIp, At, Goto, Fail, Record
<1>8. CASE LoadEbpf(s)
  BY <1>8 DEF LoadEbpf, At, Goto, Enter, IsValidTransition, Fail
<1>9. CASE CreateCgroup(s)
  BY <1>9 DEF CreateCgroup, At, Goto, Fail, Record
<1>10. CASE ConfigureCgroup(s)
  BY <1>10 DEF ConfigureCgroup, At, Goto, Enter, IsValidTransition, Fail, Record
<1>11. CASE SetupJail(s)
  BY <1>11 DEF SetupJail, At, Goto, Fail
<1>12. CASE Spawn(s)
  BY <1>12 DEF Spawn, At, Goto, Enter, IsValidTransition, Fail, Record
<1>13. CASE WaitForSocket(s)
  BY <1>13 DEF WaitForSocket, At, Goto, Fail
<1>14. CASE SendPut(s)
  BY <1>14 DEF SendPut, At, Goto, Fail
<1>15. CASE AwaitPut(s)
  BY <1>15, AwaitPutSteps
<1>16. CASE PutTimeout(s)
  BY <1>16 DEF PutTimeout, At, Goto, Fail
<1>17. CASE DropLocals(s)
  BY <1>17 DEF DropLocals, At, Goto
<1>18. CASE KillVmm(s)
  BY <1>18 DEF KillVmm, At, Goto, Take
<1>19. CASE DeleteCgroup(s)
  BY <1>19 DEF DeleteCgroup, At, Goto, Take, Warn
<1>20. CASE ReleaseIp(s)
  BY <1>20 DEF ReleaseIp, At, Goto, Take
<1>21. CASE RemoveDm(s)
  BY <1>21 DEF RemoveDm, At, Goto, Take, Warn
<1>22. CASE DeleteThinId(s)
  BY <1>22 DEF DeleteThinId, Warn, At, Goto
<1>23. CASE RemoveJail(s)
  BY <1>23 DEF RemoveJail, At, Goto, Take, Warn
<1>24. CASE DropVm(s)
  BY <1>24 DEF DropVm, At, Goto
<1>25. CASE VmmListen(s)
  BY <1>25 DEF VmmListen
<1>26. CASE VmmServe(s)
  BY <1>26 DEF VmmServe
<1>27. CASE VmmExit(s)
  BY <1>27 DEF VmmExit
<1> QED
  BY <1>1, <1>2, <1>3, <1>4, <1>5, <1>6, <1>7, <1>8, <1>9, <1>10, <1>11, <1>12, <1>13,
     <1>14, <1>15, <1>16, <1>17, <1>18, <1>19, <1>20, <1>21, <1>22, <1>23, <1>24, <1>25,
     <1>26, <1>27 DEF Step, Provision, CleanUp, Vmm

\* So does InStep(t): no transition of the state machine is refused.
LEMMA InStepStep ==
  ASSUME ControlTypes, RecordTypes, ApiTypes, ProcTypes, NEW s \in Sessions,
         NEW t \in Sessions, Step(s), 
         Recorded(t), InStep(s), InStep(t)
  PROVE  InStep(t)'
<1> USE ProvisioningAssumption DEF InStep, Recorded, ControlTypes, RecordTypes, ProcTypes,
           Ended, 
           FromTap, FromIp, FromEbpf, FromCgroup, FromConf, FromJail, FromSpawn, FromSocket,
           host, vmms, proc, mem, recs, api
<1>1. CASE Launch(s)
  BY <1>1 DEF Launch, At, Goto, Enter, IsValidTransition
<1>2. CASE CreateSnap(s)
  BY <1>2 DEF CreateSnap, At, Goto, Fail
<1>3. CASE DmCreate(s)
  BY <1>3 DEF DmCreate, At, Goto, Fail
<1>4. CASE DmLoad(s)
  BY <1>4 DEF DmLoad, At, Goto, Fail
<1>5. CASE DmResume(s)
  BY <1>5 DEF DmResume, At, Goto, Enter, IsValidTransition, Fail, Record
<1>6. CASE TapCreate(s)
  BY <1>6 DEF TapCreate, At, Goto, Fail
<1>7. CASE AllocateIp(s)
  BY <1>7 DEF AllocateIp, At, Goto, Fail, Record
<1>8. CASE LoadEbpf(s)
  BY <1>8 DEF LoadEbpf, At, Goto, Enter, IsValidTransition, Fail
<1>9. CASE CreateCgroup(s)
  BY <1>9 DEF CreateCgroup, At, Goto, Fail, Record
<1>10. CASE ConfigureCgroup(s)
  BY <1>10 DEF ConfigureCgroup, At, Goto, Enter, IsValidTransition, Fail, Record
<1>11. CASE SetupJail(s)
  BY <1>11 DEF SetupJail, At, Goto, Fail
<1>12. CASE Spawn(s)
  BY <1>12 DEF Spawn, At, Goto, Enter, IsValidTransition, Fail, Record
<1>13. CASE WaitForSocket(s)
  BY <1>13 DEF WaitForSocket, At, Goto, Fail
<1>14. CASE SendPut(s)
  BY <1>14 DEF SendPut, At, Goto, Fail
<1>15. CASE AwaitPut(s)
  BY <1>15, AwaitPutSteps
<1>16. CASE PutTimeout(s)
  BY <1>16 DEF PutTimeout, At, Goto, Fail
<1>17. CASE DropLocals(s)
  BY <1>17 DEF DropLocals, At, Goto
<1>18. CASE KillVmm(s)
  BY <1>18 DEF KillVmm, At, Goto, Take
<1>19. CASE DeleteCgroup(s)
  BY <1>19 DEF DeleteCgroup, At, Goto, Take, Warn
<1>20. CASE ReleaseIp(s)
  BY <1>20 DEF ReleaseIp, At, Goto, Take
<1>21. CASE RemoveDm(s)
  BY <1>21 DEF RemoveDm, At, Goto, Take, Warn
<1>22. CASE DeleteThinId(s)
  BY <1>22 DEF DeleteThinId, Warn, At, Goto
<1>23. CASE RemoveJail(s)
  BY <1>23 DEF RemoveJail, At, Goto, Take, Warn
<1>24. CASE DropVm(s)
  BY <1>24 DEF DropVm, At, Goto
<1>25. CASE VmmListen(s)
  BY <1>25 DEF VmmListen
<1>26. CASE VmmServe(s)
  BY <1>26 DEF VmmServe
<1>27. CASE VmmExit(s)
  BY <1>27 DEF VmmExit
<1> QED
  BY <1>1, <1>2, <1>3, <1>4, <1>5, <1>6, <1>7, <1>8, <1>9, <1>10, <1>11, <1>12, <1>13,
     <1>14, <1>15, <1>16, <1>17, <1>18, <1>19, <1>20, <1>21, <1>22, <1>23, <1>24, <1>25,
     <1>26, <1>27 DEF Step, Provision, CleanUp, Vmm

\* And Served(t).
LEMMA ServedStep ==
  ASSUME ControlTypes, RecordTypes, ApiTypes, VmmTypes, NEW s \in Sessions,
         NEW t \in Sessions, Step(s), 
         Recorded(s), Recorded(t), InStep(s), Served(s), Served(t), OwnsJail(s)
  PROVE  Served(t)'
<1> USE ProvisioningAssumption DEF Served, Recorded, Alive, ControlTypes, RecordTypes,
           VmmTypes, Rollback, Ended, 
           FromTap, FromIp, FromEbpf, FromCgroup, FromConf, FromJail, FromSpawn, FromSocket,
           host, vmms, proc, mem, recs, api
<1>1. CASE Launch(s)
  BY <1>1 DEF Launch, At, Goto, Enter, IsValidTransition, ApiTypes, Api
<1>2. CASE CreateSnap(s)
  BY <1>2 DEF CreateSnap, At, Goto, Fail, ApiTypes, Api
<1>3. CASE DmCreate(s)
  BY <1>3 DEF DmCreate, At, Goto, Fail, ApiTypes, Api
<1>4. CASE DmLoad(s)
  BY <1>4 DEF DmLoad, At, Goto, Fail, ApiTypes, Api
<1>5. CASE DmResume(s)
  BY <1>5 DEF DmResume, At, Goto, Enter, IsValidTransition, Fail, Record, ApiTypes, Api
<1>6. CASE TapCreate(s)
  BY <1>6 DEF TapCreate, At, Goto, Fail, ApiTypes, Api
<1>7. CASE AllocateIp(s)
  BY <1>7 DEF AllocateIp, At, Goto, Fail, Record, ApiTypes, Api
<1>8. CASE LoadEbpf(s)
  BY <1>8 DEF LoadEbpf, At, Goto, Enter, IsValidTransition, Fail, ApiTypes, Api
<1>9. CASE CreateCgroup(s)
  BY <1>9 DEF CreateCgroup, At, Goto, Fail, Record, ApiTypes, Api
<1>10. CASE ConfigureCgroup(s)
  BY <1>10 DEF ConfigureCgroup, At, Goto, Enter, IsValidTransition, Fail, Record, ApiTypes,
     Api
<1>11. CASE SetupJail(s)
  BY <1>11 DEF SetupJail, At, Goto, Fail, ApiTypes, Api
<1>12. CASE Spawn(s)
  BY <1>12 DEF Spawn, At, Goto, Enter, IsValidTransition, Fail, Record, ApiTypes, Api
<1>13. CASE WaitForSocket(s)
  BY <1>13 DEF WaitForSocket, At, Goto, Fail, ApiTypes, Api
<1>14. CASE SendPut(s)
  BY <1>14, ApiIs DEF SendPut, At, Goto, Fail, ApiTypes, OwnsJail
<1>15. CASE AwaitPut(s)
  BY <1>15, AwaitPutSteps, ApiIs DEF ApiTypes
<1>16. CASE PutTimeout(s)
  BY <1>16 DEF PutTimeout, At, Goto, Fail, ApiTypes, Api
<1>17. CASE DropLocals(s)
  BY <1>17 DEF DropLocals, At, Goto, ApiTypes, Api
<1>18. CASE KillVmm(s)
  BY <1>18 DEF KillVmm, At, Goto, Take, ApiTypes, Api
<1>19. CASE DeleteCgroup(s)
  BY <1>19 DEF DeleteCgroup, At, Goto, Take, Warn, ApiTypes, Api
<1>20. CASE ReleaseIp(s)
  BY <1>20 DEF ReleaseIp, At, Goto, Take, ApiTypes, Api
<1>21. CASE RemoveDm(s)
  BY <1>21 DEF RemoveDm, At, Goto, Take, ApiTypes, Api
<1>22. CASE DeleteThinId(s)
  BY <1>22 DEF DeleteThinId, Warn, At, Goto, ApiTypes, Api
<1>23. CASE RemoveJail(s)
  BY <1>23 DEF RemoveJail, At, Goto, Take, Warn, ApiTypes, Api
<1>24. CASE DropVm(s)
  BY <1>24 DEF DropVm, At, Goto, ApiTypes, Api
<1>25. CASE VmmListen(s)
  <2>1. /\ vmm[s] = "starting" /\ vmm' = [vmm EXCEPT ![s] = "listening"]
        /\ UNCHANGED <<opened, pc, ctx, locals, put, req, peer>>
    BY <1>25 DEF VmmListen
  <2> QED
    BY <2>1, ApiIs DEF ApiTypes
<1>26. CASE VmmServe(s)
  <2>1. peer[s] = s /\ put[s] \in 1 .. 6
    BY <1>26, ApiIs DEF VmmServe, ApiTypes
  <2>2. /\ vmm[s] = "listening" /\ req[s] = "sent"
        /\ UNCHANGED <<vmm, pc, ctx, locals, put, peer>>
        /\ \/ /\ req' = [req EXCEPT ![s] = "ok"]
              /\ opened' = [opened EXCEPT ![s] = opened[s] \cup
                               (IF put[s] = 3 THEN {"rootfs"} ELSE IF put[s] = 5 THEN {"tap"} ELSE {})]
           \/ req' = [req EXCEPT ![s] = "err"] /\ UNCHANGED opened
    <3>1. (Api[put[s]] = "rootfs" <=> put[s] = 3) /\ (Api[put[s]] = "network" <=> put[s] = 5)
      BY <2>1, ApiIs
    <3>2. CASE put[s] = 3
      BY <1>26, <2>1, <3>1, <3>2 DEF VmmServe
    <3>3. CASE put[s] = 5
      BY <1>26, <2>1, <3>1, <3>3 DEF VmmServe
    <3>4. CASE put[s] # 3 /\ put[s] # 5
      BY <1>26, <2>1, <3>1, <3>4 DEF VmmServe
    <3> QED
      BY <3>2, <3>3, <3>4
  <2>3. CASE t # s
    BY <2>1, <2>2, <2>3 DEF ApiTypes
  <2>4. CASE t = s
    <3>1. opened[s] \subseteq {"rootfs", "tap"}
      OBVIOUS
    <3>2. CASE req' = [req EXCEPT ![s] = "err"] /\ UNCHANGED opened
      BY <2>1, <2>2, <2>4, <3>2 DEF ApiTypes
    <3>3. CASE put[s] = 3 /\ req' = [req EXCEPT ![s] = "ok"]
      BY <2>1, <2>2, <2>4, <3>3 DEF ApiTypes
    <3>4. CASE put[s] = 5 /\ req' = [req EXCEPT ![s] = "ok"]
      BY <2>1, <2>2, <2>4, <3>4 DEF ApiTypes
    <3>5. CASE put[s] # 3 /\ put[s] # 5 /\ req' = [req EXCEPT ![s] = "ok"]
      BY <2>1, <2>2, <2>4, <3>5 DEF ApiTypes
    <3> QED
      BY <2>2, <3>2, <3>3, <3>4, <3>5
  <2> QED
    BY <2>3, <2>4
<1>27. CASE VmmExit(s)
  BY <1>27 DEF VmmExit, ApiTypes, Api
<1> QED
  BY <1>1, <1>2, <1>3, <1>4, <1>5, <1>6, <1>7, <1>8, <1>9, <1>10, <1>11, <1>12, <1>13,
     <1>14, <1>15, <1>16, <1>17, <1>18, <1>19, <1>20, <1>21, <1>22, <1>23, <1>24, <1>25,
     <1>26, <1>27 DEF Step, Provision, CleanUp, Vmm

-----------------------------------------------------------------------------
(* The lock on the id, and what it protects.                               *)

\* Two launches of one id do not both have the lock: the device says whose it is.
LEMMA LockIsExclusive ==
  ASSUME NEW s \in Sessions, NEW t \in Sessions, OwnsDisk(s), OwnsDisk(t)
  PROVE  OneHolder(s, t)
BY DEF OneHolder, Holds, OwnsDisk, Mapped

\* The storage of t stays its own.
LEMMA OwnsDiskStep ==
  ASSUME ControlTypes, RecordTypes, ApiTypes, VmmTypes, DiskTypes, NEW s \in Sessions,
         NEW t \in Sessions, Step(s), 
         Recorded(s), Recorded(t), Served(s), Served(t), OwnsDisk(s), OwnsDisk(t),
         LeavesDisk(s), LeavesDisk(t), InStep(s), OneHolder(s, t)
  PROVE  OwnsDisk(t)'
<1> USE ProvisioningAssumption DEF OwnsDisk, Recorded, Served, HasThinId, Mapped, NoDm,
           Alive, OneHolder, Holds, 
           ControlTypes, RecordTypes, VmmTypes, DiskTypes, Rollback, Ended,
           FromTap, FromIp, FromEbpf, FromCgroup, FromConf, FromJail, FromSpawn, FromSocket,
           host, vmms, proc, mem, recs, api
<1>1. CASE Launch(s)
  BY <1>1 DEF Launch, At, Goto, Enter, LeavesDisk
<1>2. CASE CreateSnap(s)
  BY <1>2 DEF CreateSnap, At, Goto, Fail, LeavesDisk
<1>3. CASE DmCreate(s)
  BY <1>3 DEF DmCreate, At, Goto, Fail, LeavesDisk
<1>4. CASE DmLoad(s)
  BY <1>4, LoadSteps
<1>5. CASE DmResume(s)
  BY <1>5, ResumeSteps
<1>6. CASE TapCreate(s)
  BY <1>6 DEF TapCreate, At, Goto, Fail
<1>7. CASE AllocateIp(s)
  BY <1>7 DEF AllocateIp, At, Goto, Fail, Record
<1>8. CASE LoadEbpf(s)
  BY <1>8 DEF LoadEbpf, At, Goto, Enter, IsValidTransition, Fail
<1>9. CASE CreateCgroup(s)
  BY <1>9 DEF CreateCgroup, At, Goto, Fail, Record
<1>10. CASE ConfigureCgroup(s)
  BY <1>10 DEF ConfigureCgroup, At, Goto, Enter, IsValidTransition, Fail, Record
<1>11. CASE SetupJail(s)
  BY <1>11 DEF SetupJail, At, Goto, Fail
<1>12. CASE Spawn(s)
  BY <1>12 DEF Spawn, At, Goto, Enter, IsValidTransition, Fail, Record
<1>13. CASE WaitForSocket(s)
  BY <1>13 DEF WaitForSocket, At, Goto, Fail
<1>14. CASE SendPut(s)
  BY <1>14 DEF SendPut, At, Goto, Fail
<1>15. CASE AwaitPut(s)
  BY <1>15, AwaitPutSteps
<1>16. CASE PutTimeout(s)
  BY <1>16 DEF PutTimeout, At, Goto, Fail
<1>17. CASE DropLocals(s)
  BY <1>17 DEF DropLocals, At, Goto
<1>18. CASE KillVmm(s)
  BY <1>18 DEF KillVmm, At, Goto, Take
<1>19. CASE DeleteCgroup(s)
  BY <1>19 DEF DeleteCgroup, At, Goto, Take, Warn
<1>20. CASE ReleaseIp(s)
  BY <1>20 DEF ReleaseIp, At, Goto, Take
<1>21. CASE RemoveDm(s)
  BY <1>21 DEF RemoveDm, At, Goto, Take, DmBusy
<1>22. CASE DeleteThinId(s)
  BY <1>22 DEF DeleteThinId, Warn, At, Goto
<1>23. CASE RemoveJail(s)
  BY <1>23 DEF RemoveJail, At, Goto, Take, Warn
<1>24. CASE DropVm(s)
  BY <1>24 DEF DropVm, At, Goto
<1>25. CASE VmmListen(s)
  BY <1>25 DEF VmmListen
<1>26. CASE VmmServe(s)
  BY <1>26 DEF VmmServe
<1>27. CASE VmmExit(s)
  BY <1>27 DEF VmmExit
<1> QED
  BY <1>1, <1>2, <1>3, <1>4, <1>5, <1>6, <1>7, <1>8, <1>9, <1>10, <1>11, <1>12, <1>13,
     <1>14, <1>15, <1>16, <1>17, <1>18, <1>19, <1>20, <1>21, <1>22, <1>23, <1>24, <1>25,
     <1>26, <1>27 DEF Step, Provision, CleanUp, Vmm

\* Every device stays on a thin id of the launch that made it.
LEMMA DevicesStep ==
  ASSUME ControlTypes, RecordTypes, DiskTypes, NEW s \in Sessions, Step(s),
         DevicesInv, Recorded(s), InStep(s), OwnsDisk(s), LeavesDisk(s)
  PROVE  DevicesInv'
<1> USE ProvisioningAssumption DEF DevicesInv, OwnsDisk, Recorded, HasThinId, Mapped, NoDm,
           ControlTypes, RecordTypes, DiskTypes,
           FromTap, FromIp, FromEbpf, FromCgroup, FromConf, FromJail, FromSpawn, FromSocket,
           host, vmms, proc, mem, recs, api
<1>1. CASE Launch(s)
  BY <1>1 DEF Launch, At, Goto, Enter, IsValidTransition
<1>2. CASE CreateSnap(s)
  <2>1. \A i \in Ids : dm[i].dev # 0 => dm[i].dev \in DevIds /\ pool[dm[i].dev] # NoOne
    BY DEF DmDevs
  <2> QED
    BY <1>2, <2>1 DEF CreateSnap, At, Goto, Fail
<1>3. CASE DmCreate(s)
  BY <1>3 DEF DmCreate, At, Goto, Fail
<1>4. CASE DmLoad(s)
  BY <1>4, LoadSteps
<1>5. CASE DmResume(s)
  BY <1>5, ResumeSteps
<1>6. CASE TapCreate(s)
  BY <1>6 DEF TapCreate, At, Goto, Fail
<1>7. CASE AllocateIp(s)
  BY <1>7 DEF AllocateIp, At, Goto, Fail, Record
<1>8. CASE LoadEbpf(s)
  BY <1>8 DEF LoadEbpf, At, Goto, Enter, IsValidTransition, Fail
<1>9. CASE CreateCgroup(s)
  BY <1>9 DEF CreateCgroup, At, Goto, Fail, Record
<1>10. CASE ConfigureCgroup(s)
  BY <1>10 DEF ConfigureCgroup, At, Goto, Enter, IsValidTransition, Fail, Record
<1>11. CASE SetupJail(s)
  BY <1>11 DEF SetupJail, At, Goto, Fail
<1>12. CASE Spawn(s)
  BY <1>12 DEF Spawn, At, Goto, Enter, IsValidTransition, Fail, Record
<1>13. CASE WaitForSocket(s)
  BY <1>13 DEF WaitForSocket, At, Goto, Fail
<1>14. CASE SendPut(s)
  BY <1>14 DEF SendPut, At, Goto, Fail
<1>15. CASE AwaitPut(s)
  BY <1>15 DEF AwaitPut, At, Goto, Enter, IsValidTransition, Fail
<1>16. CASE PutTimeout(s)
  BY <1>16 DEF PutTimeout, At, Goto, Fail
<1>17. CASE DropLocals(s)
  BY <1>17 DEF DropLocals, At, Goto
<1>18. CASE KillVmm(s)
  BY <1>18 DEF KillVmm, At, Goto, Take
<1>19. CASE DeleteCgroup(s)
  BY <1>19 DEF DeleteCgroup, At, Goto, Take, Warn
<1>20. CASE ReleaseIp(s)
  BY <1>20 DEF ReleaseIp, At, Goto, Take
<1>21. CASE RemoveDm(s)
  BY <1>21 DEF RemoveDm, At, Goto, Take, Warn
<1>22. CASE DeleteThinId(s)
  <2>1. CASE UNCHANGED pool
    BY <1>22, <2>1 DEF DeleteThinId
  <2>2. CASE pool' = [pool EXCEPT ![dev[s]] = NoOne]
    BY <1>22, <2>2 DEF DeleteThinId, At, Goto, LeavesDisk
  <2> QED
    BY <1>22, <2>1, <2>2 DEF DeleteThinId
<1>23. CASE RemoveJail(s)
  BY <1>23 DEF RemoveJail, At, Goto, Take, Warn
<1>24. CASE DropVm(s)
  BY <1>24 DEF DropVm, At, Goto
<1>25. CASE VmmListen(s)
  BY <1>25 DEF VmmListen
<1>26. CASE VmmServe(s)
  BY <1>26 DEF VmmServe
<1>27. CASE VmmExit(s)
  BY <1>27 DEF VmmExit
<1> QED
  BY <1>1, <1>2, <1>3, <1>4, <1>5, <1>6, <1>7, <1>8, <1>9, <1>10, <1>11, <1>12, <1>13,
     <1>14, <1>15, <1>16, <1>17, <1>18, <1>19, <1>20, <1>21, <1>22, <1>23, <1>24, <1>25,
     <1>26, <1>27 DEF Step, Provision, CleanUp, Vmm

\* A rollback before the request for the rootfs leaves no thin id and no device.
LEMMA LeavesDiskStep ==
  ASSUME warned \in [Sessions -> SUBSET {"cgroup", "snapshot", "jail"}],
         ControlTypes, RecordTypes, ApiTypes, VmmTypes, DiskTypes, NEW s \in Sessions,
         NEW t \in Sessions, Step(s), 
         Recorded(s), Recorded(t), Served(s), Served(t), OwnsDisk(s), OwnsDisk(t),
         LeavesDisk(s), LeavesDisk(t), 
         InStep(s), InStep(t), OneHolder(s, t), \A v \in Sessions : OwnsDisk(v) /\ Served(v)
  PROVE  LeavesDisk(t)'
<1> USE ProvisioningAssumption DEF LeavesDisk, ControlTypes, RecordTypes, DiskTypes,
           Rollback, Ended, 
           host, vmms, proc, mem, recs, api
<1>1. CASE Launch(s)
  BY <1>1 DEF Launch, At, Goto, Enter, IsValidTransition
<1>2. CASE CreateSnap(s)
  BY <1>2 DEF CreateSnap, At, Goto, Fail
<1>3. CASE DmCreate(s)
  <2>1. CASE t = s
    BY <1>3, <2>1 DEF DmCreate, At, Goto, Fail
  <2>2. CASE t # s
    <3>1. UNCHANGED <<pool, warned, st[t], pc[t], dev[t], put[t]>>
      BY <1>3, <2>2 DEF DmCreate, At, Goto, Fail
    <3>2. \A i \in Ids : dm'[i].by = t => dm[i].by = t
      BY <1>3, <2>2 DEF DmCreate, Fail
    <3> QED
      BY <3>1, <3>2
  <2> QED
    BY <2>1, <2>2
<1>4. CASE DmLoad(s)
  BY <1>4, LoadSteps
<1>5. CASE DmResume(s)
  BY <1>5, ResumeSteps
<1>6. CASE TapCreate(s)
  BY <1>6 DEF TapCreate, At, Goto, Fail
<1>7. CASE AllocateIp(s)
  BY <1>7 DEF AllocateIp, At, Goto, Fail, Record
<1>8. CASE LoadEbpf(s)
  BY <1>8 DEF LoadEbpf, At, Goto, Enter, IsValidTransition, Fail
<1>9. CASE CreateCgroup(s)
  BY <1>9 DEF CreateCgroup, At, Goto, Fail, Record
<1>10. CASE ConfigureCgroup(s)
  BY <1>10 DEF ConfigureCgroup, At, Goto, Enter, IsValidTransition, Fail, Record
<1>11. CASE SetupJail(s)
  BY <1>11 DEF SetupJail, At, Goto, Fail
<1>12. CASE Spawn(s)
  BY <1>12 DEF Spawn, At, Goto, Enter, IsValidTransition, Fail, Record
<1>13. CASE WaitForSocket(s)
  BY <1>13 DEF WaitForSocket, At, Goto, Fail
<1>14. CASE SendPut(s)
  BY <1>14 DEF SendPut, At, Goto, Fail
<1>15. CASE AwaitPut(s)
  <2>1. UNCHANGED <<pool, dm, dev, warned>>
    BY <1>15 DEF AwaitPut
  <2>2. CASE t = s
    BY <1>15, <2>1, <2>2, AwaitPutSteps
  <2>3. CASE t # s
    <3>1. st'[t] = st[t] /\ pc'[t] = pc[t] /\ put'[t] = put[t]
      BY <1>15, <2>3 DEF AwaitPut, At, Enter, Goto, Fail, ApiTypes
    <3> QED
      BY <2>1, <3>1
  <2> QED
    BY <2>2, <2>3
<1>16. CASE PutTimeout(s)
  BY <1>16 DEF PutTimeout, At, Goto, Fail
<1>17. CASE DropLocals(s)
  BY <1>17 DEF DropLocals, At, Goto
<1>18. CASE KillVmm(s)
  BY <1>18 DEF KillVmm, At, Goto, Take
<1>19. CASE DeleteCgroup(s)
  BY <1>19 DEF DeleteCgroup, At, Goto, Take, Warn
<1>20. CASE ReleaseIp(s)
  BY <1>20 DEF ReleaseIp, At, Goto, Take
<1>21. CASE RemoveDm(s)
  <2>2. "snapshot" \in ctx[s] \/ st[s] = "ProvisioningStorage"
    BY <1>21 DEF RemoveDm, At, InStep
  <2>4. CASE t # s
    BY <1>21, <2>4 DEF RemoveDm, At, Goto, Take, NoDm, Warn
  <2>5. CASE t = s
    BY <1>21, <2>2, <2>5 DEF RemoveDm, At, Goto, Take, NoDm, Warn
  <2> QED
    BY <2>4, <2>5
<1>22. CASE DeleteThinId(s)
  BY <1>22 DEF DeleteThinId, Warn, At, Goto, OwnsDisk
<1>23. CASE RemoveJail(s)
  BY <1>23 DEF RemoveJail, At, Goto, Take, Warn
<1>24. CASE DropVm(s)
  BY <1>24 DEF DropVm, At, Goto
<1>25. CASE VmmListen(s)
  BY <1>25 DEF VmmListen
<1>26. CASE VmmServe(s)
  BY <1>26 DEF VmmServe
<1>27. CASE VmmExit(s)
  BY <1>27 DEF VmmExit
<1> QED
  BY <1>1, <1>2, <1>3, <1>4, <1>5, <1>6, <1>7, <1>8, <1>9, <1>10, <1>11, <1>12, <1>13,
     <1>14, <1>15, <1>16, <1>17, <1>18, <1>19, <1>20, <1>21, <1>22, <1>23, <1>24, <1>25,
     <1>26, <1>27 DEF Step, Provision, CleanUp, Vmm

\* The cgroup of t is its own until its rollback deletes it.
LEMMA OwnsCgroupStep ==
  ASSUME warned \in [Sessions -> SUBSET {"cgroup", "snapshot", "jail"}],
         ControlTypes, RecordTypes, LinkTypes, ApiTypes, NEW s \in Sessions,
         NEW t \in Sessions, Step(s), 
         Recorded(s), Recorded(t), OwnsCgroup(s), OwnsCgroup(t), InStep(s), OneHolder(s, t)
  PROVE  OwnsCgroup(t)'
<1> USE ProvisioningAssumption DEF OwnsCgroup, Recorded, OneHolder, Holds, ControlTypes,
           RecordTypes, LinkTypes, Rollback,
           FromTap, FromIp, FromEbpf, FromCgroup, FromConf, FromJail, FromSpawn, FromSocket,
           host, vmms, proc, mem, recs, api
<1>1. CASE Launch(s)
  BY <1>1 DEF Launch, At, Goto, Enter, IsValidTransition
<1>2. CASE CreateSnap(s)
  BY <1>2 DEF CreateSnap, At, Goto, Fail
<1>3. CASE DmCreate(s)
  BY <1>3 DEF DmCreate, At, Goto, Fail
<1>4. CASE DmLoad(s)
  BY <1>4 DEF DmLoad, At, Goto, Fail
<1>5. CASE DmResume(s)
  BY <1>5 DEF DmResume, At, Goto, Enter, IsValidTransition, Fail, Record
<1>6. CASE TapCreate(s)
  BY <1>6 DEF TapCreate, At, Goto, Fail
<1>7. CASE AllocateIp(s)
  BY <1>7 DEF AllocateIp, At, Goto, Fail, Record
<1>8. CASE LoadEbpf(s)
  BY <1>8 DEF LoadEbpf, At, Goto, Enter, IsValidTransition, Fail
<1>9. CASE CreateCgroup(s)
  BY <1>9 DEF CreateCgroup, At, Goto, Fail, Record
<1>10. CASE ConfigureCgroup(s)
  BY <1>10 DEF ConfigureCgroup, At, Goto, Enter, IsValidTransition, Fail, Record
<1>11. CASE SetupJail(s)
  BY <1>11 DEF SetupJail, At, Goto, Fail
<1>12. CASE Spawn(s)
  BY <1>12 DEF Spawn, At, Goto, Enter, IsValidTransition, Fail, Record
<1>13. CASE WaitForSocket(s)
  BY <1>13 DEF WaitForSocket, At, Goto, Fail
<1>14. CASE SendPut(s)
  BY <1>14 DEF SendPut, At, Goto, Fail
<1>15. CASE AwaitPut(s)
  BY <1>15, AwaitPutSteps
<1>16. CASE PutTimeout(s)
  BY <1>16 DEF PutTimeout, At, Goto, Fail
<1>17. CASE DropLocals(s)
  BY <1>17 DEF DropLocals, At, Goto
<1>18. CASE KillVmm(s)
  BY <1>18 DEF KillVmm, At, Goto, Take
<1>19. CASE DeleteCgroup(s)
  BY <1>19 DEF DeleteCgroup, At, Goto, Take, Warn
<1>20. CASE ReleaseIp(s)
  BY <1>20 DEF ReleaseIp, At, Goto, Take
<1>21. CASE RemoveDm(s)
  BY <1>21 DEF RemoveDm, At, Goto, Take, Warn
<1>22. CASE DeleteThinId(s)
  BY <1>22 DEF DeleteThinId, Warn, At, Goto
<1>23. CASE RemoveJail(s)
  BY <1>23 DEF RemoveJail, At, Goto, Take, Warn
<1>24. CASE DropVm(s)
  BY <1>24 DEF DropVm, At, Goto
<1>25. CASE VmmListen(s)
  BY <1>25 DEF VmmListen
<1>26. CASE VmmServe(s)
  BY <1>26 DEF VmmServe
<1>27. CASE VmmExit(s)
  BY <1>27 DEF VmmExit
<1> QED
  BY <1>1, <1>2, <1>3, <1>4, <1>5, <1>6, <1>7, <1>8, <1>9, <1>10, <1>11, <1>12, <1>13,
     <1>14, <1>15, <1>16, <1>17, <1>18, <1>19, <1>20, <1>21, <1>22, <1>23, <1>24, <1>25,
     <1>26, <1>27 DEF Step, Provision, CleanUp, Vmm

\* And so is its jail, with the socket in it.
LEMMA OwnsJailStep ==
  ASSUME warned \in [Sessions -> SUBSET {"cgroup", "snapshot", "jail"}],
         ControlTypes, RecordTypes, LinkTypes, ApiTypes, NEW s \in Sessions,
         NEW t \in Sessions, Step(s), 
         Recorded(s), Recorded(t), OwnsJail(s), OwnsJail(t), InStep(s), OneHolder(s, t)
  PROVE  OwnsJail(t)'
<1> USE ProvisioningAssumption DEF OwnsJail, Recorded, OneHolder, Holds, NoJail, Rollback,
           ControlTypes, RecordTypes, LinkTypes,
           FromTap, FromIp, FromEbpf, FromCgroup, FromConf, FromJail, FromSpawn, FromSocket,
           host, vmms, proc, mem, recs, api
<1>1. CASE Launch(s)
  BY <1>1 DEF Launch, At, Goto, Enter, IsValidTransition
<1>2. CASE CreateSnap(s)
  BY <1>2 DEF CreateSnap, At, Goto, Fail
<1>3. CASE DmCreate(s)
  BY <1>3 DEF DmCreate, At, Goto, Fail
<1>4. CASE DmLoad(s)
  BY <1>4 DEF DmLoad, At, Goto, Fail
<1>5. CASE DmResume(s)
  BY <1>5 DEF DmResume, At, Goto, Enter, IsValidTransition, Fail, Record
<1>6. CASE TapCreate(s)
  BY <1>6 DEF TapCreate, At, Goto, Fail
<1>7. CASE AllocateIp(s)
  BY <1>7 DEF AllocateIp, At, Goto, Fail, Record
<1>8. CASE LoadEbpf(s)
  BY <1>8 DEF LoadEbpf, At, Goto, Enter, IsValidTransition, Fail
<1>9. CASE CreateCgroup(s)
  BY <1>9 DEF CreateCgroup, At, Goto, Fail, Record
<1>10. CASE ConfigureCgroup(s)
  BY <1>10 DEF ConfigureCgroup, At, Goto, Enter, IsValidTransition, Fail, Record
<1>11. CASE SetupJail(s)
  BY <1>11 DEF SetupJail, At, Goto, Fail
<1>12. CASE Spawn(s)
  BY <1>12 DEF Spawn, At, Goto, Enter, IsValidTransition, Fail, Record
<1>13. CASE WaitForSocket(s)
  BY <1>13 DEF WaitForSocket, At, Goto, Fail
<1>14. CASE SendPut(s)
  BY <1>14 DEF SendPut, At, Goto, Fail
<1>15. CASE AwaitPut(s)
  BY <1>15, AwaitPutSteps
<1>16. CASE PutTimeout(s)
  BY <1>16 DEF PutTimeout, At, Goto, Fail
<1>17. CASE DropLocals(s)
  BY <1>17 DEF DropLocals, At, Goto
<1>18. CASE KillVmm(s)
  BY <1>18 DEF KillVmm, At, Goto, Take
<1>19. CASE DeleteCgroup(s)
  BY <1>19 DEF DeleteCgroup, At, Goto, Take, Warn
<1>20. CASE ReleaseIp(s)
  BY <1>20 DEF ReleaseIp, At, Goto, Take
<1>21. CASE RemoveDm(s)
  BY <1>21 DEF RemoveDm, At, Goto, Take, Warn
<1>22. CASE DeleteThinId(s)
  BY <1>22 DEF DeleteThinId, Warn, At, Goto
<1>23. CASE RemoveJail(s)
  BY <1>23 DEF RemoveJail, At, Goto, Take, Warn
<1>24. CASE DropVm(s)
  BY <1>24 DEF DropVm, At, Goto
<1>25. CASE VmmListen(s)
  BY <1>25, ListenSteps DEF VmmListen
<1>26. CASE VmmServe(s)
  BY <1>26 DEF VmmServe
<1>27. CASE VmmExit(s)
  BY <1>27 DEF VmmExit
<1> QED
  BY <1>1, <1>2, <1>3, <1>4, <1>5, <1>6, <1>7, <1>8, <1>9, <1>10, <1>11, <1>12, <1>13,
     <1>14, <1>15, <1>16, <1>17, <1>18, <1>19, <1>20, <1>21, <1>22, <1>23, <1>24, <1>25,
     <1>26, <1>27 DEF Step, Provision, CleanUp, Vmm

-----------------------------------------------------------------------------
(* Address slots.                                                          *)

\* A step that leaves the slots and their holders alone.
LEMMA SlotsKept ==
  ASSUME SlotsMatchLaunches, UNCHANGED <<bits, ip, orch>>,
         \A u \in Sessions : HasIp(u)' <=> HasIp(u),
         \A u \in Sessions : pc[u] = "dropped" => pc'[u] = "dropped"
  PROVE  SlotsMatchLaunches'
<1>1. \A u, v \in Sessions : (u # v /\ HasIp(u)' /\ HasIp(v)') => ip'[u] # ip'[v]
  BY DEF SlotsMatchLaunches
<1>2. orch' = "up" => \A i \in bits' : \E u \in Sessions :
                          ip'[u] = i /\ (HasIp(u)' \/ pc'[u] = "dropped")
  BY DEF SlotsMatchLaunches
<1>3. \A u \in Sessions : HasIp(u)' => ip'[u] \in bits'
  BY DEF SlotsMatchLaunches
<1> QED
  BY <1>1, <1>2, <1>3 DEF SlotsMatchLaunches

\* The other steps leave the slots and their holders alone.
LEMMA HoldersKept ==
  ASSUME ControlTypes, RecordTypes, ApiTypes, NEW s \in Sessions, NEW u \in Sessions,
         Step(s), 
         ~(AllocateIp(s) \/ ReleaseIp(s) \/ DropVm(s)), Recorded(s), InStep(s)
  PROVE  /\ HasIp(u)' <=> HasIp(u)
         /\ pc[u] = "dropped" => pc'[u] = "dropped"
         /\ UNCHANGED <<bits, ip, orch>>
<1> USE ProvisioningAssumption DEF HasIp, Recorded, Rollback, ControlTypes, RecordTypes,
           FromTap, FromIp, FromEbpf, FromCgroup, FromConf, FromJail, FromSpawn, FromSocket,
           host, vmms, proc, mem, recs, api
<1>1. CASE Launch(s)
  BY <1>1 DEF Launch, At, Goto, Enter, IsValidTransition
<1>2. CASE CreateSnap(s)
  BY <1>2 DEF CreateSnap, At, Goto, Fail
<1>3. CASE DmCreate(s)
  BY <1>3 DEF DmCreate, At, Goto, Fail
<1>4. CASE DmLoad(s)
  BY <1>4 DEF DmLoad, At, Goto, Fail
<1>5. CASE DmResume(s)
  BY <1>5 DEF DmResume, At, Goto, Enter, IsValidTransition, Fail, Record
<1>6. CASE TapCreate(s)
  BY <1>6 DEF TapCreate, At, Goto, Fail
<1>7. CASE AllocateIp(s)
  BY <1>7 DEF AllocateIp, At, Goto, Fail, Record
<1>8. CASE LoadEbpf(s)
  BY <1>8 DEF LoadEbpf, At, Goto, Enter, IsValidTransition, Fail
<1>9. CASE CreateCgroup(s)
  BY <1>9 DEF CreateCgroup, At, Goto, Fail, Record
<1>10. CASE ConfigureCgroup(s)
  BY <1>10 DEF ConfigureCgroup, At, Goto, Enter, IsValidTransition, Fail, Record
<1>11. CASE SetupJail(s)
  BY <1>11 DEF SetupJail, At, Goto, Fail
<1>12. CASE Spawn(s)
  BY <1>12 DEF Spawn, At, Goto, Enter, IsValidTransition, Fail, Record
<1>13. CASE WaitForSocket(s)
  BY <1>13 DEF WaitForSocket, At, Goto, Fail
<1>14. CASE SendPut(s)
  BY <1>14 DEF SendPut, At, Goto, Fail
<1>15. CASE AwaitPut(s)
  BY <1>15, AwaitPutSteps
<1>16. CASE PutTimeout(s)
  BY <1>16 DEF PutTimeout, At, Goto, Fail
<1>17. CASE DropLocals(s)
  BY <1>17 DEF DropLocals, At, Goto
<1>18. CASE KillVmm(s)
  BY <1>18 DEF KillVmm, At, Goto, Take
<1>19. CASE DeleteCgroup(s)
  BY <1>19 DEF DeleteCgroup, At, Goto, Take, Warn
<1>20. CASE ReleaseIp(s)
  BY <1>20 DEF ReleaseIp, At, Goto, Take
<1>21. CASE RemoveDm(s)
  BY <1>21 DEF RemoveDm, At, Goto, Take, Warn
<1>22. CASE DeleteThinId(s)
  BY <1>22 DEF DeleteThinId, Warn, At, Goto
<1>23. CASE RemoveJail(s)
  BY <1>23 DEF RemoveJail, At, Goto, Take, Warn
<1>24. CASE DropVm(s)
  BY <1>24 DEF DropVm, At, Goto
<1>25. CASE VmmListen(s)
  BY <1>25 DEF VmmListen
<1>26. CASE VmmServe(s)
  BY <1>26 DEF VmmServe
<1>27. CASE VmmExit(s)
  BY <1>27 DEF VmmExit
<1> QED
  BY <1>1, <1>2, <1>3, <1>4, <1>5, <1>6, <1>7, <1>8, <1>9, <1>10, <1>11, <1>12, <1>13,
     <1>14, <1>15, <1>16, <1>17, <1>18, <1>19, <1>20, <1>21, <1>22, <1>23, <1>24, <1>25,
     <1>26, <1>27 DEF Step, Provision, CleanUp, Vmm

\* No slot is given out twice and none is lost, whatever launch s does next.
LEMMA SlotsStep ==
  ASSUME ControlTypes, RecordTypes, ApiTypes, ProcTypes, NEW s \in Sessions, Step(s),
         SlotsMatchLaunches, \A u \in Sessions : Recorded(u) /\ InStep(u)
  PROVE  SlotsMatchLaunches'
<1> USE ProvisioningAssumption
<1>0. Recorded(s) /\ InStep(s)
  OBVIOUS
<1>1. CASE AllocateIp(s)
  <2>1. CASE NoneClear(bits) /\ Fail(s) /\ UNCHANGED <<bits, ip, ctx>>
    <3>1. ASSUME NEW u \in Sessions
          PROVE  /\ HasIp(u)' <=> HasIp(u)
                 /\ pc[u] = "dropped" => pc'[u] = "dropped"
      BY <1>1, <2>1 DEF AllocateIp, At, Fail, Goto, HasIp, ControlTypes, RecordTypes, proc
    <3> QED
      BY <1>1, <2>1, <3>1, SlotsKept DEF AllocateIp, proc
  <2>2. ASSUME NEW i \in Slots, LowestClear(bits, i), bits' = bits \cup {i},
               ip' = [ip EXCEPT ![s] = i], Record(s, "ip"), Goto(s, "ebpf")
        PROVE  SlotsMatchLaunches'
    <3>1. orch = "up" /\ orch' = "up" /\ pc[s] = "ip" /\ i \notin bits
      BY <1>1, <2>2 DEF AllocateIp, At, LowestClear, proc
    <3>2. ip'[s] = i /\ HasIp(s)' /\ \A u \in Sessions \ {s} : ip'[u] = ip[u] /\ pc'[u] = pc[u]
      BY <2>2, <3>1 DEF Record, Goto, HasIp, ControlTypes, RecordTypes
    <3>3. \A u \in Sessions \ {s} : HasIp(u)' <=> HasIp(u)
      BY <2>2, <3>1 DEF Record, Goto, HasIp, ControlTypes, RecordTypes
    <3>4. ~HasIp(s) /\ pc[s] # "dropped"
      BY <1>0, <3>1 DEF HasIp, Recorded, FromTap, FromIp, FromEbpf, FromCgroup, FromConf
    <3>5. \A u, v \in Sessions : (u # v /\ HasIp(u)' /\ HasIp(v)') => ip'[u] # ip'[v]
      BY <3>1, <3>2, <3>3, <3>4 DEF SlotsMatchLaunches
    <3>6. \A j \in bits' : \E u \in Sessions : ip'[u] = j /\ (HasIp(u)' \/ pc'[u] = "dropped")
      <4>1. ASSUME NEW j \in bits
            PROVE  \E u \in Sessions : ip'[u] = j /\ (HasIp(u)' \/ pc'[u] = "dropped")
        <5>1. PICK u \in Sessions : ip[u] = j /\ (HasIp(u) \/ pc[u] = "dropped")
          BY <3>1 DEF SlotsMatchLaunches
        <5>2. u # s
          BY <3>4, <5>1
        <5> QED
          BY <3>2, <3>3, <5>1, <5>2
      <4> QED
        BY <2>2, <3>2, <4>1
    <3>7. \A u \in Sessions : HasIp(u)' => ip'[u] \in bits'
      BY <2>2, <3>2, <3>3 DEF SlotsMatchLaunches
    <3> QED
      BY <3>5, <3>6, <3>7 DEF SlotsMatchLaunches
  <2> QED
    BY <1>1, <2>1, <2>2 DEF AllocateIp
<1>2. CASE ReleaseIp(s)
  <2>1. CASE "ip" \notin ctx[s]
    <3>1. ASSUME NEW u \in Sessions
          PROVE  /\ HasIp(u)' <=> HasIp(u)
                 /\ pc[u] = "dropped" => pc'[u] = "dropped"
      BY <1>2, <2>1 DEF ReleaseIp, At, Goto, Take, HasIp, ControlTypes, RecordTypes, proc
    <3> QED
      BY <1>2, <2>1, <3>1, SlotsKept DEF ReleaseIp, proc
  <2>2. CASE "ip" \in ctx[s]
    <3>1. orch = "up" /\ orch' = "up" /\ pc[s] = "release_ip" /\ HasIp(s)
      BY <1>2, <2>2 DEF ReleaseIp, At, HasIp, proc
    <3>2. UNCHANGED ip /\ ~HasIp(s)' /\ \A u \in Sessions \ {s} : pc'[u] = pc[u]
      BY <1>2 DEF ReleaseIp, Goto, Take, HasIp, ControlTypes, RecordTypes
    <3>3. \A u \in Sessions \ {s} : HasIp(u)' <=> HasIp(u)
      BY <1>2, <3>1 DEF ReleaseIp, Goto, Take, HasIp, ControlTypes, RecordTypes
    <3>4. bits' = bits \ {ip[s]}
      BY <1>2, <2>2, ClearedIp DEF ReleaseIp, ProcTypes, RecordTypes
    <3>5. \A u, v \in Sessions : (u # v /\ HasIp(u)' /\ HasIp(v)') => ip'[u] # ip'[v]
      BY <3>2, <3>3 DEF SlotsMatchLaunches
    <3>6. \A j \in bits' : \E u \in Sessions : ip'[u] = j /\ (HasIp(u)' \/ pc'[u] = "dropped")
      <4>1. ASSUME NEW j \in bits'
            PROVE  \E u \in Sessions : ip'[u] = j /\ (HasIp(u)' \/ pc'[u] = "dropped")
        <5>1. PICK u \in Sessions : ip[u] = j /\ (HasIp(u) \/ pc[u] = "dropped")
          BY <3>1, <3>4 DEF SlotsMatchLaunches
        <5>2. u # s
          BY <3>4, <5>1
        <5> QED
          BY <3>2, <3>3, <5>1, <5>2
      <4> QED
        BY <4>1
    <3>7. \A u \in Sessions : HasIp(u)' => ip'[u] \in bits'
      BY <3>1, <3>2, <3>3, <3>4 DEF SlotsMatchLaunches
    <3> QED
      BY <3>5, <3>6, <3>7 DEF SlotsMatchLaunches
  <2> QED
    BY <2>1, <2>2
<1>3. CASE DropVm(s)
  <2>1. /\ orch' = orch /\ UNCHANGED <<ip, bits>> /\ pc[s] = "running" /\ pc'[s] = "dropped"
        /\ \A u \in Sessions : HasIp(u)' => HasIp(u)
        /\ \A u \in Sessions \ {s} : (HasIp(u)' <=> HasIp(u)) /\ pc'[u] = pc[u]
    BY <1>3 DEF DropVm, At, Goto, HasIp, ControlTypes, proc, mem
  <2>2. orch = "up" => \A j \in bits' : \E u \in Sessions :
                           ip'[u] = j /\ (HasIp(u)' \/ pc'[u] = "dropped")
    <3>1. ASSUME orch = "up", NEW j \in bits
          PROVE  \E u \in Sessions : ip'[u] = j /\ (HasIp(u)' \/ pc'[u] = "dropped")
      <4>1. PICK u \in Sessions : ip[u] = j /\ (HasIp(u) \/ pc[u] = "dropped")
        BY <3>1 DEF SlotsMatchLaunches
      <4> QED
        BY <2>1, <4>1
    <3> QED
      BY <2>1, <3>1
  <2>3. \A u, v \in Sessions : (u # v /\ HasIp(u)' /\ HasIp(v)') => ip'[u] # ip'[v]
    BY <2>1 DEF SlotsMatchLaunches
  <2>4. \A u \in Sessions : HasIp(u)' => ip'[u] \in bits'
    BY <2>1 DEF SlotsMatchLaunches
  <2> QED
    BY <2>1, <2>2, <2>3, <2>4 DEF SlotsMatchLaunches
<1>4. CASE ~(AllocateIp(s) \/ ReleaseIp(s) \/ DropVm(s))
  BY <1>0, <1>4, HoldersKept, SlotsKept
<1> QED
  BY <1>1, <1>2, <1>3, <1>4

-----------------------------------------------------------------------------
(* Exit, crash and restart of the orchestrator.                            *)

\* They keep the types, a restart with the id counter at its first value.
LEMMA LifecycleTyped ==
  ASSUME TypeOK, Exit \/ Crash \/ Restart
  PROVE  TypeOK'
<1> USE ProvisioningAssumption DEF TypeOK
<1>1. FirstDev \in DevIds
  BY FS_CardinalityType DEF DevIds
<1>2. CASE Exit
  BY <1>2 DEF Exit, KillAll, host, mem, recs, api
<1>3. CASE Crash
  BY <1>3 DEF Crash, KillAll, host, mem, api, Ended
<1>4. CASE Restart
  BY <1>1, <1>4 DEF Restart, host, vmms, recs, api
<1> QED
  BY <1>2, <1>3, <1>4

\* What holds of each launch holds of what is left of it.
LEMMA LifecycleKeeps ==
  ASSUME ControlTypes, RecordTypes, VmmTypes, Exit \/ Crash \/ Restart, NEW t \in Sessions,
         Recorded(t), InStep(t), Served(t), OwnsDisk(t), LeavesDisk(t), OwnsCgroup(t),
         OwnsJail(t)
  PROVE  /\ Recorded(t)' /\ InStep(t)' /\ Served(t)' /\ OwnsDisk(t)' /\ LeavesDisk(t)'
         /\ OwnsCgroup(t)' /\ OwnsJail(t)'
<1> USE DEF ControlTypes, RecordTypes, VmmTypes, Exit, Crash, Restart, KillAll, Ended,
           Rollback, 
            host, vmms, proc, mem, recs, api,
            FromTap, FromIp, FromEbpf, FromCgroup, FromConf, FromJail, FromSpawn, FromSocket
<1>1. Recorded(t)'
  BY DEF Recorded
<1>2. InStep(t)'
  BY DEF InStep
<1>3. Served(t)'
  BY DEF Served, Alive
<1>4. OwnsDisk(t)'
  BY DEF OwnsDisk, HasThinId, Mapped, Alive
<1>5. LeavesDisk(t)'
  BY DEF LeavesDisk
<1>6. OwnsCgroup(t)'
  BY DEF OwnsCgroup, Recorded
<1>7. OwnsJail(t)'
  BY DEF OwnsJail, Recorded
<1> QED
  BY <1>1, <1>2, <1>3, <1>4, <1>5, <1>6, <1>7

\* After a restart the bitset is empty and no launch has an address.
LEMMA LifecycleSlots ==
  ASSUME SlotsMatchLaunches, Exit \/ Crash \/ Restart,
         \A u \in Sessions : Recorded(u) /\ InStep(u)
  PROVE  SlotsMatchLaunches'
<1>1. CASE Exit \/ Crash
  BY <1>1 DEF Exit, Crash, SlotsMatchLaunches, HasIp
<1>2. CASE Restart
  <2>1. orch # "up" /\ bits' = {} /\ UNCHANGED <<pc, ctx>>
    BY <1>2 DEF Restart, recs
  <2>2. ASSUME NEW u \in Sessions PROVE ~HasIp(u)'
    <3>1. pc[u] \in {"idle"} \cup Ended /\ Recorded(u)
      BY <2>1 DEF InStep
    <3>2. pc[u] # "running" /\ "ip" \notin ctx[u]
      BY <3>1 DEF Recorded, Ended, FromTap, FromIp, FromEbpf, FromCgroup, FromConf,
         FromJail, FromSpawn, FromSocket
    <3> QED
      BY <2>1, <3>2 DEF HasIp
  <2> QED
    BY <2>1, <2>2 DEF SlotsMatchLaunches
<1> QED
  BY <1>1, <1>2

-----------------------------------------------------------------------------
(* The id counter.                                                         *)

\* A launch begins once.
LEMMA NeverIdleAgain ==
  ASSUME ControlTypes, NEW s \in Sessions, NEW u \in Sessions, Step(s), pc[u] # "idle"
  PROVE  pc'[u] # "idle"
<1> USE ProvisioningAssumption DEF ControlTypes
<1>1. CASE Launch(s)
  BY <1>1 DEF Launch, At, Goto, Enter, IsValidTransition
<1>2. CASE CreateSnap(s)
  BY <1>2 DEF CreateSnap, At, Goto, Fail
<1>3. CASE DmCreate(s)
  BY <1>3 DEF DmCreate, At, Goto, Fail
<1>4. CASE DmLoad(s)
  BY <1>4 DEF DmLoad, At, Goto, Fail
<1>5. CASE DmResume(s)
  BY <1>5 DEF DmResume, At, Goto, Enter, IsValidTransition, Fail, Record
<1>6. CASE TapCreate(s)
  BY <1>6 DEF TapCreate, At, Goto, Fail
<1>7. CASE AllocateIp(s)
  BY <1>7 DEF AllocateIp, At, Goto, Fail, Record
<1>8. CASE LoadEbpf(s)
  BY <1>8 DEF LoadEbpf, At, Goto, Enter, IsValidTransition, Fail
<1>9. CASE CreateCgroup(s)
  BY <1>9 DEF CreateCgroup, At, Goto, Fail, Record
<1>10. CASE ConfigureCgroup(s)
  BY <1>10 DEF ConfigureCgroup, At, Goto, Enter, IsValidTransition, Fail, Record
<1>11. CASE SetupJail(s)
  BY <1>11 DEF SetupJail, At, Goto, Fail
<1>12. CASE Spawn(s)
  BY <1>12 DEF Spawn, At, Goto, Enter, IsValidTransition, Fail, Record
<1>13. CASE WaitForSocket(s)
  BY <1>13 DEF WaitForSocket, At, Goto, Fail
<1>14. CASE SendPut(s)
  BY <1>14 DEF SendPut, At, Goto, Fail
<1>15. CASE AwaitPut(s)
  BY <1>15 DEF AwaitPut, At, Goto, Enter, IsValidTransition, Fail
<1>16. CASE PutTimeout(s)
  BY <1>16 DEF PutTimeout, At, Goto, Fail
<1>17. CASE DropLocals(s)
  BY <1>17 DEF DropLocals, At, Goto
<1>18. CASE KillVmm(s)
  BY <1>18 DEF KillVmm, At, Goto, Take
<1>19. CASE DeleteCgroup(s)
  BY <1>19 DEF DeleteCgroup, At, Goto, Take, Warn
<1>20. CASE ReleaseIp(s)
  BY <1>20 DEF ReleaseIp, At, Goto, Take
<1>21. CASE RemoveDm(s)
  BY <1>21 DEF RemoveDm, At, Goto, Take, Warn
<1>22. CASE DeleteThinId(s)
  BY <1>22 DEF DeleteThinId, Warn, At, Goto
<1>23. CASE RemoveJail(s)
  BY <1>23 DEF RemoveJail, At, Goto, Take, Warn
<1>24. CASE DropVm(s)
  BY <1>24 DEF DropVm, At, Goto
<1>25. CASE VmmListen(s)
  BY <1>25 DEF VmmListen
<1>26. CASE VmmServe(s)
  BY <1>26 DEF VmmServe
<1>27. CASE VmmExit(s)
  BY <1>27 DEF VmmExit
<1> QED
  BY <1>1, <1>2, <1>3, <1>4, <1>5, <1>6, <1>7, <1>8, <1>9, <1>10, <1>11, <1>12, <1>13,
     <1>14, <1>15, <1>16, <1>17, <1>18, <1>19, <1>20, <1>21, <1>22, <1>23, <1>24, <1>25,
     <1>26, <1>27 DEF Step, Provision, CleanUp, Vmm

\* The counter is bounded by the number of launches begun, so that it stays in
\* DevIds for the launch that takes the last id.
LEMMA CounterStep ==
  ASSUME TypeOK, CounterInv, \A u \in Sessions : InStep(u), Next
  PROVE  /\ CounterInv'
         /\ \A s \in Sessions : Launch(s) => nextDev + 1 \in DevIds
<1> USE ProvisioningAssumption
<1>1. /\ IsFiniteSet(Launched) /\ Cardinality(Launched) \in Nat
      /\ IsFiniteSet(Launched') /\ Cardinality(Launched') \in Nat
      /\ Cardinality(Launched') <= Cardinality(Sessions) /\ Cardinality(Sessions) \in Nat
  BY FS_Subset, FS_CardinalityType DEF Launched
<1>2. nextDev \in Nat /\ FirstDev \in Nat /\ FirstDev <= nextDev
  BY <1>1 DEF TypeOK, DevIds
<1>3. ASSUME NEW s \in Sessions, Launch(s)
      PROVE  /\ Cardinality(Launched') = Cardinality(Launched) + 1
             /\ nextDev' = nextDev + 1
  <2>1. pc[s] = "idle" /\ Launched' = Launched \cup {s} /\ s \notin Launched
    BY <1>3 DEF Launch, At, Enter, Goto, Launched, TypeOK
  <2>2. Cardinality(Launched \cup {s}) = Cardinality(Launched) + 1
    BY <1>1, <2>1, FS_AddElement
  <2> QED
    BY <1>3, <2>1, <2>2 DEF Launch
<1>4. ASSUME NEW s \in Sessions, Launch(s)
      PROVE  CounterInv' /\ nextDev + 1 \in DevIds
  BY <1>1, <1>2, <1>3, <1>4 DEF CounterInv, DevIds
<1>5. CASE ~\E s \in Sessions : Launch(s)
  <2>1. Launched \subseteq Launched'
    <3>1. ASSUME NEW u \in Sessions, pc[u] # "idle" PROVE pc'[u] # "idle"
      <4>1. CASE Exit \/ Crash \/ Restart
        BY <3>1, <4>1 DEF Exit, Crash, Restart, Ended
      <4>2. ASSUME NEW s \in Sessions, Step(s), ~Launch(s)
            PROVE  pc'[u] # "idle"
        BY <3>1, <4>2, NeverIdleAgain DEF TypeOK, ControlTypes
      <4> QED
        BY <1>5, <4>1, <4>2 DEF Next, Step
    <3> QED
      BY <3>1 DEF Launched
  <2>2. Cardinality(Launched) <= Cardinality(Launched')
    BY <1>1, <2>1, FS_Subset
  <2>3. nextDev' = nextDev \/ nextDev' = FirstDev
    <3>1. CASE Exit \/ Crash \/ Restart
      BY <3>1 DEF Exit, Crash, Restart, mem
    <3>2. ASSUME NEW s \in Sessions, Step(s), ~Launch(s)
          PROVE  nextDev' = nextDev
      BY <3>2 DEF Step, Provision, CleanUp, Vmm, CreateSnap, DmCreate, DmLoad, DmResume,
         TapCreate, 
                  AllocateIp, LoadEbpf, CreateCgroup, ConfigureCgroup, SetupJail, Spawn,
                  WaitForSocket, SendPut, AwaitPut, PutTimeout, DropLocals, KillVmm,
                  DeleteCgroup, 
                  ReleaseIp, RemoveDm, DeleteThinId, RemoveJail, DropVm, VmmListen,
                  VmmServe, 
                  VmmExit, mem
    <3> QED
      BY <1>5, <3>1, <3>2 DEF Next, Step
  <2>4. nextDev' \in Nat
    BY <1>2, <2>3
  <2> QED
    BY <1>1, <1>2, <1>5, <2>2, <2>3, <2>4 DEF CounterInv
<1> QED
  BY <1>4, <1>5

-----------------------------------------------------------------------------
(* The inductive invariant that does not depend on the TAP names.          *)

LaunchInv(s) ==
    /\ Recorded(s) /\ InStep(s) /\ Served(s)
    /\ OwnsDisk(s) /\ LeavesDisk(s) /\ OwnsCgroup(s) /\ OwnsJail(s)

CoreInv ==
    /\ TypeOK /\ CounterInv
    /\ \A s \in Sessions : LaunchInv(s)
    /\ DevicesInv
    /\ SlotsMatchLaunches

\* TypeOK and its parts.
LEMMA TypeParts ==
    TypeOK <=> /\ DiskTypes /\ LinkTypes /\ VmmTypes /\ ProcTypes
               /\ ControlTypes /\ RecordTypes /\ ApiTypes
BY DEF TypeOK, DiskTypes, LinkTypes, VmmTypes, ProcTypes, ControlTypes, RecordTypes,
   ApiTypes

\* It holds of a host with nothing on it and an orchestrator with no launch begun.
LEMMA CoreInit == Init => CoreInv
<1> SUFFICES ASSUME Init PROVE CoreInv
  OBVIOUS
<1> USE ProvisioningAssumption DEF Init
<1>0. Cardinality(Sessions) \in Nat /\ FirstDev \in DevIds /\ 0 \in Slots
  BY FS_CardinalityType, IpBitsAssumption DEF DevIds, Slots
<1>1. DiskTypes /\ LinkTypes /\ VmmTypes /\ ProcTypes
  BY <1>0 DEF DiskTypes, LinkTypes, VmmTypes, ProcTypes, NoDm, NoJail, DmDevs
<1>2. ControlTypes /\ RecordTypes /\ ApiTypes
  BY <1>0, ApiIs DEF ControlTypes, RecordTypes, ApiTypes, VmStates
<1>3. CounterInv
  <2>1. IsFiniteSet(Launched)
    BY FS_Subset DEF Launched
  <2>2. Cardinality(Launched) \in Nat
    BY <2>1, FS_CardinalityType
  <2> QED
    BY <2>2 DEF CounterInv
<1>4. ASSUME NEW s \in Sessions PROVE LaunchInv(s)
  <2>1. pc[s] = "idle" /\ st[s] = "Pending" /\ ctx[s] = {} /\ locals[s] = {} /\ vmm[s] = "none"
        /\ opened[s] = {} /\ req[s] = "none" /\ put[s] = 1 /\ NoOne # s
    OBVIOUS
  <2>2. Recorded(s) /\ InStep(s)
    BY <2>1 DEF Recorded, InStep, Ended, Rollback,
                FromTap, FromIp, FromEbpf, FromCgroup, FromConf, FromJail, FromSpawn,
                FromSocket
  <2>3. Served(s)
    BY <2>1 DEF Served, Alive, Ended, Rollback, FromTap, FromSocket
  <2>4. OwnsDisk(s) /\ LeavesDisk(s)
    BY <2>1 DEF OwnsDisk, LeavesDisk, HasThinId, Alive, NoDm
  <2>5. OwnsCgroup(s) /\ OwnsJail(s)
    BY <2>1 DEF OwnsCgroup, OwnsJail, NoJail,
                FromTap, FromIp, FromEbpf, FromCgroup, FromConf, FromJail, FromSpawn,
                FromSocket
  <2> QED
    BY <2>2, <2>3, <2>4, <2>5 DEF LaunchInv
<1>5. DevicesInv
  BY DEF DevicesInv, NoDm
<1>6. SlotsMatchLaunches
  BY DEF SlotsMatchLaunches, HasIp
<1> QED
  BY <1>1, <1>2, <1>3, <1>4, <1>5, <1>6, TypeParts DEF CoreInv

\* Every step keeps it.
LEMMA CoreStep == CoreInv /\ [Next]_vars => CoreInv'
<1> SUFFICES ASSUME CoreInv, [Next]_vars PROVE CoreInv'
  OBVIOUS
<1>1. ASSUME NEW s \in Sessions, Step(s) PROVE CoreInv'
  <2>1. /\ DiskTypes /\ LinkTypes /\ VmmTypes /\ ProcTypes
        /\ ControlTypes /\ RecordTypes /\ ApiTypes
        /\ warned \in [Sessions -> SUBSET {"cgroup", "snapshot", "jail"}]
    BY TypeParts DEF CoreInv, ProcTypes
  <2>2. \A u \in Sessions : Recorded(u) /\ InStep(u) /\ Served(u) /\ OwnsDisk(u) /\ LeavesDisk(u)
                            /\ OwnsCgroup(u) /\ OwnsJail(u)
    BY DEF CoreInv, LaunchInv
  <2>3. Next
    BY <1>1 DEF Next, Step
  <2>4. CounterInv' /\ (Launch(s) => nextDev + 1 \in DevIds)
    BY <2>2, <2>3, CounterStep DEF CoreInv
  <2>5. TypeOK'
    <3>1. DiskTypes' /\ LinkTypes' /\ VmmTypes' /\ ControlTypes'
      BY <1>1, <2>1, <2>2, DiskTyped, LinkTyped, VmmTyped, ControlTyped
    <3>2. ProcTypes'
      BY <1>1, <2>1, <2>4, ProcTyped
    <3>3. RecordTypes' /\ ApiTypes'
      BY <1>1, <2>1, <2>2, RecordTyped, ApiTyped
    <3> QED
      BY <3>1, <3>2, <3>3 DEF TypeOK, DiskTypes, LinkTypes, VmmTypes, ProcTypes,
         ControlTypes, 
                              RecordTypes, ApiTypes
  <2>6. ASSUME NEW t \in Sessions PROVE LaunchInv(t)'
    <3>1. OneHolder(s, t)
      BY <2>2, LockIsExclusive
    <3>2. Recorded(t)' /\ InStep(t)'
      BY <1>1, <2>1, <2>2, RecordedStep, InStepStep
    <3>3. Served(t)'
      BY <1>1, <2>1, <2>2, ServedStep
    <3>4. OwnsDisk(t)'
      BY <1>1, <2>1, <2>2, <3>1, OwnsDiskStep
    <3>5. LeavesDisk(t)'
      BY <1>1, <2>1, <2>2, <3>1, LeavesDiskStep
    <3>6. OwnsCgroup(t)' /\ OwnsJail(t)'
      BY <1>1, <2>1, <2>2, <3>1, OwnsCgroupStep, OwnsJailStep
    <3> QED
      BY <3>2, <3>3, <3>4, <3>5, <3>6 DEF LaunchInv
  <2>7. DevicesInv'
    BY <1>1, <2>1, <2>2, DevicesStep DEF CoreInv
  <2>8. SlotsMatchLaunches'
    BY <1>1, <2>1, <2>2, SlotsStep DEF CoreInv
  <2> QED
    BY <2>4, <2>5, <2>6, <2>7, <2>8 DEF CoreInv
<1>2. CASE Exit \/ Crash \/ Restart
  <2>1. Next
    BY <1>2 DEF Next
  <2>2. \A u \in Sessions : LaunchInv(u) /\ Recorded(u) /\ InStep(u)
    BY DEF CoreInv, LaunchInv
  <2>3. TypeOK'
    BY <1>2, LifecycleTyped DEF CoreInv
  <2>4. CounterInv'
    BY <2>1, <2>2, CounterStep DEF CoreInv
  <2>5. ASSUME NEW t \in Sessions PROVE LaunchInv(t)'
    BY <1>2, <2>2, TypeParts, LifecycleKeeps DEF CoreInv, LaunchInv
  <2>6. DevicesInv'
    BY <1>2 DEF CoreInv, DevicesInv, Exit, Crash, Restart, host
  <2>7. SlotsMatchLaunches'
    BY <1>2, <2>2, LifecycleSlots DEF CoreInv
  <2> QED
    BY <2>3, <2>4, <2>5, <2>6, <2>7 DEF CoreInv
<1>3. CASE UNCHANGED vars
  <2> USE <1>3 DEF vars, host, vmms, proc, mem, recs, api
  <2>1. TypeOK'
    BY DEF CoreInv, TypeOK
  <2>2. CounterInv' /\ DevicesInv' /\ SlotsMatchLaunches'
    BY DEF CoreInv, CounterInv, Launched, DevicesInv, SlotsMatchLaunches, HasIp
  <2>3. ASSUME NEW t \in Sessions PROVE LaunchInv(t)'
    <3>1. Recorded(t)' /\ InStep(t)'
      BY DEF CoreInv, LaunchInv, Recorded, InStep
    <3>2. Served(t)'
      BY DEF CoreInv, LaunchInv, Served, Alive
    <3>3. OwnsDisk(t)' /\ LeavesDisk(t)'
      BY DEF CoreInv, LaunchInv, OwnsDisk, HasThinId, Mapped, Alive, LeavesDisk
    <3>4. OwnsCgroup(t)' /\ OwnsJail(t)'
      BY DEF CoreInv, LaunchInv, OwnsCgroup, OwnsJail
    <3> QED
      BY <3>1, <3>2, <3>3, <3>4 DEF LaunchInv
  <2> QED
    BY <2>1, <2>2, <2>3 DEF CoreInv
<1> QED
  BY <1>1, <1>2, <1>3 DEF Next, Step

\* So it is an invariant.
LEMMA CoreInvariant == Spec => []CoreInv
BY CoreInit, CoreStep, PTL DEF Spec

-----------------------------------------------------------------------------
(* What follows from it.                                                   *)

\* Type correctness of Provisioning; in particular the counter of thin ids,
\* which fetch_add raises without a bound, stays in the range of the pool.
THEOREM TypeCorrect == Spec => []TypeOK
<1>1. CoreInv => TypeOK
  BY DEF CoreInv
<1> QED
  BY <1>1, CoreInvariant, PTL

\* Two launches never hold one address slot, and no slot is lost: what
\* IpAm::allocate and release promise survives every rollback of launch_vm.
THEOREM SlotsAreSafe == Spec => []SlotsMatchLaunches
<1>1. CoreInv => SlotsMatchLaunches
  BY DEF CoreInv
<1> QED
  BY <1>1, CoreInvariant, PTL

\* No two devices are on one thin id (StorageManager::create_snapshot), although
\* next_device_id starts over at a restart.
THEOREM ThinIdsAreSafe == Spec => []NoDoubleMapping
<1>1. CoreInv => NoDoubleMapping
  BY ProvisioningAssumption DEF CoreInv, DevicesInv, NoDoubleMapping
<1> QED
  BY <1>1, CoreInvariant, PTL

\* The client of a launch talks to the process of that launch, or to nobody
\* (wait_for_socket and FirecrackerClient::put).
THEOREM SocketsAreSafe == Spec => []SocketIsOwn
<1>1. CoreInv => SocketIsOwn
  BY DEF CoreInv, LaunchInv, OwnsJail, SocketIsOwn,
         FromTap, FromIp, FromEbpf, FromCgroup, FromConf, FromJail, FromSpawn, FromSocket
<1> QED
  BY <1>1, CoreInvariant, PTL

-----------------------------------------------------------------------------
(* The TAPs.  The kernel cuts a name to 15 bytes, so two ids may share one *)
(* TAP and the lock on the id no longer protects it.  What follows is      *)
(* under the hypothesis that they do not: ids of at most 11 bytes.         *)

TapNamesDiffer == \A i, j \in Ids : TapOf[i] = TapOf[j] => i = j

\* The TAP of s.
OwnsTap(s) ==
    /\ "tap" \in locals[s] => tap[TapOf[IdOf[s]]] = s
    /\ \A n \in TapNames : tap[n] = s =>
          n = TapOf[IdOf[s]] /\ ("tap" \in locals[s] \/ pc[s] \in Rollback \cup Ended)

\* What a rollback leaves of it, unless set_interface_up or Drop failed: nothing,
\* if the process was not told of it.
LeavesTap(s) ==
    "tap_up" \notin Faults /\ "tap_drop" \notin Faults =>
        /\ (pc[s] \in (Rollback \ {"drop"}) \cup {"failed"} /\ put[s] < 5) => tap[TapOf[IdOf[s]]] # s
        /\ (pc[s] = "drop" /\ tap[TapOf[IdOf[s]]] = s) => "tap" \in locals[s]

\* The TAP of t is its own until its Drop.
LEMMA OwnsTapStep ==
  ASSUME TapNamesDiffer, ControlTypes, RecordTypes, LinkTypes, ApiTypes, NEW s \in Sessions,
         NEW t \in Sessions, Step(s), 
         Recorded(s), Recorded(t), OwnsTap(s), OwnsTap(t), InStep(s), OneHolder(s, t)
  PROVE  OwnsTap(t)'
<1> USE ProvisioningAssumption DEF TapNamesDiffer, TapNames, OwnsTap, Recorded, OneHolder,
           Holds, Rollback, Ended, 
           ControlTypes, RecordTypes,
           FromTap, FromIp, FromEbpf, FromCgroup, FromConf, FromJail, FromSpawn, FromSocket,
           host, vmms, proc, mem, recs, api
<1>0. tap \in [TapNames -> Sessions \cup {NoOne}]
  BY DEF LinkTypes
<1>1. CASE Launch(s)
  BY <1>1, <1>0 DEF Launch, At, Goto, Enter, IsValidTransition
<1>2. CASE CreateSnap(s)
  BY <1>2, <1>0 DEF CreateSnap, At, Goto, Fail
<1>3. CASE DmCreate(s)
  BY <1>3, <1>0 DEF DmCreate, At, Goto, Fail
<1>4. CASE DmLoad(s)
  BY <1>4, <1>0 DEF DmLoad, At, Goto, Fail
<1>5. CASE DmResume(s)
  BY <1>5, <1>0 DEF DmResume, At, Goto, Enter, IsValidTransition, Fail, Record
<1>6. CASE TapCreate(s)
  BY <1>6, <1>0 DEF TapCreate, At, Goto, Fail
<1>7. CASE AllocateIp(s)
  BY <1>7, <1>0 DEF AllocateIp, At, Goto, Fail, Record
<1>8. CASE LoadEbpf(s)
  BY <1>8, <1>0 DEF LoadEbpf, At, Goto, Enter, IsValidTransition, Fail
<1>9. CASE CreateCgroup(s)
  BY <1>9, <1>0 DEF CreateCgroup, At, Goto, Fail, Record
<1>10. CASE ConfigureCgroup(s)
  BY <1>10, <1>0 DEF ConfigureCgroup, At, Goto, Enter, IsValidTransition, Fail, Record
<1>11. CASE SetupJail(s)
  BY <1>11, <1>0 DEF SetupJail, At, Goto, Fail
<1>12. CASE Spawn(s)
  BY <1>12, <1>0 DEF Spawn, At, Goto, Enter, IsValidTransition, Fail, Record
<1>13. CASE WaitForSocket(s)
  BY <1>13, <1>0 DEF WaitForSocket, At, Goto, Fail
<1>14. CASE SendPut(s)
  BY <1>14, <1>0 DEF SendPut, At, Goto, Fail
<1>15. CASE AwaitPut(s)
  BY <1>15, AwaitPutSteps
<1>16. CASE PutTimeout(s)
  BY <1>16, <1>0 DEF PutTimeout, At, Goto, Fail
<1>17. CASE DropLocals(s)
  BY <1>0, <1>17 DEF DropLocals, At, Goto, DropTap
<1>18. CASE KillVmm(s)
  BY <1>18, <1>0 DEF KillVmm, At, Goto, Take
<1>19. CASE DeleteCgroup(s)
  BY <1>19, <1>0 DEF DeleteCgroup, At, Goto, Take, Warn
<1>20. CASE ReleaseIp(s)
  BY <1>20, <1>0 DEF ReleaseIp, At, Goto, Take
<1>21. CASE RemoveDm(s)
  BY <1>21, <1>0 DEF RemoveDm, At, Goto, Take, Warn
<1>22. CASE DeleteThinId(s)
  BY <1>22, <1>0 DEF DeleteThinId, Warn, At, Goto
<1>23. CASE RemoveJail(s)
  BY <1>23, <1>0 DEF RemoveJail, At, Goto, Take, Warn
<1>24. CASE DropVm(s)
  BY <1>0, <1>24 DEF DropVm, At, Goto, DropTap
<1>25. CASE VmmListen(s)
  BY <1>25, <1>0 DEF VmmListen
<1>26. CASE VmmServe(s)
  BY <1>26, <1>0 DEF VmmServe
<1>27. CASE VmmExit(s)
  BY <1>27, <1>0 DEF VmmExit
<1> QED
  BY <1>1, <1>2, <1>3, <1>4, <1>5, <1>6, <1>7, <1>8, <1>9, <1>10, <1>11, <1>12, <1>13,
     <1>14, <1>15, <1>16, <1>17, <1>18, <1>19, <1>20, <1>21, <1>22, <1>23, <1>24, <1>25,
     <1>26, <1>27 DEF Step, Provision, CleanUp, Vmm

\* And a rollback takes it away.
LEMMA LeavesTapStep ==
  ASSUME TapNamesDiffer, ControlTypes, RecordTypes, LinkTypes, ApiTypes, NEW s \in Sessions,
         NEW t \in Sessions, Step(s), 
         Recorded(s), Recorded(t), OwnsTap(s), OwnsTap(t), LeavesTap(s), LeavesTap(t),
         InStep(s), OneHolder(s, t), 
         \A v \in Sessions : OwnsDisk(v) /\ Served(v)
  PROVE  LeavesTap(t)'
<1> USE ProvisioningAssumption DEF LeavesTap, ControlTypes, RecordTypes, LinkTypes,
           Rollback, Forward, TapNames, 
           host, vmms, proc, mem, recs, api
<1>0. /\ pc[t] \in {"idle", "running"} \cup Forward /\ tap[TapOf[IdOf[t]]] = t => "tap" \in locals[t]
      /\ pc[t] = "tap" => "tap" \notin locals[t]
  <2>1. TapOf[IdOf[t]] \in TapNames
    OBVIOUS
  <2>2. pc[t] \in {"idle", "running"} \cup Forward => pc[t] \notin Rollback \cup Ended
    BY DEF Ended
  <2>3. pc[t] = "tap" => "tap" \notin locals[t]
    BY DEF Recorded, FromTap, FromIp, FromEbpf, FromCgroup, FromConf, FromJail, FromSpawn,
       FromSocket
  <2> QED
    BY <2>1, <2>2, <2>3 DEF OwnsTap
<1>1. CASE Launch(s)
  BY <1>1, <1>0 DEF Launch, At, Goto, Enter, IsValidTransition
<1>2. CASE CreateSnap(s)
  BY <1>2, <1>0 DEF CreateSnap, At, Goto, Fail
<1>3. CASE DmCreate(s)
  BY <1>3, <1>0 DEF DmCreate, At, Goto, Fail
<1>4. CASE DmLoad(s)
  BY <1>4, <1>0 DEF DmLoad, At, Goto, Fail
<1>5. CASE DmResume(s)
  BY <1>5, <1>0 DEF DmResume, At, Goto, Enter, IsValidTransition, Fail, Record
<1>6. CASE TapCreate(s)
  BY <1>6, <1>0 DEF TapCreate, At, Goto, Fail
<1>7. CASE AllocateIp(s)
  BY <1>7, <1>0 DEF AllocateIp, At, Goto, Fail, Record
<1>8. CASE LoadEbpf(s)
  BY <1>8, <1>0 DEF LoadEbpf, At, Goto, Enter, IsValidTransition, Fail
<1>9. CASE CreateCgroup(s)
  BY <1>9, <1>0 DEF CreateCgroup, At, Goto, Fail, Record
<1>10. CASE ConfigureCgroup(s)
  BY <1>10, <1>0 DEF ConfigureCgroup, At, Goto, Enter, IsValidTransition, Fail, Record
<1>11. CASE SetupJail(s)
  BY <1>11, <1>0 DEF SetupJail, At, Goto, Fail
<1>12. CASE Spawn(s)
  BY <1>12, <1>0 DEF Spawn, At, Goto, Enter, IsValidTransition, Fail, Record
<1>13. CASE WaitForSocket(s)
  BY <1>13, <1>0 DEF WaitForSocket, At, Goto, Fail
<1>14. CASE SendPut(s)
  BY <1>14, <1>0 DEF SendPut, At, Goto, Fail
<1>15. CASE AwaitPut(s)
  <2>1. UNCHANGED <<tap, locals>>
    BY <1>15 DEF AwaitPut
  <2>2. CASE t = s
    BY <1>0, <1>15, <2>1, <2>2, AwaitPutSteps
  <2>3. CASE t # s
    <3>1. pc'[t] = pc[t] /\ put'[t] = put[t]
      BY <1>15, <2>3 DEF AwaitPut, At, Enter, Goto, Fail, ApiTypes
    <3> QED
      BY <2>1, <3>1
  <2> QED
    BY <2>2, <2>3
<1>16. CASE PutTimeout(s)
  BY <1>16, <1>0 DEF PutTimeout, At, Goto, Fail
<1>17. CASE DropLocals(s)
  <2>1. ASSUME TapBusy(TapOf[IdOf[s]]), "tap" \in locals[s]
        PROVE  put[s] >= 5
    <3>1. PICK v \in Sessions : TapOf[IdOf[v]] = TapOf[IdOf[s]] /\ "tap" \in opened[v]
      BY <2>1 DEF TapBusy
    <3>2. OwnsDisk(v) /\ Served(v) /\ OwnsDisk(s)
      OBVIOUS
    <3>3. IdOf[v] = IdOf[s] /\ Mapped(v)
      BY <3>1, <3>2 DEF OwnsDisk, Served, TapNamesDiffer
    <3>4. Mapped(s)
      BY <2>1, <3>2 DEF OwnsDisk, Recorded
    <3>5. v = s
      BY <3>3, <3>4 DEF Mapped
    <3> QED
      BY <3>1, <3>2, <3>5 DEF Served
  <2>2. put[s] \in 1 .. 6
    BY PutNumber
  <2>3. CASE t # s
    BY <1>17, <2>3 DEF DropLocals, At, Goto, DropTap
  <2>4. CASE t = s
    BY <1>17, <2>1, <2>2, <2>4 DEF DropLocals, At, Goto, DropTap
  <2> QED
    BY <2>3, <2>4
<1>18. CASE KillVmm(s)
  BY <1>18, <1>0 DEF KillVmm, At, Goto, Take
<1>19. CASE DeleteCgroup(s)
  BY <1>19, <1>0 DEF DeleteCgroup, At, Goto, Take, Warn
<1>20. CASE ReleaseIp(s)
  BY <1>20, <1>0 DEF ReleaseIp, At, Goto, Take
<1>21. CASE RemoveDm(s)
  BY <1>21, <1>0 DEF RemoveDm, At, Goto, Take, Warn
<1>22. CASE DeleteThinId(s)
  BY <1>22, <1>0 DEF DeleteThinId, Warn, At, Goto
<1>23. CASE RemoveJail(s)
  BY <1>23, <1>0 DEF RemoveJail, At, Goto, Take, Warn
<1>24. CASE DropVm(s)
  BY <1>0, <1>24 DEF DropVm, At, Goto, DropTap
<1>25. CASE VmmListen(s)
  BY <1>25, <1>0 DEF VmmListen
<1>26. CASE VmmServe(s)
  BY <1>26, <1>0 DEF VmmServe
<1>27. CASE VmmExit(s)
  BY <1>27, <1>0 DEF VmmExit
<1> QED
  BY <1>1, <1>2, <1>3, <1>4, <1>5, <1>6, <1>7, <1>8, <1>9, <1>10, <1>11, <1>12, <1>13,
     <1>14, <1>15, <1>16, <1>17, <1>18, <1>19, <1>20, <1>21, <1>22, <1>23, <1>24, <1>25,
     <1>26, <1>27 DEF Step, Provision, CleanUp, Vmm

\* Exit, crash and restart leave the TAPs alone.
LEMMA LifecycleTaps ==
  ASSUME ControlTypes, RecordTypes, Exit \/ Crash \/ Restart, NEW t \in Sessions,
         Recorded(t), OwnsTap(t), LeavesTap(t)
  PROVE  OwnsTap(t)' /\ LeavesTap(t)'
<1> USE DEF ControlTypes, RecordTypes, Exit, Crash, Restart, Ended, Rollback,
            host, vmms, proc, mem, recs, api,
            FromTap, FromIp, FromEbpf, FromCgroup, FromConf, FromJail, FromSpawn, FromSocket
<1>1. OwnsTap(t)'
  BY DEF OwnsTap, Recorded
<1>2. LeavesTap(t)'
  BY DEF LeavesTap
<1> QED
  BY <1>1, <1>2

TapInv == CoreInv /\ \A s \in Sessions : OwnsTap(s) /\ LeavesTap(s)

\* It holds initially.
LEMMA TapInit == Init => TapInv
<1> SUFFICES ASSUME Init PROVE TapInv
  OBVIOUS
<1>1. ASSUME NEW s \in Sessions PROVE OwnsTap(s) /\ LeavesTap(s)
  BY ProvisioningAssumption DEF Init, OwnsTap, LeavesTap, Rollback
<1> QED
  BY <1>1, CoreInit DEF TapInv

\* Every step keeps it, when the names differ.
LEMMA TapStep == TapNamesDiffer /\ TapInv /\ [Next]_vars => TapInv'
<1> SUFFICES ASSUME TapNamesDiffer, TapInv, [Next]_vars PROVE TapInv'
  OBVIOUS
<1>1. CoreInv'
  BY CoreStep DEF TapInv
<1>2. LinkTypes /\ ControlTypes /\ RecordTypes /\ ApiTypes
  BY TypeParts DEF TapInv, CoreInv
<1>3. \A u \in Sessions : Recorded(u) /\ InStep(u) /\ Served(u) /\ OwnsDisk(u) /\ OwnsTap(u)
                          /\ LeavesTap(u)
  BY DEF TapInv, CoreInv, LaunchInv
<1>4. ASSUME NEW s \in Sessions, Step(s), NEW t \in Sessions
      PROVE  OwnsTap(t)' /\ LeavesTap(t)'
  <2>1. OneHolder(s, t)
    BY <1>3, LockIsExclusive
  <2>2. OwnsTap(t)'
    BY <1>2, <1>3, <1>4, <2>1, OwnsTapStep
  <2>3. LeavesTap(t)'
    BY <1>2, <1>3, <1>4, <2>1, LeavesTapStep
  <2> QED
    BY <2>2, <2>3
<1>5. ASSUME Exit \/ Crash \/ Restart, NEW t \in Sessions
      PROVE  OwnsTap(t)' /\ LeavesTap(t)'
  BY <1>2, <1>3, <1>5, LifecycleTaps
<1>6. ASSUME UNCHANGED vars, NEW t \in Sessions
      PROVE  OwnsTap(t)' /\ LeavesTap(t)'
  BY <1>3, <1>6 DEF OwnsTap, LeavesTap, vars, host, recs, api
<1> QED
  BY <1>1, <1>4, <1>5, <1>6 DEF TapInv, Next, Step

\* So it is an invariant, under that hypothesis.
LEMMA TapInvariant == ASSUME TapNamesDiffer PROVE Spec => []TapInv
<1>1. TapInv /\ [Next]_vars => TapInv'
  BY TapStep
<1> QED
  BY <1>1, TapInit, PTL DEF Spec

\* A VM that launch_vm returned Ok for has its device, thin id, TAP, filter,
\* cgroup and address, and its process has opened its own rootfs and TAP,
\* whatever other launches and earlier runs of the orchestrator did or left.
THEOREM RunningVmIsIntact ==
  ASSUME TapNamesDiffer
  PROVE  Spec => []RunningOwnsItsResources
<1>1. TapInv => RunningOwnsItsResources
  <2> SUFFICES ASSUME TapInv, NEW s \in Sessions, orch = "up", pc[s] = "running"
               PROVE  /\ st[s] = "Running"
                      /\ dm[IdOf[s]] = [state |-> "active", dev |-> dev[s], by |-> s]
                      /\ pool[dev[s]] = s
                      /\ tap[TapOf[IdOf[s]]] = s
                      /\ locals[s] = {"tap", "ebpf"}
                      /\ cgroup[IdOf[s]] = s
                      /\ ip[s] \in bits
                      /\ vmm[s] = "listening" => opened[s] = {"rootfs", "tap"}
    BY DEF RunningOwnsItsResources
  <2>1. Recorded(s) /\ InStep(s) /\ Served(s) /\ OwnsDisk(s) /\ OwnsCgroup(s) /\ OwnsTap(s)
    BY DEF TapInv, CoreInv, LaunchInv
  <2>2. locals[s] = {"tap", "ebpf"}
    <3>1. "tap" \in locals[s] /\ "ebpf" \in locals[s] /\ locals[s] \subseteq {"tap", "ebpf"}
      BY <2>1, TypeParts DEF Recorded, TapInv, CoreInv, RecordTypes
    <3> QED
      BY <3>1
  <2>3. vmm[s] = "listening" => opened[s] = {"rootfs", "tap"}
    <3>1. opened[s] \subseteq {"rootfs", "tap"}
      BY TypeParts DEF TapInv, CoreInv, VmmTypes
    <3>2. vmm[s] = "listening" => "rootfs" \in opened[s] /\ "tap" \in opened[s]
      BY <2>1 DEF Served
    <3> QED
      BY <3>1, <3>2
  <2>4. st[s] = "Running" /\ cgroup[IdOf[s]] = s /\ tap[TapOf[IdOf[s]]] = s
    BY <2>1, <2>2 DEF InStep, OwnsCgroup, OwnsTap
  <2>5. pool[dev[s]] = s /\ dm[IdOf[s]] = [state |-> "active", dev |-> dev[s], by |-> s]
    BY <2>1 DEF OwnsDisk, HasThinId, Mapped
  <2>6. ip[s] \in bits
    BY DEF TapInv, CoreInv, SlotsMatchLaunches, HasIp
  <2> QED
    BY <2>2, <2>3, <2>4, <2>5, <2>6
<1> QED
  BY <1>1, TapInvariant, PTL

\* What a launch that failed after its snapshot was recorded leaves on the host,
\* cleanup has warned of, whatever fails: its cgroup, its jail, its thin id and
\* its device; its TAP is gone unless the process was told of it or
\* set_interface_up or the Drop failed, which nothing reports.
THEOREM RollbackIsReported ==
  ASSUME TapNamesDiffer
  PROVE  Spec => []LeftoversAreReported
<1>1. TapInv => LeftoversAreReported
  <2> SUFFICES ASSUME TapInv, NEW s \in Sessions, pc[s] = "failed", st[s] # "ProvisioningStorage"
               PROVE  /\ Cgroups(s) # {} => "cgroup" \in warned[s]
                      /\ Jails(s) # {} => "jail" \in warned[s]
                      /\ Snapshot(s) # {} => "snapshot" \in warned[s]
                      /\ ("tap_up" \notin Faults /\ "tap_drop" \notin Faults /\ put[s] < 5) => Taps(s) = {}
    BY DEF LeftoversAreReported
  <2>1. /\ Recorded(s) /\ LeavesDisk(s) /\ OwnsCgroup(s) /\ OwnsJail(s) /\ OwnsTap(s) /\ LeavesTap(s)
    BY DEF TapInv, CoreInv, LaunchInv
  <2>2. "cgroup" \notin ctx[s] /\ "jail" \notin ctx[s]
    BY <2>1 DEF Recorded, Rollback,
                FromTap, FromIp, FromEbpf, FromCgroup, FromConf, FromJail, FromSpawn,
                FromSocket
  <2>3. /\ Cgroups(s) # {} => "cgroup" \in warned[s]
        /\ Jails(s) # {} => "jail" \in warned[s]
    BY <2>1, <2>2 DEF OwnsCgroup, OwnsJail, Cgroups, Jails
  <2>4. ("tap_up" \notin Faults /\ "tap_drop" \notin Faults /\ put[s] < 5) => Taps(s) = {}
    BY <2>1 DEF OwnsTap, LeavesTap, Taps
  <2>5. ASSUME "snapshot" \notin warned[s] PROVE Snapshot(s) = {}
    <3>1. {e \in DevIds : pool[e] = s} = {} /\ {j \in Ids : dm[j].by = s} = {}
      BY <2>1, <2>5 DEF LeavesDisk
    <3> QED
      BY <3>1 DEF Snapshot
  <2> QED
    BY <2>3, <2>4, <2>5
<1> QED
  BY <1>1, TapInvariant, PTL

\* A step of s takes nothing from a launch t that is under way and is not at this step.
LEMMA KeepsStep ==
  ASSUME TapNamesDiffer, ControlTypes, RecordTypes, LinkTypes, DiskTypes, ApiTypes,
         NEW s \in Sessions, NEW t \in Sessions, Step(s), 
         Recorded(s), Recorded(t), OwnsTap(s), OwnsTap(t), OwnsDisk(s), OwnsDisk(t),
         OwnsCgroup(s), OwnsCgroup(t), InStep(s), OneHolder(s, t), 
         pc[t] \in Forward \cup {"running"}, pc'[t] = pc[t]
  PROVE  /\ \A d \in DevIds : pool[d] = t => pool'[d] = t
         /\ \A i \in Ids : dm[i].by = t => dm'[i].by = t
         /\ \A n \in TapNames : tap[n] = t => tap'[n] = t
         /\ \A i \in Ids : cgroup[i] = t => cgroup'[i] = t
<1> USE ProvisioningAssumption DEF ControlTypes, RecordTypes, LinkTypes, DiskTypes,
           host, vmms, proc, mem, recs, api
<1>0. /\ "tap" \in locals[t] \/ "cgroup" \in ctx[t] \/ pc[t] = "running" => Holds(t)
      /\ "tap" \in locals[s] \/ "cgroup" \in ctx[s] \/ pc[s] \in FromTap => Holds(s)
      /\ \A n \in TapNames : tap[n] = t => n = TapOf[IdOf[t]] /\ "tap" \in locals[t]
      /\ \A i \in Ids : cgroup[i] = t => i = IdOf[t] /\ ("cgroup" \in ctx[t] \/ pc[t] = "running")
  BY DEF OwnsTap, OwnsCgroup, Recorded, Holds, Forward, Rollback, Ended,
         FromTap, FromIp, FromEbpf, FromCgroup, FromConf, FromJail, FromSpawn, FromSocket
<1>1. CASE Launch(s)
  BY <1>1, <1>0 DEF Launch, At, Goto, Enter, IsValidTransition
<1>2. CASE CreateSnap(s)
  BY <1>2 DEF CreateSnap
<1>3. CASE DmCreate(s)
  BY <1>3 DEF DmCreate, NoDm
<1>4. CASE DmLoad(s)
  <2>1. UNCHANGED <<pool, tap, cgroup>>
    BY <1>4, LoadSteps
  <2>2. ASSUME NEW i \in Ids PROVE dm'[i].by = dm[i].by
    <3>1. CASE i = IdOf[s]
      <4>1. \/ dm'[i] = dm[i]
            \/ dm'[i] = [state |-> "loaded", dev |-> dev[s], by |-> dm[i].by]
        BY <1>4, <3>1, LoadSteps
      <4> QED
        BY <4>1
    <3>2. CASE i # IdOf[s]
      BY <1>4, <3>2, LoadSteps
    <3> QED
      BY <3>1, <3>2
  <2> QED
    BY <2>1, <2>2
<1>5. CASE DmResume(s)
  <2>1. UNCHANGED <<pool, tap, cgroup>>
    BY <1>5, ResumeSteps
  <2>2. ASSUME NEW i \in Ids PROVE dm'[i].by = dm[i].by
    <3>1. CASE i = IdOf[s]
      <4>1. \/ dm'[i] = dm[i]
            \/ dm'[i] = [state |-> "active", dev |-> dm[IdOf[s]].dev, by |-> dm[i].by]
        BY <1>5, <3>1, ResumeSteps
      <4> QED
        BY <4>1
    <3>2. CASE i # IdOf[s]
      BY <1>5, <3>2, ResumeSteps
    <3> QED
      BY <3>1, <3>2
  <2> QED
    BY <2>1, <2>2
<1>6. CASE TapCreate(s)
  <2>1. pc[s] = "tap" /\ UNCHANGED <<pool, dm, cgroup>>
        /\ (UNCHANGED tap \/ tap' = [tap EXCEPT ![TapOf[IdOf[s]]] = s])
    BY <1>6 DEF TapCreate, At
  <2>2. \A n \in TapNames : tap[n] = t /\ n = TapOf[IdOf[s]] => t = s
    BY <1>0, <2>1 DEF TapNamesDiffer, OneHolder, FromTap
  <2> QED
    BY <2>1, <2>2
<1>7. CASE AllocateIp(s)
  BY <1>7, <1>0 DEF AllocateIp, At, Goto, Fail, Record
<1>8. CASE LoadEbpf(s)
  BY <1>8, <1>0 DEF LoadEbpf, At, Goto, Enter, IsValidTransition, Fail
<1>9. CASE CreateCgroup(s)
  <2>1. pc[s] = "cgroup" /\ UNCHANGED <<pool, dm, tap>>
        /\ (UNCHANGED cgroup \/ cgroup' = [cgroup EXCEPT ![IdOf[s]] = s])
    BY <1>9 DEF CreateCgroup, At
  <2>2. cgroup[IdOf[s]] = t => t = s
    BY <1>0, <2>1 DEF OneHolder, FromTap
  <2> QED
    BY <2>1, <2>2
<1>10. CASE ConfigureCgroup(s)
  BY <1>10, <1>0 DEF ConfigureCgroup, At, Goto, Enter, IsValidTransition, Fail, Record
<1>11. CASE SetupJail(s)
  BY <1>11, <1>0 DEF SetupJail, At, Goto, Fail
<1>12. CASE Spawn(s)
  BY <1>12, <1>0 DEF Spawn, At, Goto, Enter, IsValidTransition, Fail, Record
<1>13. CASE WaitForSocket(s)
  BY <1>13, <1>0 DEF WaitForSocket, At, Goto, Fail
<1>14. CASE SendPut(s)
  BY <1>14, <1>0 DEF SendPut, At, Goto, Fail
<1>15. CASE AwaitPut(s)
  BY <1>15, <1>0 DEF AwaitPut, At, Goto, Enter, IsValidTransition, Fail
<1>16. CASE PutTimeout(s)
  BY <1>16, <1>0 DEF PutTimeout, At, Goto, Fail
<1>17. CASE DropLocals(s)
  <2>1. pc'[s] # pc[s] /\ ("tap" \in locals[s] => tap[TapOf[IdOf[s]]] = s)
    BY <1>17 DEF DropLocals, At, Goto, OwnsTap
  <2> QED
    BY <1>17, <2>1 DEF DropLocals, DropTap
<1>18. CASE KillVmm(s)
  BY <1>18, <1>0 DEF KillVmm, At, Goto, Take
<1>19. CASE DeleteCgroup(s)
  <2>1. pc[s] = "rm_cgroup" /\ ("cgroup" \in ctx[s] => cgroup[IdOf[s]] = s)
    BY <1>19 DEF DeleteCgroup, At, OwnsCgroup
  <2> QED
    BY <1>19, <2>1 DEF DeleteCgroup, Forward
<1>20. CASE ReleaseIp(s)
  BY <1>20, <1>0 DEF ReleaseIp, At, Goto, Take
<1>21. CASE RemoveDm(s)
  <2>1. pc[s] = "dm_remove" /\ ("snapshot" \in ctx[s] => dm[IdOf[s]].by = s)
    BY <1>21 DEF RemoveDm, At, OwnsDisk, Mapped
  <2> QED
    BY <1>21, <2>1 DEF RemoveDm, Forward
<1>22. CASE DeleteThinId(s)
  <2>1. pc[s] = "dm_delete" /\ pool[dev[s]] = s
    BY <1>22 DEF DeleteThinId, At, OwnsDisk, HasThinId
  <2> QED
    BY <1>22, <2>1 DEF DeleteThinId, Forward
<1>23. CASE RemoveJail(s)
  BY <1>23, <1>0 DEF RemoveJail, At, Goto, Take, Warn
<1>24. CASE DropVm(s)
  <2>1. pc'[s] # pc[s] /\ ("tap" \in locals[s] => tap[TapOf[IdOf[s]]] = s)
    BY <1>24 DEF DropVm, At, Goto, OwnsTap
  <2> QED
    BY <1>24, <2>1 DEF DropVm, DropTap
<1>25. CASE VmmListen(s)
  BY <1>25, <1>0 DEF VmmListen
<1>26. CASE VmmServe(s)
  BY <1>26, <1>0 DEF VmmServe
<1>27. CASE VmmExit(s)
  BY <1>27, <1>0 DEF VmmExit
<1> QED
  BY <1>1, <1>2, <1>3, <1>4, <1>5, <1>6, <1>7, <1>8, <1>9, <1>10, <1>11, <1>12, <1>13,
     <1>14, <1>15, <1>16, <1>17, <1>18, <1>19, <1>20, <1>21, <1>22, <1>23, <1>24, <1>25,
     <1>26, <1>27 DEF Step, Provision, CleanUp, Vmm

\* The steps of one launch, and the crash, exit or restart of the orchestrator,
\* never take a thin id, device, TAP or cgroup from another launch under way.
THEOREM LaunchesDoNotInterfere ==
  ASSUME TapNamesDiffer
  PROVE  Spec => OthersKeepTheirs
<1>1. ASSUME TapInv, [Next]_vars, NEW t \in Sessions,
             pc[t] \in Forward \cup {"running"}, pc'[t] = pc[t]
      PROVE  /\ Snapshot(t) \subseteq Snapshot(t)'
             /\ Taps(t) \subseteq Taps(t)'
             /\ Cgroups(t) \subseteq Cgroups(t)'
  <2>1. /\ \A d \in DevIds : pool[d] = t => pool'[d] = t
        /\ \A i \in Ids : dm[i].by = t => dm'[i].by = t
        /\ \A n \in TapNames : tap[n] = t => tap'[n] = t
        /\ \A i \in Ids : cgroup[i] = t => cgroup'[i] = t
    <3>1. DiskTypes /\ LinkTypes /\ ControlTypes /\ RecordTypes /\ ApiTypes
      BY <1>1, TypeParts DEF TapInv, CoreInv
    <3>2. \A u \in Sessions : Recorded(u) /\ InStep(u) /\ OwnsDisk(u) /\ OwnsTap(u) /\ OwnsCgroup(u)
      BY <1>1 DEF TapInv, CoreInv, LaunchInv
    <3>3. ASSUME NEW s \in Sessions, Step(s)
          PROVE  /\ \A d \in DevIds : pool[d] = t => pool'[d] = t
                 /\ \A i \in Ids : dm[i].by = t => dm'[i].by = t
                 /\ \A n \in TapNames : tap[n] = t => tap'[n] = t
                 /\ \A i \in Ids : cgroup[i] = t => cgroup'[i] = t
      <4>1. OneHolder(s, t)
        BY <3>2, LockIsExclusive
      <4> QED
        BY <1>1, <3>1, <3>2, <3>3, <4>1, KeepsStep
    <3>4. CASE Exit \/ Crash \/ Restart \/ UNCHANGED vars
      BY <3>4 DEF Exit, Crash, Restart, vars, host
    <3> QED
      BY <1>1, <3>3, <3>4 DEF Next, Step
  <2>2. Snapshot(t) \subseteq Snapshot(t)'
    BY <2>1 DEF Snapshot
  <2> QED
    BY <2>1, <2>2 DEF Taps, Cgroups
<1>2. TapInv /\ [Next]_vars =>
        [\A t \in Sessions :
          (pc[t] \in Forward \cup {"running"} /\ pc'[t] = pc[t] /\ UNCHANGED <<dev[t], orch>>) =>
              /\ Snapshot(t) \subseteq Snapshot(t)'
              /\ Taps(t) \subseteq Taps(t)'
              /\ Cgroups(t) \subseteq Cgroups(t)']_vars
  BY <1>1
<1> QED
  BY <1>2, TapInvariant, PTL DEF Spec, OthersKeepTheirs
=============================================================================

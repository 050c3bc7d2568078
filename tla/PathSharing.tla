------------------------------ MODULE PathSharing ------------------------------
(***************************************************************************)
(* The commands add-path and remove-path, and the part of the prestart and *)
(* poststop hooks that shares host directories with a container.           *)
(*                                                                         *)
(* A host directory h reaches a container over two mounts on the host,     *)
(*     /.sharedpath/midpath/<id>/<h>   and   /.sharedpath/master/<id>/<h>, *)
(* the second of which propagates to /.sharedpath/<h> in the container,    *)
(* and is bound from there to the path the user asked for.  The two mounts *)
(* are made for the first bind that uses h and released after the last.    *)
(*                                                                         *)
(* A command holds the container lock; the hooks work on mounts and read   *)
(* the configuration without it.  Of the configuration file this module    *)
(* has the binds only; that a kill or an unlocked reader may find the file *)
(* half written, and that the start hook may write it back, is the subject *)
(* of DeviceTools.                                                         *)
(***************************************************************************)
EXTENDS PathConfig, Sequences

CONSTANTS
  Container,        \* containers; a container also names the hook it runs
  Command,          \* processes of the command line tool
  NoOne,            \* the owner of a free lock
  Requests,         \* the command lines considered
  InitialFile,      \* the configurations a container may have at first
  InitialState,     \* the states a container may be in at first
  MaxStarts, MaxCrashes, MaxFaults   \* bounds on the environment

Actor == Command \cup Container

Request ==
  [op: {"add", "remove"}, cid: Container,
   binds: SUBSET [host: HostPath, path: CtrPath, perm: Perm \cup {NoPerm}]]

\* A mount point: not there, an empty directory, or mounted with options.
Point == {"none", "dir"} \cup Perm

ASSUME PathActorsAssumption ==
  /\ Command \cap Container = {}
  /\ NoOne \notin Actor
  /\ Container # {}

ASSUME PathsAssumption ==
  /\ {"none", "dir"} \cap Perm = {}
  /\ HostPath # {} /\ CtrPath # {}
  /\ Requests \subseteq Request
  /\ InitialFile \subseteq {binds \in SUBSET Bind : Loadable(binds)}
  /\ InitialState \subseteq {"stopped", "running"}
  /\ {MaxStarts, MaxCrashes, MaxFaults} \subseteq Nat

VARIABLES
  file,      \* file[c]: the binds in c's device_hook.json
  flock,     \* flock[c]: the holder of c's .device_hook.lock
  st,        \* st[c]: what iSulad is doing with c
  inc,       \* inc[c]: the number of starts of c, which stands for its pid
  mid,       \* mid[c][h]: the mount point of h below midpath/<c>
  master,    \* master[c][h]: the mount point of h below master/<c>
  base,      \* base[c]: does c see master/<c> as its /.sharedpath?
  slave,     \* slave[c]: the directories whose mount has reached /.sharedpath
  guest,     \* guest[c][q]: the mounts at path q in c, the visible one first
  lost,      \* the host directories whose contents have been deleted
  pc,        \* pc[a]: the next step of process a
  job,       \* job[p]: the request of command p and the pid it read
  todo,      \* todo[a]: the binds left to handle
  cur,       \* cur[a]: the bind being handled
  cfg,       \* cfg[a]: the binds in a's memory
  dirty,     \* dirty[a]: are they to be written back?
  err,       \* err[a]: does a end with an error?
  disturbed, \* disturbed[c]: has something happened that nothing puts right?
  crashes, faults   \* how often the environment has struck

mountVars == <<mid, master, base, slave, guest, lost>>
ctrVars   == <<st, inc>>
memVars   == <<todo, cur, cfg, dirty>>
envVars   == <<crashes, faults>>

vars == <<file, flock, ctrVars, mountVars, pc, job, memVars, err, disturbed, envVars>>

-----------------------------------------------------------------------------
CommandStep == {"idle", "lock", "each", "mid", "master", "bind", "unbind",
                "unmid", "unmaster", "flush", "done"}

HookStep == {"idle", "read", "share", "each", "mid", "master", "bind", "unmid",
             "unmaster", "rmmid", "rmmaster", "abort", "done"}

\* A mount in a container: directory host, or an empty directory that stands
\* where host should be mounted; half made, if its remounting read only or the
\* setting of its propagation has failed.
Shown == [host: HostPath, empty: BOOLEAN, half: BOOLEAN]

Made(h) == [host |-> h, empty |-> FALSE, half |-> FALSE]

NoBind == [host |-> CHOOSE h \in HostPath : TRUE, path |-> CHOOSE q \in CtrPath : TRUE,
           perm |-> DefaultPerm]

NoJob(c) == [req |-> [op |-> "add", cid |-> c, binds |-> {}], pid |-> 0]

ContainersTypeOK ==
  /\ file \in [Container -> SUBSET Bind]
  /\ flock \in [Container -> Command \cup {NoOne}]
  /\ st \in [Container -> {"stopped", "creating", "running", "stopping"}]
  /\ inc \in [Container -> Nat]
  /\ disturbed \in [Container -> BOOLEAN]
  /\ crashes \in Nat /\ faults \in Nat

MountsTypeOK ==
  /\ mid \in [Container -> [HostPath -> Point]]
  /\ master \in [Container -> [HostPath -> Point]]
  /\ base \in [Container -> BOOLEAN]
  /\ slave \in [Container -> SUBSET HostPath]
  /\ guest \in [Container -> [CtrPath -> Seq(Shown)]]
  /\ lost \in SUBSET HostPath

StepsTypeOK ==
  /\ pc \in [Actor -> CommandStep \cup HookStep]
  /\ \A p \in Command : pc[p] \in CommandStep
  /\ \A c \in Container : pc[c] \in HookStep

ProcessesTypeOK ==
  /\ job \in [Command -> [req: Request, pid: Nat]]
  /\ todo \in [Actor -> SUBSET Bind] /\ cur \in [Actor -> Bind]
  /\ cfg \in [Actor -> SUBSET Bind] /\ dirty \in [Actor -> BOOLEAN]
  /\ err \in [Actor -> BOOLEAN]

\* The types of all variables.
PathTypeOK == ContainersTypeOK /\ MountsTypeOK /\ StepsTypeOK /\ ProcessesTypeOK

\* A container that runs at first has been started with its configuration.
Mounts(binds) ==
  [h \in HostPath |->
     IF \E b \in binds : b.host = h
     THEN (CHOOSE b \in binds : b.host = h).perm ELSE "none"]

Binds(binds) ==
  [q \in CtrPath |->
     IF \E b \in binds : b.path = q
     THEN <<Made((CHOOSE b \in binds : b.path = q).host)>>
     ELSE <<>>]

Init ==
  LET up(c) == IF st[c] = "running" THEN file[c] ELSE {}
  IN  /\ file \in [Container -> InitialFile]
      /\ st \in [Container -> InitialState]
      /\ flock = [c \in Container |-> NoOne]
      /\ inc = [c \in Container |-> IF st[c] = "running" THEN 1 ELSE 0]
      /\ mid = [c \in Container |-> Mounts(up(c))]
      /\ master = [c \in Container |-> Mounts(up(c))]
      /\ base = [c \in Container |-> st[c] = "running"]
      /\ slave = [c \in Container |-> {b.host : b \in up(c)}]
      /\ guest = [c \in Container |-> Binds(up(c))]
      /\ lost = {}
      /\ pc = [a \in Actor |-> "idle"]
      /\ job = [p \in Command |-> NoJob(CHOOSE c \in Container : TRUE)]
      /\ todo = [a \in Actor |-> {}] /\ cur = [a \in Actor |-> NoBind]
      /\ cfg = [a \in Actor |-> {}] /\ dirty = [a \in Actor |-> FALSE]
      /\ err = [a \in Actor |-> FALSE]
      /\ disturbed = [c \in Container |-> FALSE]
      /\ crashes = 0 /\ faults = 0

-----------------------------------------------------------------------------
(***************************************************************************)
(* Helpers                                                                 *)
(***************************************************************************)
Cid(a) == IF a \in Container THEN a ELSE job[a].req.cid

Op(p) == job[p].req.op

\* CheckPidExist, for the pid that container.New read.
Alive(p) ==
  LET c == Cid(p)
  IN  job[p].pid > 0 /\ job[p].pid = inc[c] /\ st[c] \in {"creating", "running"}

\* A process can be run in the namespaces of a's container.
CanEnter(a) == a \in Command => Alive(a)

\* iSulad holds the container's own lock while it starts or stops it.
Inspectable(c) == st[c] \in {"stopped", "running"}

Busy(p) == pc[p] \notin {"idle", "done"}

\* Mutant: the container lock is shared.
CommandsShare(p) == TRUE

CanLock(p) == flock[Cid(p)] = NoOne

\* Mutant: a return on an error that forgets the lock.
KeptOnError(p) == IF err[p] THEN flock ELSE [flock EXCEPT ![Cid(p)] = NoOne]

\* The deferred Unlock.
Unlocked(p) == [flock EXCEPT ![Cid(p)] = NoOne]

\* A call that fails for a reason outside the model.
Fault == faults < MaxFaults /\ faults' = faults + 1
NoFault == UNCHANGED faults

Goto(a, l) == pc' = [pc EXCEPT ![a] = l]
Fail(a) == err' = [err EXCEPT ![a] = TRUE]

Take(a, b) ==
  /\ b \in todo[a]
  /\ todo' = [todo EXCEPT ![a] = @ \ {b}]

Record(p, binds) ==
  /\ cfg' = [cfg EXCEPT ![p] = binds]
  /\ dirty' = [dirty EXCEPT ![p] = TRUE]

\* The process is gone and its memory with it.
Forget(a) ==
  /\ todo' = [todo EXCEPT ![a] = {}]
  /\ cur' = [cur EXCEPT ![a] = NoBind]
  /\ cfg' = [cfg EXCEPT ![a] = {}]
  /\ dirty' = [dirty EXCEPT ![a] = FALSE]

Disturb(c, happened) == disturbed' = [disturbed EXCEPT ![c] = @ \/ happened]

-----------------------------------------------------------------------------
(***************************************************************************)
(* The commands                                                            *)
(***************************************************************************)
\* container.New reads the pid, and getBinds parses the command line, without
\* a lock.
Begin(p, r) ==
  /\ pc[p] = "idle"
  /\ Inspectable(r.cid)
  /\ job' = [job EXCEPT ![p] =
               [req |-> r, pid |-> IF st[r.cid] = "running" THEN inc[r.cid] ELSE 0]]
  /\ todo' = [todo EXCEPT ![p] = {Parsed(b) : b \in r.binds}]
  /\ Goto(p, "lock")
  /\ UNCHANGED <<file, flock, ctrVars, mountVars, cur, cfg, dirty, err, disturbed, envVars>>

\* c.Lock, NewContainerConfig and, for add-path, CheckPathNum.
LockAndLoad(p) ==
  LET binds == file[Cid(p)]
  IN  /\ pc[p] = "lock"
      /\ CanLock(p)
      /\ IF ~ Loadable(binds) \/ (Op(p) = "add" /\ LimitReached(binds))
         THEN Goto(p, "done") /\ Fail(p) /\ Forget(p) /\ UNCHANGED flock
         ELSE /\ flock' = [flock EXCEPT ![Cid(p)] = p]
              /\ cfg' = [cfg EXCEPT ![p] = binds]
              /\ Goto(p, "each")
              /\ UNCHANGED <<todo, cur, dirty, err>>
      /\ UNCHANGED <<file, ctrVars, mountVars, job, disturbed, envVars>>

\* AddPath returns when UpdateBind refuses a bind; the earlier ones stay.
RefuseBind(p, b) ==
  /\ pc[p] = "each" /\ Op(p) = "add"
  /\ Take(p, b)
  /\ Refused(cfg[p], b)
  /\ Fail(p) /\ Goto(p, "flush")
  /\ UNCHANGED <<file, flock, ctrVars, mountVars, job, cur, cfg, dirty, disturbed, envVars>>

\* The bind is recorded; if the container of the pid that was read is there,
\* the host path is prepared for its first user, and the bind mounted.
RecordBind(p, b) ==
  /\ pc[p] = "each" /\ Op(p) = "add"
  /\ Take(p, b)
  /\ ~ Refused(cfg[p], b)
  /\ Record(p, cfg[p] \cup {b})
  /\ IF Alive(p)
     THEN /\ cur' = [cur EXCEPT ![p] = b]
          /\ Goto(p, IF HostPathExists(cfg[p], b) THEN "bind" ELSE "mid")
     ELSE UNCHANGED <<cur, pc>>
  /\ UNCHANGED <<file, flock, ctrVars, mountVars, job, err, disturbed, envVars>>

\* RemovePath reports a bind that is not configured and goes on.
NotConfigured(p, b) ==
  /\ pc[p] = "each" /\ Op(p) = "remove"
  /\ Take(p, b)
  /\ GetBindInConfig(cfg[p], b) = {}
  /\ Fail(p)
  /\ UNCHANGED <<file, flock, ctrVars, mountVars, pc, job, cur, cfg, dirty,
                 disturbed, envVars>>

Unrecord(p, b) ==
  /\ pc[p] = "each" /\ Op(p) = "remove"
  /\ Take(p, b)
  /\ \E e \in GetBindInConfig(cfg[p], b) :
        IF Alive(p)
        THEN cur' = [cur EXCEPT ![p] = e] /\ Goto(p, "unbind")
        ELSE UNCHANGED <<cur, pc>>
  /\ Record(p, Without(cfg[p], b))
  /\ UNCHANGED <<file, flock, ctrVars, mountVars, job, err, disturbed, envVars>>

\* doRemoveBind unmounts what is at the path; the last user of a host path
\* takes its mounts away.
RemoveBind(p) ==
  LET c == Cid(p)  q == cur[p].path
  IN  /\ pc[p] = "unbind"
      /\ Alive(p) /\ guest[c][q] # <<>>
      /\ guest' = [guest EXCEPT ![c][q] = Tail(@)]
      /\ Goto(p, IF LastUser(cfg[p], cur[p]) THEN "unmid" ELSE "each")
      /\ UNCHANGED <<file, flock, ctrVars, mid, master, base, slave, lost, job, memVars,
                     err, disturbed, envVars>>

\* Mutant: the bind is not put back.
ForgetBind(p) == UNCHANGED <<cfg, dirty>>

RestoreBind(p) == Record(p, cfg[p] \cup {cur[p]})

RemoveBindFails(p) ==
  /\ pc[p] = "unbind"
  /\ IF Alive(p) /\ guest[Cid(p)][cur[p].path] # <<>> THEN Fault ELSE NoFault
  /\ RestoreBind(p)
  /\ Fail(p) /\ Goto(p, "each")
  /\ UNCHANGED <<file, flock, ctrVars, mountVars, job, todo, cur, disturbed, crashes>>

EachDone(p) ==
  /\ pc[p] = "each" /\ p \in Command /\ todo[p] = {}
  /\ Goto(p, "flush")
  /\ UNCHANGED <<file, flock, ctrVars, mountVars, job, memVars, err, disturbed, envVars>>

\* The deferred Flush and Unlock.
Flush(p) ==
  /\ pc[p] = "flush"
  /\ file' = IF dirty[p] THEN [file EXCEPT ![Cid(p)] = cfg[p]] ELSE file
  /\ flock' = Unlocked(p)
  /\ Goto(p, "done") /\ Forget(p)
  /\ UNCHANGED <<ctrVars, mountVars, job, err, disturbed, envVars>>

-----------------------------------------------------------------------------
(***************************************************************************)
(* utils/transfer.go and the work in the container, for commands and hooks *)
(***************************************************************************)
Mounted(point) == point \in Perm

\* parepareMountpoint: a directory is made and mounted, unless it is mounted.
Prepared(point, perm) == IF Mounted(point) THEN point ELSE perm

\* What a failure may leave: nothing, the directory, or the mount before it was
\* remounted read only, which is writable.
HalfPrepared(point) ==
  IF Mounted(point) THEN {point} ELSE {point, "dir"} \cup Writable

\* A mount that is made below master/<c> reaches the container, if its
\* /.sharedpath is there; SharePath brings the earlier ones.
Propagate(c, h, point) ==
  slave' = IF base[c] /\ ~ Mounted(master[c][h]) /\ Mounted(point)
           THEN [slave EXCEPT ![c] = @ \cup {h}] ELSE slave

PrepareMid(a) ==
  LET c == Cid(a)  h == cur[a].host
  IN  /\ pc[a] = "mid"
      /\ mid' = [mid EXCEPT ![c][h] = Prepared(@, cur[a].perm)]
      /\ Goto(a, "master")
      /\ UNCHANGED <<file, flock, ctrVars, master, base, slave, guest, lost, job, memVars,
                     err, disturbed, envVars>>

PrepareMaster(a) ==
  LET c == Cid(a)  h == cur[a].host  new == Prepared(master[c][h], cur[a].perm)
  IN  /\ pc[a] = "master"
      /\ master' = [master EXCEPT ![c][h] = new]
      /\ Propagate(c, h, new)
      /\ Goto(a, "bind")
      /\ UNCHANGED <<file, flock, ctrVars, mid, base, guest, lost, job, memVars, err,
                     disturbed, envVars>>

\* The roll back of AddPath; a host path that another bind uses stays mounted.
RollBack(p) ==
  /\ Record(p, Without(cfg[p], cur[p]))
  /\ Fail(p)
  /\ Goto(p, IF LastUser(cfg[p], cur[p]) THEN "unmid" ELSE "flush")

\* A command rolls back; the start hook goes on to AddBind all the same.
PrepareFails(a) ==
  LET c == Cid(a)  h == cur[a].host
  IN  /\ pc[a] \in {"mid", "master"}
      /\ Fault
      /\ \/ /\ pc[a] = "mid"
            /\ \E new \in HalfPrepared(mid[c][h]) : mid' = [mid EXCEPT ![c][h] = new]
            /\ UNCHANGED <<master, slave>>
         \/ /\ pc[a] = "master"
            /\ \E new \in HalfPrepared(master[c][h]) :
                  master' = [master EXCEPT ![c][h] = new] /\ Propagate(c, h, new)
            /\ UNCHANGED mid
      /\ IF a \in Command
         THEN RollBack(a) /\ UNCHANGED disturbed
         ELSE Goto(a, "bind") /\ Disturb(c, TRUE) /\ UNCHANGED <<cfg, dirty, err>>
      /\ UNCHANGED <<file, flock, ctrVars, base, guest, lost, job, todo, cur, crashes>>

\* What doAddBind binds: the directory below /.sharedpath, mounted or not.
Source(c, h, half) == [host |-> h, empty |-> h \notin slave[c], half |-> half]

HasSource(c, h) == base[c] /\ master[c][h] # "none"

PushBind(c, b, half) ==
  guest' = [guest EXCEPT ![c][b.path] = <<Source(c, b.host, half)>> \o @]

AddBind(a) ==
  LET c == Cid(a)
  IN  /\ pc[a] = "bind"
      /\ CanEnter(a) /\ HasSource(c, cur[a].host)
      /\ PushBind(c, cur[a], FALSE)
      /\ Goto(a, "each")
      /\ UNCHANGED <<file, flock, ctrVars, mid, master, base, slave, lost, job, memVars,
                     err, disturbed, envVars>>

\* A failure may leave the mount: its remounting read only and its propagation
\* come second, and no roll back unmounts it.
AddBindFails(a) ==
  LET c == Cid(a)
  IN  /\ pc[a] = "bind"
      /\ IF CanEnter(a) /\ HasSource(c, cur[a].host)
         THEN Fault /\ (PushBind(c, cur[a], TRUE) \/ UNCHANGED guest)
         ELSE NoFault /\ UNCHANGED guest
      /\ IF a \in Command
         THEN RollBack(a) /\ UNCHANGED disturbed
         ELSE Goto(a, "each") /\ Disturb(c, TRUE) /\ UNCHANGED <<cfg, dirty, err>>
      /\ UNCHANGED <<file, flock, ctrVars, mid, master, base, slave, lost, job, todo, cur,
                     crashes>>

\* Mutant: the mount on midpath is forgotten.
MidKept(point) == point

\* releaseMountpoint: unmount it if it is mounted, remove the directory.
Released(point) == "none"

\* RemoveTransferPath.
ReleaseMid(a) ==
  /\ pc[a] = "unmid"
  /\ mid' = [mid EXCEPT ![Cid(a)][cur[a].host] = Released(@)]
  /\ Goto(a, "unmaster")
  /\ UNCHANGED <<file, flock, ctrVars, master, base, slave, guest, lost, job, memVars, err,
                 disturbed, envVars>>

\* After it AddPath, which is rolling back, returns; the others go on.
ReleaseMaster(a) ==
  LET c == Cid(a)  h == cur[a].host
  IN  /\ pc[a] = "unmaster"
      /\ master' = [master EXCEPT ![c][h] = "none"]
      /\ slave' = [slave EXCEPT ![c] = @ \ {h}]
      /\ Goto(a, IF a \in Command /\ Op(a) = "add" THEN "flush" ELSE "each")
      /\ UNCHANGED <<file, flock, ctrVars, mid, base, guest, lost, job, memVars, err,
                     disturbed, envVars>>

-----------------------------------------------------------------------------
(***************************************************************************)
(* The life of a container and its hooks                                   *)
(***************************************************************************)
BusyOn(c) == \E p \in Command : Busy(p) /\ Cid(p) = c

\* iSulad creates the container and runs the prestart hook.
StartContainer(c) ==
  /\ st[c] = "stopped" /\ pc[c] = "idle"
  /\ inc[c] < MaxStarts
  /\ st' = [st EXCEPT ![c] = "creating"]
  /\ inc' = [inc EXCEPT ![c] = @ + 1]
  /\ Goto(c, "read")
  /\ err' = [err EXCEPT ![c] = FALSE]
  /\ Disturb(c, BusyOn(c))
  /\ UNCHANGED <<file, flock, mountVars, job, memVars, envVars>>

\* The mounts in the container go with its mount namespace.
NamespaceGone(c) ==
  /\ base' = [base EXCEPT ![c] = FALSE]
  /\ slave' = [slave EXCEPT ![c] = {}]
  /\ guest' = [guest EXCEPT ![c] = [q \in CtrPath |-> <<>>]]
  /\ UNCHANGED <<mid, master, lost>>

\* The container exits and the poststop hook runs.
StopContainer(c) ==
  /\ st[c] = "running"
  /\ st' = [st EXCEPT ![c] = "stopping"]
  /\ NamespaceGone(c)
  /\ Goto(c, "read")
  /\ Disturb(c, BusyOn(c))
  /\ UNCHANGED <<file, flock, inc, job, memVars, err, envVars>>

\* prepareHookData, without the lock.  A configuration that cannot be loaded
\* ends the hook, with exit status 0.
ReadConfig(c) ==
  /\ pc[c] = "read"
  /\ IF Loadable(file[c])
     THEN /\ cfg' = [cfg EXCEPT ![c] = file[c]]
          /\ todo' = [todo EXCEPT ![c] = file[c]]
          /\ Goto(c, IF st[c] = "creating" THEN "share" ELSE "each")
     ELSE Goto(c, "done") /\ UNCHANGED <<cfg, todo>>
  /\ UNCHANGED <<file, flock, ctrVars, mountVars, job, cur, dirty, err, disturbed, envVars>>

\* What a bind of a directory takes along: doAddTransferBase mounts with rslave,
\* which makes the bind a recursive one (MS_REC).
MountedBelow(points) == {h \in HostPath : Mounted(points[h])}

\* SharePath makes master/<c> and binds it to /.sharedpath in the container.
SharePath(c) ==
  /\ pc[c] = "share"
  /\ base' = [base EXCEPT ![c] = TRUE]
  /\ slave' = [slave EXCEPT ![c] = MountedBelow(master[c])]
  /\ Goto(c, "each")
  /\ UNCHANGED <<file, flock, ctrVars, mid, master, guest, lost, job, memVars, err,
                 disturbed, envVars>>

\* SharePath, or a part of the hook before or after AddBinds, fails the start.
HookFails(c) ==
  /\ \/ pc[c] = "share"
     \/ pc[c] = "each" /\ st[c] = "creating" /\ todo[c] \in {cfg[c], {}}
  /\ c \in Container
  /\ Fault
  /\ Fail(c) /\ Goto(c, "abort") /\ Disturb(c, TRUE)
  /\ UNCHANGED <<file, flock, ctrVars, mountVars, job, memVars, crashes>>

\* AddBinds prepares and mounts, RemoveSharedPath releases, bind after bind.
HookBind(c, b) ==
  /\ pc[c] = "each" /\ c \in Container
  /\ Take(c, b)
  /\ cur' = [cur EXCEPT ![c] = b]
  /\ Goto(c, IF st[c] = "creating" THEN "mid" ELSE "unmid")
  /\ UNCHANGED <<file, flock, ctrVars, mountVars, job, cfg, dirty, err, disturbed, envVars>>

\* stringToBind fails: the bind is skipped.
HookSkips(c, b) ==
  /\ pc[c] = "each" /\ c \in Container
  /\ Take(c, b)
  /\ Fault
  /\ Disturb(c, TRUE)
  /\ UNCHANGED <<file, flock, ctrVars, mountVars, pc, job, cur, cfg, dirty, err, crashes>>

HookBindsDone(c) ==
  /\ pc[c] = "each" /\ c \in Container /\ todo[c] = {}
  /\ Goto(c, IF st[c] = "creating" THEN "done" ELSE "rmmid")
  /\ UNCHANGED <<file, flock, ctrVars, mountVars, job, memVars, err, disturbed, envVars>>

\* os.RemoveAll of a directory of mount points.  What is mounted in it cannot
\* be removed itself, but its contents can, unless it is mounted read only.
RemoveAll(points) == [h \in HostPath |-> IF Mounted(points[h]) THEN points[h] ELSE "none"]

DeletedThrough(points) == {h \in HostPath : points[h] \in Writable}

\* RemoveContainerSpecPath, its two directories one after the other.
RemoveMidDir(c) ==
  /\ pc[c] = "rmmid"
  /\ lost' = lost \cup DeletedThrough(mid[c])
  /\ mid' = [mid EXCEPT ![c] = RemoveAll(@)]
  /\ Goto(c, "rmmaster")
  /\ UNCHANGED <<file, flock, ctrVars, master, base, slave, guest, job, memVars, err,
                 disturbed, envVars>>

RemoveSpecDir(c) ==
  /\ pc[c] = "rmmaster"
  /\ lost' = lost \cup DeletedThrough(master[c])
  /\ master' = [master EXCEPT ![c] = RemoveAll(@)]
  /\ Goto(c, "done")
  /\ UNCHANGED <<file, flock, ctrVars, mid, base, slave, guest, job, memVars, err,
                 disturbed, envVars>>

\* The prestart hook failed: the container is taken down, with or without its
\* poststop hook.
AbortStart(c) ==
  /\ pc[c] = "abort"
  /\ st' = [st EXCEPT ![c] = "stopping"]
  /\ NamespaceGone(c)
  /\ \E l \in {"read", "done"} : Goto(c, l)
  /\ Forget(c)
  /\ UNCHANGED <<file, flock, inc, job, err, disturbed, envVars>>

\* The hook has returned.
HookReturns(c) ==
  /\ pc[c] = "done" /\ c \in Container
  /\ st' = [st EXCEPT ![c] = IF @ = "creating" THEN "running" ELSE "stopped"]
  /\ Goto(c, "idle")
  /\ Forget(c)
  /\ UNCHANGED <<file, flock, inc, mountVars, job, err, disturbed, envVars>>

\* The process is killed, and the kernel releases its lock.
Crash(a) ==
  /\ pc[a] \notin {"idle", "abort", "done"}
  /\ crashes < MaxCrashes
  /\ crashes' = crashes + 1
  /\ flock' = [c \in Container |-> IF flock[c] = a THEN NoOne ELSE flock[c]]
  /\ Fail(a)
  /\ Goto(a, IF a \in Container /\ st[a] = "creating" THEN "abort" ELSE "done")
  /\ Forget(a)
  /\ Disturb(Cid(a), TRUE)
  /\ UNCHANGED <<file, ctrVars, mountVars, job, faults>>

-----------------------------------------------------------------------------
MountStep(a) ==
  \/ PrepareMid(a) \/ PrepareMaster(a) \/ PrepareFails(a)
  \/ AddBind(a) \/ AddBindFails(a)
  \/ ReleaseMid(a) \/ ReleaseMaster(a)

CommandNext(p) ==
  \/ LockAndLoad(p)
  \/ \E b \in todo[p] : \/ RefuseBind(p, b) \/ RecordBind(p, b)
                        \/ NotConfigured(p, b) \/ Unrecord(p, b)
  \/ RemoveBind(p) \/ RemoveBindFails(p)
  \/ MountStep(p)
  \/ EachDone(p) \/ Flush(p)

HookNext(c) ==
  \/ ReadConfig(c) \/ SharePath(c) \/ HookFails(c)
  \/ \E b \in todo[c] : HookBind(c, b) \/ HookSkips(c, b)
  \/ MountStep(c)
  \/ HookBindsDone(c) \/ RemoveMidDir(c) \/ RemoveSpecDir(c)
  \/ AbortStart(c) \/ HookReturns(c)

Environment ==
  \/ \E p \in Command, r \in Requests : Begin(p, r)
  \/ \E c \in Container : StartContainer(c) \/ StopContainer(c)
  \/ \E a \in Actor : Crash(a)

Next ==
  \/ \E p \in Command : CommandNext(p)
  \/ \E c \in Container : HookNext(c)
  \/ Environment

Spec == Init /\ [][Next]_vars

\* Every process that has been started runs on.  Nobody has to start one.
Fairness ==
  /\ \A p \in Command : WF_vars(CommandNext(p))
  /\ \A c \in Container : WF_vars(HookNext(c))

FairSpec == Spec /\ Fairness

-----------------------------------------------------------------------------
(***************************************************************************)
(* Properties                                                              *)
(***************************************************************************)
\* What is in the file can be loaded again, and so can what a process has in
\* memory (bindsInfo.add): otherwise every later command on the container
\* fails, and every start goes on without its devices, paths and interfaces.
FilesLoad ==
  /\ \A c \in Container : Loadable(file[c])
  /\ \A a \in Actor : Loadable(cfg[a])

\* Nobody works on c.
Quiet(c) == pc[c] = "idle" /\ ~ BusyOn(c)

Used(c) == {b.host : b \in file[c]}

HalfMade(mounts) == \A i \in 1..Len(mounts) : mounts[i].half

\* A path shows directory h, and nothing else lies below it.
Shows(mounts, h) == mounts # <<>> /\ Head(mounts) = Made(h) /\ HalfMade(Tail(mounts))
\* After starts, stops and commands that did not overlap, the configuration, the
\* mounts on the host and the mounts in a running container agree, whichever
\* calls of the commands failed and were rolled back (AddPath, RemovePath,
\* UpdateBind's use counts).  The two mounts of a directory are there, with its
\* options, exactly while a bind uses it.  Each configured path shows its host
\* directory, and nothing else is mounted in the container but what a failed
\* doAddBind has half made: no roll back unmounts it, so that it is still there,
\* at a path that is not configured or below the bind that is.
PathsAgree ==
  \A c \in Container : st[c] = "running" /\ Quiet(c) /\ ~ disturbed[c] =>
    /\ \A b \in file[c] : mid[c][b.host] = b.perm /\ master[c][b.host] = b.perm
    /\ \A h \in HostPath \ Used(c) : mid[c][h] = "none" /\ master[c][h] = "none"
    /\ \A b \in file[c] : Shows(guest[c][b.path], b.host)
    /\ \A q \in CtrPath : (\A b \in file[c] : b.path # q) => HalfMade(guest[c][q])

\* In the same circumstances the stop hook takes all mounts away, and never
\* deletes what a user has shared (RemoveSharedPath, RemoveContainerSpecPath).
SharedPathsRemoved ==
  \A c \in Container : st[c] = "stopped" /\ Quiet(c) /\ ~ disturbed[c] =>
    \A h \in HostPath : mid[c][h] = "none" /\ master[c][h] = "none"

HostDataKept == (\A c \in Container : ~ disturbed[c]) => lost = {}

\* The directories in use keep their mounts at every moment, also while a
\* command is at work: only the bind in its hands may lack them.
SharedWhileUsed ==
  \A c \in Container : st[c] = "running" /\ ~ disturbed[c] =>
    \A b \in file[c] :
      (\A p \in Command : flock[c] = p => b \in cfg[p] \ {cur[p]}) =>
        Mounted(mid[c][b.host]) /\ Mounted(master[c][b.host]) /\ b.host \in slave[c]

\* The commands are the atomic commands of PathStore, in spite of the mounts
\* that fail, the containers that start and stop, and the commands killed.
Store ==
  INSTANCE PathStore WITH
    Request <- Requests \cup {NoJob(CHOOSE c \in Container : TRUE).req},
    store   <- file,
    phase   <- [p \in Command |-> IF Busy(p) THEN "pending" ELSE pc[p]],
    order   <- [p \in Command |-> job[p].req],
    ok      <- [p \in Command |-> pc[p] = "done" /\ ~ err[p]]

PathStoreRefined == Store!StoreSpec

\* Every command comes to an end, and so does every start and every stop.
PathCommandsFinish ==
  /\ \A p \in Command : pc[p] # "idle" ~> pc[p] = "done"
  /\ \A c \in Container : pc[c] # "idle" ~> pc[c] = "idle"

-----------------------------------------------------------------------------
(***************************************************************************)
(* What comments say and the code does not do                               *)
(***************************************************************************)
\* hooks/syscontainer-hooks/poststop.go:124, "RemoveSharedPath will remove
\* shared path after container stop": once it is stopped and nobody works on
\* it, no mount of the container is left.
SharedPathsGone ==
  \A c \in Container : st[c] = "stopped" /\ Quiet(c) =>
    \A h \in HostPath : ~ Mounted(mid[c][h]) /\ ~ Mounted(master[c][h])

=============================================================================

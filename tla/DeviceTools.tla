------------------------------ MODULE DeviceTools ------------------------------
(***************************************************************************)
(* The device side of syscontainer-tools: the commands add-device,         *)
(* remove-device and update-device, each a process of its own, and the     *)
(* prestart and poststop hooks that iSulad runs when a container starts    *)
(* and after it stopped.                                                   *)
(*                                                                         *)
(* They share, per container, the configuration file and the file lock     *)
(* beside it; and, over all containers, the udev rules file and its lock.  *)
(* A command holds the container lock from before it loads the             *)
(* configuration until it has written it back; the hooks load it without   *)
(* the lock and take the lock only to write.                               *)
(*                                                                         *)
(* A process may be killed at any step, a call into the kernel may fail,   *)
(* and a host device may disappear or come back under another number.      *)
(***************************************************************************)
EXTENDS HookConfig

CONSTANTS
  Container,        \* containers; a container also names the hook it runs
  Command,          \* processes of the command line tool
  NoOne,            \* the owner of a free lock
  Kind,             \* Kind[h]: "char", "disk", "part" or "lvm"
  BaseName,         \* BaseName[n]: "/dev/" joined with the last element of n
  PartPath,         \* PartPath[p][h]: where partition h of a disk at p appears
  InitialNumber,    \* InitialNumber[h]: h's device number at first, 0 if absent
  ImageNode,        \* ImageNode[p]: the node the image itself has at p, or 0
  InitialState,     \* the states a container may be in at first
  Requests,         \* the command lines considered
  BlockingInspect,  \* does "isula inspect" wait while a container starts/stops?
  Numbers,          \* the numbers a device may come back with
  MaxStarts, MaxCrashes, MaxFaults, MaxPlugs   \* bounds on the environment

Actor == Command \cup Container

Request ==
  [op: {"add", "remove", "update"}, cid: Container, devs: SUBSET Argument,
   limits: SUBSET [path: HostDev, val: Value],
   follow: BOOLEAN, force: BOOLEAN, cfgOnly: BOOLEAN]

ASSUME ActorsAssumption ==
  /\ Command \cap Container = {}
  /\ NoOne \notin Actor
  /\ Container # {}

ASSUME DevicesAssumption ==
  /\ Kind \in [HostDev -> {"char", "disk", "part", "lvm"}]
  /\ BaseName \in [DevPath -> DevPath]
  /\ \A n \in DevPath : BaseName[BaseName[n]] = BaseName[n]
  /\ PartPath \in [DevPath -> [HostDev -> DevPath]]
  /\ InitialNumber \in [HostDev -> Nat]
  /\ ImageNode \in [DevPath -> Nat]
  /\ Numbers \subseteq Nat

ASSUME EnvironmentAssumption ==
  /\ InitialState \subseteq {"stopped", "running"} /\ InitialState # {}
  /\ Requests \subseteq Request
  /\ BlockingInspect \in BOOLEAN
  /\ {MaxStarts, MaxCrashes, MaxFaults, MaxPlugs} \subseteq Nat

\* What add-device and update-device parse before they look at the container
\* must be a device on the host: an add names it, a limit names one.
ASSUME RequestsAssumption ==
  \A r \in Requests :
     /\ r.op = "add" => \A d \in r.devs : d.host \in HostDev
     /\ r.op = "remove" => \A d \in r.devs : d.host # Unset \/ d.path # Unset
     /\ (r.op = "update") = (r.devs = {})

\* Command lines whose arguments name different devices; with --follow-partition
\* one argument.  What a second removal of the same device does is left out.
ASSUME ArgumentsAssumption ==
  \A r \in Requests : \A d, e \in r.devs : d # e =>
     /\ ~ r.follow
     /\ \/ Unset \notin {d.host, e.host} /\ d.host # e.host
        \/ Unset \notin {d.path, e.path} /\ d.path # e.path

VARIABLES
  file,       \* file[c]: the last content written to c's device_hook.json
  torn,       \* torn[c]: the file has been truncated and not been completed
  rules,      \* the rules in 99-syscontainer-tools.rules
  rulesTorn,  \* that file has been truncated and not been completed
  flock,      \* flock[c]: the holder of c's .device_hook.lock
  udevLock,   \* the holder of udevd_config_locker
  st,         \* st[c]: what iSulad is doing with c
  inc,        \* inc[c]: the number of starts of c, which stands for its pid
  nodes,      \* nodes[c][p]: the number of the device node at p in c, or 0
  allowed,    \* allowed[c]: the numbers c's devices cgroup allows
  blkio,      \* blkio[c]: the limits in force in c's blkio cgroup
  left,       \* history: left[c] is what calls that failed have left behind
  hostNum,    \* hostNum[h]: the number of host device h, 0 if it is absent
  pc,         \* pc[a]: the next step of process a
  job,        \* job[p]: the request of command p and the pid it read
  todo,       \* todo[a]: the devices left to handle
  cur,        \* cur[a]: the device being handled
  quota,      \* quota[p]: the limits left to set
  cfg,        \* cfg[a]: the configuration in a's memory
  dirty,      \* dirty[a]: is it to be written back?
  rcopy,      \* rcopy[a]: the rules in a's memory
  rdirty,     \* rdirty[a]: are they to be written back?
  err,        \* err[a]: does a end with an error?
  crashes, faults, plugs   \* how often the environment has struck

fileVars == <<file, torn>>
ruleVars == <<rules, rulesTorn>>
lockVars == <<flock, udevLock>>
ctrVars  == <<st, inc, nodes, allowed, blkio, left>>
procVars == <<pc, job, todo, cur, quota, cfg, dirty, rcopy, rdirty, err>>
envVars  == <<hostNum, crashes, faults, plugs>>

vars == <<fileVars, ruleVars, lockVars, ctrVars, procVars, envVars>>

-----------------------------------------------------------------------------
Rule == [name: DevPath, path: DevPath, cid: Container]

\* What is in a container, its cgroups or the rules, or is missing there, for
\* no other reason than that a call of a command failed: nodes that should be
\* gone, permissions, limits in the cgroup, numbers for which a limit is
\* configured though the device is not, and rules that should be there.  The
\* actions write it and none of them reads it.
Leftover ==
  [nodes: SUBSET DevPath, perms: SUBSET Nat, limits: SUBSET [num: Nat, val: Value],
   loose: SUBSET Nat, rules: SUBSET Rule]

NothingLeft == [nodes |-> {}, perms |-> {}, limits |-> {}, loose |-> {}, rules |-> {}]

NoDevice == [host |-> Unset, path |-> Unset, num |-> 0]

NoJob(c) == [req |-> [op |-> "update", cid |-> c, devs |-> {}, limits |-> {},
                      follow |-> FALSE, force |-> FALSE, cfgOnly |-> FALSE],
             pid |-> 0]

CommandStep == {"idle", "resolve", "inspect", "lock", "udev", "each", "mknod",
                "allow", "unlink", "deny", "clear", "quota", "save", "rwrite",
                "flush", "fwrite", "done"}

HookStep == {"idle", "read", "udev", "install", "withdraw", "save", "rwrite",
             "quota", "hlock", "flush", "fwrite", "abort", "done"}

FilesTypeOK ==
  /\ file \in [Container -> Config] /\ torn \in [Container -> BOOLEAN]
  /\ rules \in SUBSET Rule /\ rulesTorn \in BOOLEAN
  /\ flock \in [Container -> Actor \cup {NoOne}] /\ udevLock \in Actor \cup {NoOne}

ContainersTypeOK ==
  /\ st \in [Container -> {"stopped", "creating", "running", "stopping"}]
  /\ inc \in [Container -> Nat]
  /\ nodes \in [Container -> [DevPath -> Nat]]
  /\ allowed \in [Container -> SUBSET Nat]
  /\ blkio \in [Container -> SUBSET [num: Nat, val: Value]]
  /\ left \in [Container -> Leftover]

StepsTypeOK ==
  /\ pc \in [Actor -> CommandStep \cup HookStep]
  /\ \A p \in Command : pc[p] \in CommandStep
  /\ \A c \in Container : pc[c] \in HookStep

ProcessesTypeOK ==
  /\ job \in [Command -> [req: Request, pid: Nat]]
  /\ todo \in [Actor -> SUBSET Device] /\ cur \in [Actor -> Device]
  /\ quota \in [Command -> SUBSET Qos]
  /\ cfg \in [Actor -> Config] /\ dirty \in [Actor -> BOOLEAN]
  /\ rcopy \in [Actor -> SUBSET Rule] /\ rdirty \in [Actor -> BOOLEAN]
  /\ err \in [Actor -> BOOLEAN]

EnvironmentTypeOK ==
  /\ hostNum \in [HostDev -> Nat]
  /\ crashes \in Nat /\ faults \in Nat /\ plugs \in Nat

\* The types of all variables.
TypeOK ==
  FilesTypeOK /\ ContainersTypeOK /\ StepsTypeOK /\ ProcessesTypeOK /\ EnvironmentTypeOK

Init ==
  /\ file = [c \in Container |-> EmptyConfig]
  /\ torn = [c \in Container |-> FALSE]
  /\ rules = {} /\ rulesTorn = FALSE
  /\ flock = [c \in Container |-> NoOne] /\ udevLock = NoOne
  /\ st \in [Container -> InitialState]
  /\ inc = [c \in Container |-> IF st[c] = "running" THEN 1 ELSE 0]
  /\ nodes = [c \in Container |-> ImageNode]
  /\ allowed = [c \in Container |-> {}]
  /\ blkio = [c \in Container |-> {}]
  /\ left = [c \in Container |-> NothingLeft]
  /\ hostNum = InitialNumber
  /\ pc = [a \in Actor |-> "idle"]
  /\ job = [p \in Command |-> NoJob(CHOOSE c \in Container : TRUE)]
  /\ todo = [a \in Actor |-> {}] /\ cur = [a \in Actor |-> NoDevice]
  /\ quota = [p \in Command |-> {}]
  /\ cfg = [a \in Actor |-> EmptyConfig] /\ dirty = [a \in Actor |-> FALSE]
  /\ rcopy = [a \in Actor |-> {}] /\ rdirty = [a \in Actor |-> FALSE]
  /\ err = [a \in Actor |-> FALSE]
  /\ crashes = 0 /\ faults = 0 /\ plugs = 0

-----------------------------------------------------------------------------
(***************************************************************************)
(* Helpers                                                                 *)
(***************************************************************************)
Cid(a) == IF a \in Container THEN a ELSE job[a].req.cid

Op(p) == job[p].req.op

\* CheckPidExist, for the pid that container.New read: the start it belongs to
\* is still the current one.  The kernel does not reuse a pid meanwhile.
Alive(p) ==
  LET c == Cid(p)
  IN  job[p].pid > 0 /\ job[p].pid = inc[c] /\ st[c] \in {"creating", "running"}

\* The container's cgroups are addressed by its id, whichever start they are of.
HasCgroup(c) == st[c] \in {"creating", "running"}

\* iSulad holds the container's own lock while it starts or stops it.
Inspectable(c) == BlockingInspect => st[c] \in {"stopped", "running"}

\* lsblk names the type of a device that exists.
IsDisk(h) == Kind[h] = "disk"
TypeKnown(h) == Kind[h] = "char" \/ hostNum[h] # 0

RuleOf(d, c) == [name |-> d.host, path |-> d.path, cid |-> c]

\* Writing a rule keeps the base name of the device only; loading it puts
\* "/dev" in front again.
Saved(rs) == {[r EXCEPT !.name = BaseName[r.name]] : r \in rs}

\* Mutant: the commands share the container lock, as under LOCK_SH.
CommandsShare(a) == flock[Cid(a)] \in Command \cup {NoOne}

\* The container lock can be taken.
CanLock(a) == flock[Cid(a)] = NoOne

\* Mutant: the hooks do not take the lock of the rules.
HookTakesRules(a) == a \in Container \/ udevLock = NoOne

CanLockRules(a) == udevLock = NoOne

\* Mutant: Flush without looking at the dirty flag.
AlwaysWrites(a) == TRUE

\* Mutant: a return on an error that forgets the lock.
KeptOnError(a) == IF err[a] THEN flock ELSE [flock EXCEPT ![Cid(a)] = NoOne]

\* The deferred Unlock of the container lock, on every way out.
Unlocked(a) == [flock EXCEPT ![Cid(a)] = NoOne]

\* Mutant: the same for the lock of the rules.
RulesKeptOnError(a) == IF err[a] THEN udevLock ELSE NoOne

RulesUnlocked(a) == NoOne

\* Mutant: a configuration that cannot be parsed counts as none.
AnythingGoes(a) == TRUE

\* LoadContainerHookConfig can parse the file.
Readable(a) == ~ torn[Cid(a)]

\* Flush writes only a configuration that has changed.
MustWrite(a) == dirty[a]

\* A call into the kernel or to lsblk that fails for a reason outside the model.
Faults(n) == faults + n <= MaxFaults /\ faults' = faults + n
Fault == Faults(1)
NoFault == UNCHANGED faults

Goto(a, l) == pc' = [pc EXCEPT ![a] = l]

PutNode(c, q, n) == nodes' = [nodes EXCEPT ![c][q] = n]

\* Mutant: doRemoveDevice without the unlink.
KeepNode(c, q) == UNCHANGED nodes

RemoveNode(c, q) == PutNode(c, q, 0)

\* The history of the paths where a failing call has left a node.
NodeLeft(c, q) == left' = [left EXCEPT ![c].nodes = @ \cup {q}]
NodeSettled(c, q) == left' = [left EXCEPT ![c].nodes = @ \ {q}]

Dirtied(a, changed) == dirty' = [dirty EXCEPT ![a] = @ \/ changed]

Fail(a) == err' = [err EXCEPT ![a] = TRUE]

\* The process is gone and its memory with it.
Forget(a) ==
  /\ todo' = [todo EXCEPT ![a] = {}]
  /\ cur' = [cur EXCEPT ![a] = NoDevice]
  /\ cfg' = [cfg EXCEPT ![a] = EmptyConfig]
  /\ dirty' = [dirty EXCEPT ![a] = FALSE]
  /\ rcopy' = [rcopy EXCEPT ![a] = {}]
  /\ rdirty' = [rdirty EXCEPT ![a] = FALSE]
  /\ quota' = IF a \in Command THEN [quota EXCEPT ![a] = {}] ELSE quota

\* A command that gives up before it has changed anything.
GiveUp(p) ==
  /\ Goto(p, "done") /\ Fail(p) /\ Forget(p)
  /\ UNCHANGED <<fileVars, ruleVars, lockVars, ctrVars, envVars, job>>

-----------------------------------------------------------------------------
(***************************************************************************)
(* The commands, up to the loaded configuration                            *)
(***************************************************************************)

\* ParseDevice of the arguments of add-device, with the partitions that
\* --follow-partition adds to a disk; ParseMapping of those of remove-device.
Parsed(r) ==
  LET num(h) == IF r.op = "add" THEN hostNum[h] ELSE 0
      given == {[host |-> d.host, path |-> d.path, num |-> num(d.host)] : d \in r.devs}
      part(d, h) == [host |-> h, num |-> num(h),
                     path |-> IF d.path = Unset THEN Unset ELSE PartPath[d.path][h]]
      parts(d) == {part(d, h) : h \in {h \in HostDev : /\ Parent[h] = d.host
                                                       /\ hostNum[h] # 0
                                                       /\ \A e \in given : e.host # h}}
  IN  IF r.op = "add" /\ r.follow
      THEN given \cup UNION {parts(d) : d \in {d \in given : IsDisk(d.host)}}
      ELSE given

\* The command line is parsed and container.New reads the pid, without a lock.
\* A device that is not on the host ends the command here.
Begin(p, r) ==
  /\ pc[p] = "idle"
  /\ Inspectable(r.cid)
  /\ r.op = "add" => \A d \in r.devs : hostNum[d.host] # 0
  /\ r.op = "add" /\ r.follow => \A d \in r.devs : Kind[d.host] # "char"
  /\ \A l \in r.limits : hostNum[l.path] # 0
  /\ job' = [job EXCEPT ![p] =
               [req |-> r, pid |-> IF st[r.cid] = "running" THEN inc[r.cid] ELSE 0]]
  /\ todo' = [todo EXCEPT ![p] = Parsed(r)]
  /\ quota' = [quota EXCEPT ![p] =
                 {[path |-> l.path, num |-> hostNum[l.path], val |-> l.val] : l \in r.limits}]
  /\ Goto(p, IF r.op = "update" THEN "inspect" ELSE "resolve")
  /\ UNCHANGED <<fileVars, ruleVars, lockVars, ctrVars, envVars,
                 cur, cfg, dirty, rcopy, rdirty, err>>

\* setDevicesPath: a critical section of its own, before the one that counts.
ResolvePaths(p) ==
  /\ pc[p] = "resolve"
  /\ CanLock(p)
  /\ IF ~ Readable(p)
     THEN GiveUp(p)
     ELSE /\ todo' = [todo EXCEPT ![p] = {Resolve(file[Cid(p)], d) : d \in @}]
          /\ Goto(p, "inspect")
          /\ UNCHANGED <<fileVars, ruleVars, lockVars, ctrVars, envVars,
                         job, cur, quota, cfg, dirty, rcopy, rdirty, err>>

\* GetCgroupPath asks iSulad, and does so before the lock is taken.
Inspect(p) ==
  /\ pc[p] = "inspect"
  /\ Inspectable(Cid(p))
  /\ Goto(p, "lock")
  /\ UNCHANGED <<fileVars, ruleVars, lockVars, ctrVars, envVars,
                 job, todo, cur, quota, cfg, dirty, rcopy, rdirty, err>>

\* checkDevice: a limit must be for a device of the command or, for
\* update-device, of the configuration.
LimitsKnown(p) ==
  LET known == IF Op(p) = "add" THEN todo[p] ELSE file[Cid(p)].devices
  IN  \A q \in quota[p] : \E d \in known : d.num = q.num

\* c.Lock, NewContainerConfig and checkDevice.
LockAndLoad(p) ==
  /\ pc[p] = "lock"
  /\ CanLock(p)
  /\ IF ~ Readable(p) \/ (Op(p) # "remove" /\ ~ LimitsKnown(p))
     THEN GiveUp(p)
     ELSE /\ flock' = [flock EXCEPT ![Cid(p)] = p]
          /\ cfg' = [cfg EXCEPT ![p] = file[Cid(p)]]
          /\ Goto(p, IF Op(p) = "update" THEN "quota" ELSE "udev")
          /\ UNCHANGED <<fileVars, ruleVars, udevLock, ctrVars, envVars,
                         job, todo, cur, quota, dirty, rcopy, rdirty, err>>

\* The devices RemoveDevice goes through: those of the arguments that are
\* configured and, with --follow-partition, their configured partitions.
ToRemove(p) ==
  LET found == UNION {FindDeviceByMapping(cfg[p], d) : d \in todo[p]}
      parts == UNION {FindSubPartition(cfg[p], d) : d \in found}
  IN  IF job[p].req.follow THEN found \cup parts ELSE found

\* udevdCtrl.Lock and LoadRules of a command.
LockUdev(p) ==
  /\ pc[p] = "udev" /\ p \in Command
  /\ CanLockRules(p)
  /\ udevLock' = p
  /\ rcopy' = [rcopy EXCEPT ![p] = rules]
  /\ IF Op(p) = "remove"
     THEN /\ todo' = [todo EXCEPT ![p] = ToRemove(p)]
          /\ err' = [err EXCEPT ![p] = \E d \in todo[p] :
                                         FindDeviceByMapping(cfg[p], d) = {}]
     ELSE UNCHANGED <<todo, err>>
  /\ Goto(p, "each")
  /\ UNCHANGED <<fileVars, ruleVars, flock, ctrVars, envVars,
                 job, cur, quota, cfg, dirty, rdirty>>

-----------------------------------------------------------------------------
(***************************************************************************)
(* add-device, device by device                                            *)
(***************************************************************************)
AddRule(a, r) ==
  /\ rcopy' = [rcopy EXCEPT ![a] = @ \cup {r}]
  /\ rdirty' = [rdirty EXCEPT ![a] = @ \/ r \notin rcopy[a]]

\* Mutant: a removal that does not mark the rules as changed.
RemoveRuleInMemory(a, r) ==
  /\ rcopy' = [rcopy EXCEPT ![a] = @ \ {r}]
  /\ UNCHANGED rdirty

\* Mutant: the container is not compared.
RemoveRuleOfAnyone(a, r) ==
  LET mine == {s \in rcopy[a] : s.name = r.name /\ s.path = r.path}
  IN  /\ rcopy' = [rcopy EXCEPT ![a] = @ \ mine]
      /\ rdirty' = [rdirty EXCEPT ![a] = @ \/ mine # {}]

RemoveRule(a, r) ==
  /\ rcopy' = [rcopy EXCEPT ![a] = @ \ {r}]
  /\ rdirty' = [rdirty EXCEPT ![a] = @ \/ r \in rcopy[a]]

KeepRules == UNCHANGED <<rcopy, rdirty>>

Take(a, d) ==
  /\ d \in todo[a]
  /\ todo' = [todo EXCEPT ![a] = @ \ {d}]

Record(a, config) ==
  /\ cfg' = [cfg EXCEPT ![a] = config]
  /\ dirty' = [dirty EXCEPT ![a] = TRUE]

\* UpdateDevice refuses a device whose name on either side is taken.
RefuseConflict(p, d) ==
  /\ pc[p] = "each" /\ Op(p) = "add"
  /\ Take(p, d)
  /\ Conflicts(cfg[p], d)
  /\ Fail(p)
  /\ UNCHANGED <<fileVars, ruleVars, lockVars, ctrVars, envVars,
                 pc, job, cur, quota, cfg, dirty, rcopy, rdirty>>

\* GetDeviceType of a block device fails: the mapping is taken out again.
RefuseUnknown(p, d) ==
  /\ pc[p] = "each" /\ Op(p) = "add"
  /\ Take(p, d)
  /\ ~ Conflicts(cfg[p], d)
  /\ Kind[d.host] # "char"
  /\ IF TypeKnown(d.host) THEN Fault ELSE NoFault
  /\ dirty' = [dirty EXCEPT ![p] = TRUE]
  /\ Fail(p)
  /\ UNCHANGED <<fileVars, ruleVars, lockVars, ctrVars, hostNum, crashes, plugs,
                 pc, job, cur, quota, cfg, rcopy, rdirty>>

\* The mapping and, for a disk, its rule are recorded in memory.  The device
\* is put into the container unless --update-config-only is given or the
\* container of the pid that was read is gone.
RecordDevice(p, d) ==
  /\ pc[p] = "each" /\ Op(p) = "add"
  /\ Take(p, d)
  /\ ~ Conflicts(cfg[p], d)
  /\ TypeKnown(d.host)
  /\ Record(p, WithDevice(cfg[p], d))
  /\ IF IsDisk(d.host) THEN AddRule(p, RuleOf(d, Cid(p))) ELSE KeepRules
  /\ IF ~ job[p].req.cfgOnly /\ Alive(p)
     THEN Goto(p, "mknod") /\ cur' = [cur EXCEPT ![p] = d]
     ELSE UNCHANGED <<pc, cur>>
  /\ left' = [left EXCEPT ![Cid(p)].rules = @ \ {RuleOf(d, Cid(p))}]
  /\ UNCHANGED <<fileVars, ruleVars, lockVars, st, inc, nodes, allowed, blkio, envVars,
                 job, quota, err>>

\* Mutant: the rule is left behind.
RollBackKeepsRule(p, d) ==
  Record(p, WithoutDevice(cfg[p], d)) /\ KeepRules /\ Fail(p) /\ Goto(p, "each")

\* The roll back of AddDevice.
RollBack(p, d) ==
  /\ Record(p, WithoutDevice(cfg[p], d))
  /\ RemoveRule(p, RuleOf(d, Cid(p)))
  /\ Fail(p)
  /\ Goto(p, "each")

\* doAddDevice in the container: the wanted node is there or is made; any
\* other node is in the way unless --force is given.
Mknod(p) ==
  LET d == cur[p]  c == Cid(p)
  IN  /\ pc[p] = "mknod"
      /\ Alive(p)
      /\ nodes[c][d.path] \in {0, d.num} \/ job[p].req.force
      /\ PutNode(c, d.path, d.num) /\ NodeSettled(c, d.path)
      /\ Goto(p, "allow")
      /\ UNCHANGED <<fileVars, ruleVars, lockVars, st, inc, allowed, blkio, envVars,
                     job, todo, cur, quota, cfg, dirty, rcopy, rdirty, err>>

\* What a failing doAddDevice may leave at the path: it removes the node in the
\* way first and sets the owner of the new one last.
HalfMade(p, d) ==
  LET old == nodes[Cid(p)][d.path]
  IN  {old} \cup (IF old = d.num THEN {} ELSE {d.num})
            \cup (IF job[p].req.force /\ old # d.num THEN {0} ELSE {})

MknodFails(p) ==
  LET d == cur[p]  c == Cid(p)  old == nodes[c][d.path]
      refused == ~ Alive(p) \/ (old \notin {0, d.num} /\ ~ job[p].req.force)
  IN  /\ pc[p] = "mknod"
      /\ \/ refused /\ NoFault /\ UNCHANGED <<nodes, left>>
         \/ ~ refused /\ Fault /\ \E n \in HalfMade(p, d) :
               /\ PutNode(c, d.path, n)
               /\ CASE n = old -> UNCHANGED left
                    [] n # old /\ n = 0 -> NodeSettled(c, d.path)
                    [] n # old /\ n # 0 -> NodeLeft(c, d.path)
      /\ RollBack(p, d)
      /\ UNCHANGED <<fileVars, ruleVars, lockVars, st, inc, allowed, blkio,
                     hostNum, crashes, plugs, job, todo, cur, quota>>

\* UpdateCgroupPermission writes devices.allow.
Allow(p) ==
  LET c == Cid(p)
  IN  /\ pc[p] = "allow"
      /\ HasCgroup(c)
      /\ allowed' = [allowed EXCEPT ![c] = @ \cup {cur[p].num}]
      /\ left' = [left EXCEPT ![c].perms = @ \ {cur[p].num}, ![c].loose = @ \ {cur[p].num}]
      /\ Goto(p, "each")
      /\ UNCHANGED <<fileVars, ruleVars, lockVars, st, inc, nodes, blkio, envVars,
                     job, todo, cur, quota, cfg, dirty, rcopy, rdirty, err>>

\* ... and when it cannot, the node is removed again.  Whether that succeeds
\* is not looked at.
AllowFails(p) ==
  LET c == Cid(p)
      denied == IF HasCgroup(c) THEN 1 ELSE 0
  IN  /\ pc[p] = "allow"
      /\ \/ /\ Alive(p)
            /\ RemoveNode(c, cur[p].path) /\ NodeSettled(c, cur[p].path)
            /\ Faults(denied)
         \/ /\ Alive(p)
            /\ Faults(denied + 1)
            /\ UNCHANGED nodes /\ NodeLeft(c, cur[p].path)
         \/ /\ ~ Alive(p)
            /\ Faults(denied)
            /\ UNCHANGED <<nodes, left>>
      /\ RollBack(p, cur[p])
      /\ UNCHANGED <<fileVars, ruleVars, lockVars, st, inc, allowed, blkio,
                     hostNum, crashes, plugs, job, todo, cur, quota>>

-----------------------------------------------------------------------------
(***************************************************************************)
(* remove-device, device by device                                         *)
(***************************************************************************)
\* The mapping and its rule are taken out first, whatever follows.
Unrecord(p, d) ==
  /\ pc[p] = "each" /\ Op(p) = "remove"
  /\ Take(p, d)
  /\ Record(p, WithoutDevice(cfg[p], d))
  /\ RemoveRule(p, RuleOf(d, Cid(p)))
  /\ cur' = [cur EXCEPT ![p] = d]
  /\ Goto(p, IF Alive(p) THEN "unlink" ELSE "clear")
  /\ UNCHANGED <<fileVars, ruleVars, lockVars, ctrVars, envVars, job, quota, err>>

\* doRemoveDevice: no node at the path is as good as removing it.
Unlink(p) ==
  /\ pc[p] = "unlink"
  /\ Alive(p)
  /\ RemoveNode(Cid(p), cur[p].path) /\ NodeSettled(Cid(p), cur[p].path)
  /\ Goto(p, "deny")
  /\ UNCHANGED <<fileVars, ruleVars, lockVars, st, inc, allowed, blkio, envVars,
                 job, todo, cur, quota, cfg, dirty, rcopy, rdirty, err>>

\* The mapping is put back; so is the rule of a disk, if lsblk still knows it.
UnlinkFails(p) ==
  LET d == cur[p]  gone == IF Alive(p) THEN 1 ELSE 0
  IN  /\ pc[p] = "unlink"
      /\ Record(p, WithDevice(cfg[p], d))
      /\ \/ /\ TypeKnown(d.host)
            /\ Faults(gone)
            /\ IF IsDisk(d.host) THEN AddRule(p, RuleOf(d, Cid(p))) ELSE KeepRules
            /\ left' = [left EXCEPT ![Cid(p)].rules = @ \ {RuleOf(d, Cid(p))}]
         \/ /\ Kind[d.host] # "char"
            /\ Faults(gone + IF TypeKnown(d.host) THEN 1 ELSE 0)
            /\ KeepRules
            /\ left' = [left EXCEPT ![Cid(p)].rules = @ \cup {RuleOf(d, Cid(p))}]
      /\ Fail(p)
      /\ Goto(p, "each")
      /\ UNCHANGED <<fileVars, ruleVars, lockVars, st, inc, nodes, allowed, blkio,
                     hostNum, crashes, plugs, job, todo, cur, quota>>

\* Mutant: a removal that does not take the permission back.
StillAllowed(numbers, n) == numbers

\* UpdateCgroupPermission writes devices.deny.
Denied(numbers, n) == numbers \ {n}

Deny(p) ==
  LET c == Cid(p)
  IN  /\ pc[p] = "deny"
      /\ HasCgroup(c)
      /\ allowed' = [allowed EXCEPT ![c] = Denied(@, cur[p].num)]
      /\ left' = [left EXCEPT ![c].perms = @ \ {cur[p].num}]
      /\ Goto(p, "clear")
      /\ UNCHANGED <<fileVars, ruleVars, lockVars, st, inc, nodes, blkio, envVars,
                     job, todo, cur, quota, cfg, dirty, rcopy, rdirty, err>>

\* Nothing is rolled back, and the limits of the device are not removed.
DenyFails(p) ==
  /\ pc[p] = "deny"
  /\ IF HasCgroup(Cid(p)) THEN Fault ELSE NoFault
  /\ left' = [left EXCEPT ![Cid(p)].perms = @ \cup {cur[p].num}]
  /\ Fail(p)
  /\ Goto(p, "each")
  /\ UNCHANGED <<fileVars, ruleVars, lockVars, st, inc, nodes, allowed, blkio,
                 hostNum, crashes, plugs,
                 job, todo, cur, quota, cfg, dirty, rcopy, rdirty>>

\* What a limit looks like in the blkio cgroup.
Throttle(q) == [num |-> q.num, val |-> q.val]

\* A write to the blkio cgroup is skipped for a container that had no pid and
\* fails for one that has no cgroup.
NoPid(p) == job[p].pid = 0

\* Mutant: a removal that leaves the limits of the cgroup as they are.
StillThrottled(limits, n) == limits

\* Writing 0 for the number takes its limit out of the blkio cgroup.
Cleared(limits, n) == {b \in limits : b.num # n}

\* removeQos: the first limit with the number of the device.
ClearLimits(p) ==
  LET c == Cid(p)
      old == LimitsOf(cfg[p], cur[p])
  IN  /\ pc[p] = "clear"
      /\ \/ old = {} /\ UNCHANGED <<cfg, blkio, left>>
         \/ \E q \in old :
               /\ NoPid(p) \/ HasCgroup(c)
               /\ cfg' = [cfg EXCEPT ![p] = WithoutLimits(@, {q})]
               /\ blkio' = IF NoPid(p) THEN blkio
                           ELSE [blkio EXCEPT ![c] = Cleared(@, q.num)]
               /\ left' = [left EXCEPT ![c].limits = {b \in @ : b.num # q.num},
                                       ![c].loose = @ \ {q.num}]
      /\ Dirtied(p, old # {})
      /\ Goto(p, "each")
      /\ UNCHANGED <<fileVars, ruleVars, lockVars, st, inc, nodes, allowed, envVars,
                     job, todo, cur, quota, rcopy, rdirty, err>>

\* The configured limit is gone when the write that clears it fails.
ClearFails(p) ==
  LET c == Cid(p)
  IN  /\ pc[p] = "clear"
      /\ ~ NoPid(p)
      /\ IF HasCgroup(c) THEN Fault ELSE NoFault
      /\ \E q \in LimitsOf(cfg[p], cur[p]) :
            /\ cfg' = [cfg EXCEPT ![p] = WithoutLimits(@, {q})]
            /\ left' = [left EXCEPT ![c].limits = @ \cup {b \in blkio[c] : b.num = q.num},
                                    ![c].loose = @ \ {q.num}]
      /\ dirty' = [dirty EXCEPT ![p] = TRUE]
      /\ Fail(p)
      /\ Goto(p, "each")
      /\ UNCHANGED <<fileVars, ruleVars, lockVars, st, inc, nodes, allowed, blkio,
                     hostNum, crashes, plugs, job, todo, cur, quota, rcopy, rdirty>>

\* All devices are handled.
EachDone(p) ==
  /\ pc[p] = "each" /\ todo[p] = {}
  /\ Goto(p, IF Op(p) = "add" THEN "quota" ELSE "save")
  /\ UNCHANGED <<fileVars, ruleVars, lockVars, ctrVars, envVars,
                 job, todo, cur, quota, cfg, dirty, rcopy, rdirty, err>>

-----------------------------------------------------------------------------
(***************************************************************************)
(* updateQos of add-device and update-device                               *)
(***************************************************************************)
AfterQuota(p) == IF Op(p) = "add" THEN "save" ELSE "flush"

\* updateQos follows whatever has become of the devices: the limit of one that
\* was refused or rolled back is set and configured all the same.
IsLoose(p, q) == \A d \in cfg[p].devices : d.num # q.num

\* updateDeviceQos for one limit: the cgroup first, then the configuration.
SetLimit(p, q) ==
  LET c == Cid(p)  new == WithLimit(cfg[p], q)
  IN  /\ pc[p] = "quota" /\ p \in Command
      /\ q \in quota[p]
      /\ NoPid(p) \/ HasCgroup(c)
      /\ quota' = [quota EXCEPT ![p] = @ \ {q}]
      /\ cfg' = [cfg EXCEPT ![p] = new]
      /\ Dirtied(p, new # cfg[p])
      /\ blkio' = IF NoPid(p) THEN blkio
                  ELSE [blkio EXCEPT ![c] = {b \in @ : b.num # q.num} \cup {Throttle(q)}]
      /\ left' = [left EXCEPT ![c].limits = {b \in @ : b.num # q.num},
                              ![c].loose = @ \cup {n \in {q.num} : IsLoose(p, q)}]
      /\ UNCHANGED <<fileVars, ruleVars, lockVars, st, inc, nodes, allowed, envVars,
                     pc, job, todo, cur, rcopy, rdirty, err>>

\* The first write that fails ends it.
SetLimitFails(p) ==
  /\ pc[p] = "quota" /\ p \in Command
  /\ quota[p] # {}
  /\ ~ NoPid(p)
  /\ IF HasCgroup(Cid(p)) THEN Fault ELSE NoFault
  /\ quota' = [quota EXCEPT ![p] = {}]
  /\ Fail(p)
  /\ Goto(p, AfterQuota(p))
  /\ UNCHANGED <<fileVars, ruleVars, lockVars, ctrVars, hostNum, crashes, plugs,
                 job, todo, cur, cfg, dirty, rcopy, rdirty>>

LimitsDone(p) ==
  /\ pc[p] = "quota" /\ p \in Command
  /\ quota[p] = {}
  /\ Goto(p, AfterQuota(p))
  /\ UNCHANGED <<fileVars, ruleVars, lockVars, ctrVars, envVars,
                 job, todo, cur, quota, cfg, dirty, rcopy, rdirty, err>>

-----------------------------------------------------------------------------
(***************************************************************************)
(* Writing back, the same for commands and hooks: first the rules, then    *)
(* the configuration, each file truncated and then filled                  *)
(***************************************************************************)
\* ToDisk, if the rules have changed.
TruncateRules(a) ==
  /\ pc[a] = "save" /\ rdirty[a]
  /\ rules' = Saved(rcopy[a])
  /\ rulesTorn' = TRUE
  /\ Goto(a, "rwrite")
  /\ UNCHANGED <<fileVars, lockVars, ctrVars, envVars,
                 job, todo, cur, quota, cfg, dirty, rcopy, rdirty, err>>

AfterRules(a) ==
  IF a \in Command THEN "flush"
  ELSE IF st[a] = "stopping" THEN "done"
  ELSE IF err[a] THEN "abort" ELSE "quota"

\* The deferred Unlock of the udev lock.
UnlockUdev(a) ==
  /\ pc[a] = "rwrite" \/ (pc[a] = "save" /\ ~ rdirty[a])
  /\ rulesTorn' = FALSE
  /\ udevLock' = RulesUnlocked(a)
  /\ Goto(a, AfterRules(a))
  /\ UNCHANGED <<fileVars, rules, flock, ctrVars, envVars,
                 job, todo, cur, quota, cfg, dirty, rcopy, rdirty, err>>

\* Flush, if the configuration is dirty: os.Create empties the file,
\* Encode fills it.
TruncateConfig(a) ==
  /\ pc[a] = "flush" /\ MustWrite(a)
  /\ file' = [file EXCEPT ![Cid(a)] = cfg[a]]
  /\ torn' = [torn EXCEPT ![Cid(a)] = TRUE]
  /\ Goto(a, "fwrite")
  /\ UNCHANGED <<ruleVars, lockVars, ctrVars, envVars,
                 job, todo, cur, quota, cfg, dirty, rcopy, rdirty, err>>

\* The deferred Unlock of the container lock ends the process.
UnlockConfig(a) ==
  /\ pc[a] = "fwrite" \/ (pc[a] = "flush" /\ ~ MustWrite(a))
  /\ torn' = IF pc[a] = "fwrite" THEN [torn EXCEPT ![Cid(a)] = FALSE] ELSE torn
  /\ flock' = Unlocked(a)
  /\ Goto(a, "done")
  /\ Forget(a)
  /\ UNCHANGED <<file, ruleVars, udevLock, ctrVars, envVars, job, err>>

-----------------------------------------------------------------------------
(***************************************************************************)
(* The life of a container and its hooks                                   *)
(***************************************************************************)
\* iSulad creates the container's processes, /dev and cgroups, and runs the
\* prestart hook.
StartContainer(c) ==
  /\ st[c] = "stopped" /\ pc[c] = "idle"
  /\ inc[c] < MaxStarts
  /\ st' = [st EXCEPT ![c] = "creating"]
  /\ inc' = [inc EXCEPT ![c] = @ + 1]
  /\ nodes' = [nodes EXCEPT ![c] = ImageNode]
  /\ left' = [left EXCEPT ![c].nodes = {}]
  /\ Goto(c, "read")
  /\ err' = [err EXCEPT ![c] = FALSE]
  /\ UNCHANGED <<fileVars, ruleVars, lockVars, allowed, blkio, envVars,
                 job, todo, cur, quota, cfg, dirty, rcopy, rdirty>>

\* The container exits; its device nodes and cgroups go with it, and the
\* poststop hook runs.
StopContainer(c) ==
  /\ st[c] = "running"
  /\ st' = [st EXCEPT ![c] = "stopping"]
  /\ nodes' = [nodes EXCEPT ![c] = ImageNode]
  /\ allowed' = [allowed EXCEPT ![c] = {}]
  /\ blkio' = [blkio EXCEPT ![c] = {}]
  /\ left' = [left EXCEPT ![c].nodes = {}, ![c].perms = {}, ![c].limits = {}]
  /\ Goto(c, "read")
  /\ UNCHANGED <<fileVars, ruleVars, lockVars, inc, envVars,
                 job, todo, cur, quota, cfg, dirty, rcopy, rdirty, err>>

\* prepareHookData, without the lock.  A file that cannot be parsed ends the
\* hook, and it ends it with exit status 0.
ReadConfig(c) ==
  /\ pc[c] = "read"
  /\ IF ~ Readable(c)
     THEN Goto(c, "done") /\ UNCHANGED cfg
     ELSE Goto(c, "udev") /\ cfg' = [cfg EXCEPT ![c] = file[c]]
  /\ UNCHANGED <<fileVars, ruleVars, lockVars, ctrVars, envVars,
                 job, todo, cur, quota, dirty, rcopy, rdirty, err>>

\* SharePath and AdjustUserns come first and may fail the start.
PrepareFails(c) ==
  /\ pc[c] = "udev" /\ c \in Container /\ st[c] = "creating"
  /\ Fault
  /\ Fail(c)
  /\ Goto(c, "abort")
  /\ UNCHANGED <<fileVars, ruleVars, lockVars, ctrVars, hostNum, crashes, plugs,
                 job, todo, cur, quota, cfg, dirty, rcopy, rdirty>>

\* udevdCtrl.Lock and LoadRules of a hook.
HookLockUdev(c) ==
  /\ pc[c] = "udev" /\ c \in Container
  /\ CanLockRules(c)
  /\ udevLock' = c
  /\ rcopy' = [rcopy EXCEPT ![c] = rules]
  /\ todo' = [todo EXCEPT ![c] = cfg[c].devices]
  /\ Goto(c, IF st[c] = "creating" THEN "install" ELSE "withdraw")
  /\ UNCHANGED <<fileVars, ruleVars, flock, ctrVars, envVars,
                 job, cur, quota, cfg, dirty, rdirty, err>>

\* Mutant: the hook adds a device without force.
UnlessOccupied(c, q, n) == IF nodes[c][q] = 0 THEN n ELSE nodes[c][q]

\* doAddDevice with force, as the hook calls it, replaces what is at the path.
Forced(c, q, n) == n

\* AddDevices brings one configured device back: its number is looked up anew,
\* its node replaces whatever is at the path, its cgroup permission is given.
Install(c, d) ==
  LET n == hostNum[d.host]
  IN  /\ pc[c] = "install"
      /\ Take(c, d)
      /\ n # 0
      /\ cfg' = [cfg EXCEPT ![c] = Renumbered(@, d, n)]
      /\ Dirtied(c, n # d.num)
      /\ IF IsDisk(d.host) THEN AddRule(c, RuleOf(d, c)) ELSE KeepRules
      /\ PutNode(c, d.path, Forced(c, d.path, n))
      /\ allowed' = [allowed EXCEPT ![c] = @ \cup {n}]
      /\ left' = [left EXCEPT ![c].nodes = @ \ {d.path}, ![c].perms = @ \ {n},
                              ![c].rules = @ \ {RuleOf(d, c)}]
      /\ UNCHANGED <<fileVars, ruleVars, lockVars, st, inc, blkio, envVars,
                     pc, job, cur, quota, err>>

\* A device that is not on the host, or a call that fails before or after the
\* rule was added, ends AddDevices; the rules are saved nevertheless.
InstallFails(c, d) ==
  /\ pc[c] = "install"
  /\ Take(c, d)
  /\ \/ /\ hostNum[d.host] = 0
        /\ NoFault /\ KeepRules
     \/ /\ hostNum[d.host] # 0
        /\ Fault
        /\ IF IsDisk(d.host)
           THEN AddRule(c, RuleOf(d, c)) \/ KeepRules ELSE KeepRules
  /\ Fail(c)
  /\ Goto(c, "save")
  /\ UNCHANGED <<fileVars, ruleVars, lockVars, ctrVars, hostNum, crashes, plugs,
                 job, cur, quota, cfg, dirty>>

\* RemoveUdevRule for one configured device of a stopped container.
WithdrawRule(c, d) ==
  /\ pc[c] = "withdraw"
  /\ Take(c, d)
  /\ IF hostNum[d.host] # 0 /\ IsDisk(d.host)
     THEN RemoveRule(c, RuleOf(d, c)) ELSE KeepRules
  /\ UNCHANGED <<fileVars, ruleVars, lockVars, ctrVars, envVars,
                 pc, job, cur, quota, cfg, dirty, err>>

\* lsblk fails for a device that is there: the remaining rules stay.
WithdrawFails(c, d) ==
  /\ pc[c] = "withdraw"
  /\ Take(c, d)
  /\ hostNum[d.host] # 0 /\ Kind[d.host] # "char"
  /\ Fault
  /\ Goto(c, "save")
  /\ UNCHANGED <<fileVars, ruleVars, lockVars, ctrVars, hostNum, crashes, plugs,
                 job, cur, quota, cfg, dirty, rcopy, rdirty, err>>

HookDevicesDone(c) ==
  /\ pc[c] \in {"install", "withdraw"} /\ todo[c] = {}
  /\ Goto(c, "save")
  /\ UNCHANGED <<fileVars, ruleVars, lockVars, ctrVars, envVars,
                 job, todo, cur, quota, cfg, dirty, rcopy, rdirty, err>>

\* UpdateQos looks every limit's device up by its path and sets the limit.
HookLimits(c) ==
  LET new == LimitsRenumbered(cfg[c], hostNum)
  IN  /\ pc[c] = "quota" /\ c \in Container
      /\ \A q \in cfg[c].qos : hostNum[q.path] # 0
      /\ cfg' = [cfg EXCEPT ![c] = new]
      /\ Dirtied(c, new # cfg[c])
      /\ blkio' = [blkio EXCEPT ![c] = {Throttle(q) : q \in new.qos}]
      /\ left' = [left EXCEPT ![c].limits = {}]
      /\ Goto(c, "hlock")
      /\ UNCHANGED <<fileVars, ruleVars, lockVars, st, inc, nodes, allowed, envVars,
                     job, todo, cur, quota, rcopy, rdirty, err>>

\* A limit whose device is gone, or any later part of the hook, fails the start.
HookLimitsFail(c) ==
  /\ pc[c] = "quota" /\ c \in Container
  /\ IF \E q \in cfg[c].qos : hostNum[q.path] = 0 THEN NoFault ELSE Fault
  /\ Fail(c)
  /\ Goto(c, "abort")
  /\ UNCHANGED <<fileVars, ruleVars, lockVars, ctrVars, hostNum, crashes, plugs,
                 job, todo, cur, quota, cfg, dirty, rcopy, rdirty>>

\* updateHookData takes the container lock only now, to write what the hook
\* loaded when it began.
HookLock(c) ==
  /\ pc[c] = "hlock"
  /\ CanLock(c)
  /\ flock' = [flock EXCEPT ![c] = c]
  /\ Goto(c, "flush")
  /\ UNCHANGED <<fileVars, ruleVars, udevLock, ctrVars, envVars,
                 job, todo, cur, quota, cfg, dirty, rcopy, rdirty, err>>

\* The prestart hook failed: the container is taken down, with or without
\* its poststop hook.
AbortStart(c) ==
  /\ pc[c] = "abort"
  /\ st' = [st EXCEPT ![c] = "stopping"]
  /\ nodes' = [nodes EXCEPT ![c] = ImageNode]
  /\ allowed' = [allowed EXCEPT ![c] = {}]
  /\ blkio' = [blkio EXCEPT ![c] = {}]
  /\ left' = [left EXCEPT ![c].nodes = {}, ![c].perms = {}, ![c].limits = {}]
  /\ \E l \in {"read", "done"} : Goto(c, l)
  /\ Forget(c)
  /\ UNCHANGED <<fileVars, ruleVars, lockVars, inc, envVars, job, err>>

\* The hook has returned.
HookReturns(c) ==
  /\ pc[c] = "done" /\ c \in Container
  /\ st' = [st EXCEPT ![c] = IF @ = "creating" THEN "running" ELSE "stopped"]
  /\ Goto(c, "idle")
  /\ Forget(c)
  /\ UNCHANGED <<fileVars, ruleVars, lockVars, inc, nodes, allowed, blkio, left, envVars,
                 job, err>>

-----------------------------------------------------------------------------
(***************************************************************************)
(* The environment                                                         *)
(***************************************************************************)
\* Mutant: the lock is the existence of the file.
LocksOutlive(a) == UNCHANGED lockVars

\* The kernel releases the locks of a process that has died.
LocksReleased(a) ==
  /\ flock' = [c \in Container |-> IF flock[c] = a THEN NoOne ELSE flock[c]]
  /\ udevLock' = IF udevLock = a THEN NoOne ELSE udevLock

\* The process is killed; the kernel releases its locks.  A file it was
\* writing keeps what had reached it: some of the rules, or a configuration
\* that no longer parses.
Crash(a) ==
  /\ pc[a] \notin {"idle", "abort", "done"}
  /\ crashes < MaxCrashes
  /\ crashes' = crashes + 1
  /\ LocksReleased(a)
  /\ IF pc[a] = "rwrite"
     THEN rulesTorn' = FALSE /\ rules' \in SUBSET rules
     ELSE UNCHANGED ruleVars
  /\ Fail(a)
  /\ Goto(a, IF a \in Container /\ st[a] = "creating" THEN "abort" ELSE "done")
  /\ Forget(a)
  /\ UNCHANGED <<fileVars, ctrVars, hostNum, faults, plugs, job>>

\* A host device disappears, or is (back) under number n.
Plug(h, n) ==
  /\ plugs < MaxPlugs
  /\ plugs' = plugs + 1
  /\ hostNum[h] # n
  /\ \A g \in HostDev : n # 0 => hostNum[g] # n
  /\ hostNum' = [hostNum EXCEPT ![h] = n]
  /\ UNCHANGED <<fileVars, ruleVars, lockVars, ctrVars, procVars, crashes, faults>>

-----------------------------------------------------------------------------
AddStep(p) ==
  \/ \E d \in todo[p] : RefuseConflict(p, d) \/ RefuseUnknown(p, d) \/ RecordDevice(p, d)
  \/ Mknod(p) \/ MknodFails(p) \/ Allow(p) \/ AllowFails(p)

RemoveStep(p) ==
  \/ \E d \in todo[p] : Unrecord(p, d)
  \/ Unlink(p) \/ UnlinkFails(p) \/ Deny(p) \/ DenyFails(p)
  \/ ClearLimits(p) \/ ClearFails(p)

LimitStep(p) ==
  \/ \E q \in quota[p] : SetLimit(p, q)
  \/ SetLimitFails(p) \/ LimitsDone(p)

WriteStep(a) ==
  TruncateRules(a) \/ UnlockUdev(a) \/ TruncateConfig(a) \/ UnlockConfig(a)

CommandNext(p) ==
  \/ ResolvePaths(p) \/ Inspect(p) \/ LockAndLoad(p) \/ LockUdev(p)
  \/ AddStep(p) \/ RemoveStep(p) \/ EachDone(p) \/ LimitStep(p) \/ WriteStep(p)

HookNext(c) ==
  \/ ReadConfig(c) \/ PrepareFails(c) \/ HookLockUdev(c)
  \/ \E d \in todo[c] : \/ Install(c, d) \/ InstallFails(c, d)
                        \/ WithdrawRule(c, d) \/ WithdrawFails(c, d)
  \/ HookDevicesDone(c) \/ HookLimits(c) \/ HookLimitsFail(c)
  \/ HookLock(c) \/ AbortStart(c) \/ HookReturns(c) \/ WriteStep(c)

Environment ==
  \/ \E p \in Command, r \in Requests : Begin(p, r)
  \/ \E c \in Container : StartContainer(c) \/ StopContainer(c)
  \/ \E a \in Actor : Crash(a)
  \/ \E h \in HostDev, n \in Numbers \cup {0} : Plug(h, n)

Next ==
  \/ \E p \in Command : CommandNext(p)
  \/ \E c \in Container : HookNext(c)
  \/ Environment

Spec == Init /\ [][Next]_vars

\* Every process that has been started runs on.  Nobody has to start one.
Fairness ==
  /\ \A p \in Command : WF_vars(CommandNext(p))
  /\ \A c \in Container : WF_vars(HookNext(c))

FairSpec == Spec /\ Fairness

-----------------------------------------------------------------------------
(***************************************************************************)
(* What the locks guarantee                                                *)
(***************************************************************************)
\* Where a process holds the container lock, and the lock of the rules.
HoldsConfig(a) ==
  IF a \in Container THEN pc[a] \in {"flush", "fwrite"}
  ELSE pc[a] \in {"udev", "each", "mknod", "allow", "unlink", "deny", "clear",
                  "quota", "save", "rwrite", "flush", "fwrite"}

HoldsRules(a) ==
  pc[a] \in {"each", "mknod", "allow", "unlink", "deny", "clear", "install",
             "withdraw", "save", "rwrite"}
  \/ (a \in Command /\ pc[a] = "quota" /\ Op(a) = "add")

\* Whoever is between taking a lock and releasing it is its holder, and a lock
\* has no other holder: not a process that has ended, failed or been killed.
LocksHeld ==
  /\ \A a \in Actor, c \in Container :
        flock[c] = a <=> HoldsConfig(a) /\ Cid(a) = c
  /\ \A a \in Actor : udevLock = a <=> HoldsRules(a)

\* A half written file can be seen only while its writer holds the lock: a
\* command, which loads under the lock, never finds one (Flush, saveRules),
\* unless a process has been killed while it wrote.
TornOnlyWhileWritten ==
  /\ \A c \in Container :
        torn[c] /\ crashes = 0 =>
          \E a \in Actor : flock[c] = a /\ Cid(a) = c /\ pc[a] = "fwrite"
  /\ rulesTorn => \E a \in Actor : udevLock = a /\ pc[a] = "rwrite"

\* The rules of a container change only by a process that works for this very
\* container and holds the lock of the rules; all others write back every rule
\* of it that they loaded (LoadRules, AddRule, RemoveRule, ToDisk).
RulesOf(c) == {r \in rules : r.cid = c}

RulesIsolated ==
  [][crashes' = crashes =>
       \A c \in Container :
          RulesOf(c)' # RulesOf(c) => \E a \in Actor : udevLock = a /\ Cid(a) = c]_vars

\* Whatever the commands and hooks do, and whoever is killed, no device and no
\* path is configured twice: an add refuses it, the roll backs of AddDevice and
\* RemoveDevice do not bring it in, and a hook writes back what it has loaded.
WellFormed ==
  /\ \A c \in Container : OneToOne(file[c])
  /\ \A a \in Actor : OneToOne(cfg[a])

-----------------------------------------------------------------------------
(***************************************************************************)
(* What the users are promised                                             *)
(***************************************************************************)
\* The commands that have loaded the configuration, changed it in memory and
\* are about to replace the file are the atomic commands of DeviceStore.
Store ==
  INSTANCE DeviceStore WITH
    Request <- Requests \cup {NoJob(CHOOSE c \in Container : TRUE).req},
    store   <- [c \in Container |->
                  {[host |-> d.host, path |-> d.path] : d \in file[c].devices}],
    damaged <- [c \in Container |->
                  torn[c] /\ ~ \E a \in Actor : pc[a] = "fwrite" /\ Cid(a) = c],
    phase   <- [p \in Command |-> CASE pc[p] \in {"idle", "done"} -> pc[p]
                                    [] pc[p] = "fwrite" -> "written"
                                    [] OTHER -> "pending"],
    order   <- [p \in Command |-> job[p].req],
    ok      <- [p \in Command |-> pc[p] \in {"fwrite", "done"} /\ ~ err[p]]

\* While no device is renumbered, the commands and the hooks implement
\* DeviceStore: no update is lost, none is applied to a stale copy, success is
\* reported only for what is in the file, and the hooks change no mapping.
StoreRefined == Store!StoreSpec

Settled(c) ==
  /\ st[c] = "running" /\ pc[c] = "idle"
  /\ \A p \in Command : Cid(p) = c => pc[p] \in {"idle", "done"}

\* After the commands on a container that has been running all the time, its
\* configuration tells what is in its /dev, its devices cgroup, its blkio cgroup
\* and the udev rules, and tells all of it, calls that failed and the roll backs
\* after them included (AddDevice, RemoveDevice, updateQos).  The exceptions are
\* the ones the code has no roll back for, each at the very path, number, limit
\* or rule, and until it is put right:
\*   - a node of which MknodDevice could not set the owner, or which the roll
\*     back of a denied permission could not remove;
\*   - the permission, and the configured limit, of a device that was removed
\*     and could not be denied;
\*   - a limit of the cgroup that could not be cleared;
\*   - the configured limit of a device that add-device refused or rolled back;
\*   - the rule of a disk of which the node could not be removed, and lsblk then
\*     failed.
Agreement ==
  \A c \in Container : Settled(c) =>
    LET devices == file[c].devices
        numbers == {d.num : d \in devices}
    IN  /\ \A d \in devices : nodes[c][d.path] = d.num
        /\ \A q \in DevPath : nodes[c][q] \notin {0, ImageNode[q]} =>
              q \in left[c].nodes \/ \E d \in devices : d.path = q
        /\ allowed[c] = numbers \cup left[c].perms
        /\ blkio[c] = {Throttle(q) : q \in file[c].qos} \cup left[c].limits
        /\ \A q \in file[c].qos : q.num \in numbers \cup left[c].perms \cup left[c].loose
        /\ RulesOf(c) = {RuleOf(d, c) : d \in {d \in devices : IsDisk(d.host)}} \ left[c].rules

\* When the start hook goes on to the limits, the container has the node of
\* every device that was configured when the hook loaded the configuration,
\* under the number the host device has now, whatever its image had at the
\* path and whatever commands are under way for it (AddDevices).
StartInstallsAll ==
  \A c \in Container :
    st[c] = "creating" /\ pc[c] \in {"quota", "hlock", "flush", "fwrite"} =>
      \A d \in cfg[c].devices : nodes[c][d.path] = d.num

\* The stop hook removes the rule of every configured disk that is on the host
\* (RemoveUdevRule), unless lsblk fails: the rules it writes back have none of it.
RulesWithdrawn ==
  [][\A c \in Container :
       st[c] = "stopping" /\ udevLock = c /\ udevLock' = NoOne /\ crashes' = crashes /\ faults = 0 =>
         \A d \in cfg[c].devices : IsDisk(d.host) /\ hostNum[d.host] # 0 =>
           \A r \in RulesOf(c)' :
              ~ (r.path = d.path /\ r.name \in {d.host, BaseName[d.host]})]_vars

\* Every command comes to an end, and so does every start and every stop:
\* nobody waits for ever for one of the two locks or for iSulad.
CommandsFinish ==
  \A p \in Command : pc[p] # "idle" ~> pc[p] = "done"

StartsAndStopsFinish ==
  \A c \in Container : pc[c] # "idle" ~> pc[c] = "idle" /\ st[c] \in {"running", "stopped"}

-----------------------------------------------------------------------------
(***************************************************************************)
(* What the documents say and the code does not do                         *)
(***************************************************************************)
\* hooks/syscontainer-hooks/README.md:14, "the resources you added to container
\* will be persistent after restart": a mapping leaves the configuration only
\* by a remove-device that asks for it.
AddedStays ==
  [][\A c \in Container : \A d \in file[c].devices :
       (~ \E e \in file'[c].devices : SamePair(d, e)) =>
         \E p \in Command : flock[c] = p /\ Op(p) = "remove"]_vars

=============================================================================

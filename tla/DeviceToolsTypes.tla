--------------------------- MODULE DeviceToolsTypes ----------------------------
(***************************************************************************)
(* The types of DeviceTools, for any containers, commands, devices and     *)
(* requests.  They need an invariant of their own: an argument of the      *)
(* command line may lack one of its names, and what reaches the            *)
(* configuration must not.                                                 *)
(***************************************************************************)
EXTENDS DeviceTools, TLAPS

\* What process a handles is a mapping, from the step at which it has to be one.
Known(a) ==
  /\ pc[a] \in {"mknod", "allow", "unlink", "deny", "clear"} => cur[a] \in Mapping
  /\ pc[a] \in {"each", "mknod", "allow", "unlink", "deny", "clear", "install",
                "withdraw"} => todo[a] \subseteq Mapping
  /\ a \in Command /\ pc[a] = "udev" => job[a].req.op # "update"
  /\ a \in Command /\ job[a].req.op = "add" =>
       /\ pc[a] = "resolve" => \A d \in todo[a] : d.host \in HostDev
       /\ pc[a] \in {"inspect", "lock", "udev"} => todo[a] \subseteq Mapping

DevicesKnown == \A a \in Actor : Known(a)

TypeInv == TypeOK /\ DevicesKnown

\* The empty memory of a process that has not started or has ended is well typed.
LEMMA EmptyTypes ==
  /\ NoDevice \in Device
  /\ EmptyConfig \in Config
  /\ Mapping \subseteq Device
  /\ \A c \in Container : NoJob(c) \in [req: Request, pid: Nat]
  BY NamesAssumption DEF NoDevice, Device, EmptyConfig, Config, Mapping, NoJob, Request

\* The operations of config_device.go turn a configuration into a configuration.
LEMMA ConfigTypes ==
  ASSUME NEW config \in Config
  PROVE  /\ config.devices \subseteq Mapping
         /\ config.qos \subseteq Qos
         /\ \A d \in Mapping : WithDevice(config, d) \in Config
         /\ \A d \in Device : WithoutDevice(config, d) \in Config
         /\ \A old : WithoutLimits(config, old) \in Config
         /\ \A d \in Mapping, n \in Nat : Renumbered(config, d, n) \in Config
         /\ \A q \in Qos : WithLimit(config, q) \in Config
         /\ \A num \in [HostDev -> Nat] : LimitsRenumbered(config, num) \in Config
<1>1. config.devices \subseteq Mapping /\ config.qos \subseteq Qos
  BY DEF Config
<1>2. ASSUME NEW d \in Mapping PROVE WithDevice(config, d) \in Config
  BY DEF WithDevice, Config
<1>3. ASSUME NEW d \in Device PROVE WithoutDevice(config, d) \in Config
  BY DEF WithoutDevice, Config
<1>4. ASSUME NEW old PROVE WithoutLimits(config, old) \in Config
  BY DEF WithoutLimits, Config
<1>5. ASSUME NEW d \in Mapping, NEW n \in Nat PROVE Renumbered(config, d, n) \in Config
  <2>1. [d EXCEPT !.num = n] \in Mapping
    BY DEF Mapping
  <2> QED
    BY <2>1 DEF Renumbered, Config
<1>6. ASSUME NEW q \in Qos PROVE WithLimit(config, q) \in Config
  <2> DEFINE same == {e \in config.qos : e.num = q.num}
             old == CHOOSE e \in same : TRUE
  <2>1. ASSUME same # {} PROVE old \in config.qos /\ [old EXCEPT !.val = q.val] \in Qos
    <3>1. old \in same
      BY <2>1
    <3> QED
      BY <3>1, <1>1 DEF Qos
  <2> QED
    BY <2>1, <1>1 DEF WithLimit, Config
<1>7. ASSUME NEW num \in [HostDev -> Nat] PROVE LimitsRenumbered(config, num) \in Config
  <2>1. \A q \in config.qos : [q EXCEPT !.num = num[q.path]] \in Qos
    BY <1>1 DEF Qos
  <2> QED
    BY <2>1 DEF LimitsRenumbered, Config
<1> QED
  BY <1>1, <1>2, <1>3, <1>4, <1>5, <1>6, <1>7

\* At first every variable has its type.
LEMMA InitType == Init => TypeInv
<1> SUFFICES ASSUME Init PROVE TypeInv
  OBVIOUS
<1>1. FilesTypeOK
  BY EmptyTypes DEF Init, FilesTypeOK
<1>2. ContainersTypeOK
  <2>1. NothingLeft \in Leftover
    BY DEF NothingLeft, Leftover
  <2> QED
    BY <2>1, DevicesAssumption, EnvironmentAssumption DEF Init, ContainersTypeOK
<1>3. StepsTypeOK
  BY DEF Init, StepsTypeOK, Actor, CommandStep, HookStep
<1>4. ProcessesTypeOK
  <2>1. job \in [Command -> [req: Request, pid: Nat]]
    BY EmptyTypes, ActorsAssumption DEF Init
  <2> QED
    BY <2>1, EmptyTypes DEF Init, ProcessesTypeOK
<1>5. EnvironmentTypeOK
  BY DevicesAssumption DEF Init, EnvironmentTypeOK
<1>6. DevicesKnown
  BY ActorsAssumption DEF Init, DevicesKnown, Known, Actor
<1> QED
  BY <1>1, <1>2, <1>3, <1>4, <1>5, <1>6 DEF TypeInv, TypeOK

\* Every process works for a container.
LEMMA CidType ==
  ASSUME TypeInv, NEW a \in Actor
  PROVE  Cid(a) \in Container
  BY DEF TypeInv, TypeOK, ProcessesTypeOK, Cid, Actor, Request

\* The rule of a configured device is a udev rule.
LEMMA RuleType ==
  ASSUME NEW d \in Mapping, NEW c \in Container
  PROVE  RuleOf(d, c) \in Rule
  BY NamesAssumption DEF RuleOf, Rule, Mapping

-----------------------------------------------------------------------------
\* A process moves among the steps of its kind.
LEMMA GotoType ==
  ASSUME TypeInv, NEW a \in Actor, NEW l, Goto(a, l),
         a \in Command => l \in CommandStep, a \in Container => l \in HookStep
  PROVE  StepsTypeOK'
  BY ActorsAssumption DEF TypeInv, TypeOK, StepsTypeOK, Goto, Actor

\* The same for a command.
LEMMA CommandGoto ==
  ASSUME TypeInv, NEW p \in Command, NEW l \in CommandStep, Goto(p, l)
  PROVE  StepsTypeOK'
  BY GotoType, ActorsAssumption DEF Actor

\* The same for a hook.
LEMMA HookGoto ==
  ASSUME TypeInv, NEW c \in Container, NEW l \in HookStep, Goto(c, l)
  PROVE  StepsTypeOK'
  BY GotoType, ActorsAssumption DEF Actor

\* Counting the failed calls gives a number.
LEMMA FaultType ==
  ASSUME TypeInv, NEW n \in Nat, Faults(n) \/ NoFault
  PROVE  faults' \in Nat
  BY DEF TypeInv, TypeOK, EnvironmentTypeOK, Faults, NoFault

\* What a step leaves alone keeps its type.
LEMMA Frame ==
  ASSUME TypeInv
  PROVE  /\ UNCHANGED <<fileVars, ruleVars, lockVars>> => FilesTypeOK'
         /\ UNCHANGED ctrVars => ContainersTypeOK'
         /\ UNCHANGED envVars => EnvironmentTypeOK'
         /\ UNCHANGED pc => StepsTypeOK'
  BY DEF TypeInv, TypeOK, fileVars, ruleVars, lockVars, ctrVars, envVars,
     FilesTypeOK, ContainersTypeOK, EnvironmentTypeOK, StepsTypeOK

\* A process that fails is marked.
LEMMA FailType ==
  ASSUME TypeInv, NEW a \in Actor, Fail(a)
  PROVE  err' \in [Actor -> BOOLEAN]
  BY DEF TypeInv, TypeOK, ProcessesTypeOK, Fail

\* The loops over the devices take one that is left.
LEMMA TakeType ==
  ASSUME TypeInv, NEW a \in Actor, NEW d, Take(a, d)
  PROVE  d \in todo[a] /\ todo' \in [Actor -> SUBSET Device]
  BY DEF TypeInv, TypeOK, ProcessesTypeOK, Take

\* Recording a configuration makes it dirty (SetConfigDirty).
LEMMA RecordType ==
  ASSUME TypeInv, NEW a \in Actor, NEW config \in Config, Record(a, config)
  PROVE  cfg' \in [Actor -> Config] /\ dirty' \in [Actor -> BOOLEAN]
  BY DEF TypeInv, TypeOK, ProcessesTypeOK, Record

\* The dirty flag is a truth value.
LEMMA DirtiedType ==
  ASSUME TypeInv, NEW a \in Actor, NEW changed, Dirtied(a, changed)
  PROVE  dirty' \in [Actor -> BOOLEAN]
<1> DEFINE x == dirty[a] \/ changed
<1>1. dirty \in [Actor -> BOOLEAN] /\ dirty' = [dirty EXCEPT ![a] = x]
  BY DEF TypeInv, TypeOK, ProcessesTypeOK, Dirtied
<1>2. x \in BOOLEAN
  OBVIOUS
<1> HIDE DEF x
<1> QED
  BY <1>1, <1>2

\* AddRule and RemoveRule keep a list of rules.
LEMMA RulesType ==
  ASSUME TypeInv, NEW a \in Actor, NEW r \in Rule,
         AddRule(a, r) \/ RemoveRule(a, r) \/ KeepRules
  PROVE  rcopy' \in [Actor -> SUBSET Rule] /\ rdirty' \in [Actor -> BOOLEAN]
<1>1. rcopy' \in [Actor -> SUBSET Rule]
  BY DEF TypeInv, TypeOK, ProcessesTypeOK, AddRule, RemoveRule, KeepRules
<1>2. rdirty' \in [Actor -> BOOLEAN]
  <2>1. /\ (rdirty[a] \/ r \notin rcopy[a]) \in BOOLEAN
        /\ (rdirty[a] \/ r \in rcopy[a]) \in BOOLEAN
    OBVIOUS
  <2> DEFINE x == rdirty[a] \/ r \notin rcopy[a]
             y == rdirty[a] \/ r \in rcopy[a]
  <2>2. /\ rdirty \in [Actor -> BOOLEAN]
        /\ \/ rdirty' = [rdirty EXCEPT ![a] = x]
           \/ rdirty' = [rdirty EXCEPT ![a] = y]
           \/ rdirty' = rdirty
    BY DEF TypeInv, TypeOK, ProcessesTypeOK, AddRule, RemoveRule, KeepRules
  <2>3. x \in BOOLEAN /\ y \in BOOLEAN
    BY <2>1
  <2> HIDE DEF x, y
  <2> QED
    BY <2>2, <2>3
<1> QED
  BY <1>1, <1>2

\* A process that ends leaves an empty memory.
LEMMA ForgetType ==
  ASSUME TypeInv, NEW a \in Actor, Forget(a)
  PROVE  /\ todo' \in [Actor -> SUBSET Device] /\ cur' \in [Actor -> Device]
         /\ quota' \in [Command -> SUBSET Qos]
         /\ cfg' \in [Actor -> Config] /\ dirty' \in [Actor -> BOOLEAN]
         /\ rcopy' \in [Actor -> SUBSET Rule] /\ rdirty' \in [Actor -> BOOLEAN]
  BY EmptyTypes DEF TypeInv, TypeOK, ProcessesTypeOK, Forget

\* A device node has a number.
LEMMA NodeType ==
  ASSUME TypeInv, NEW c \in Container, NEW q \in DevPath, NEW n \in Nat, PutNode(c, q, n)
  PROVE  nodes' \in [Container -> [DevPath -> Nat]]
  BY DEF TypeInv, TypeOK, ContainersTypeOK, PutNode

\* What calls have left behind keeps its type when some of it is replaced.
LEMMA LeftoverTypes ==
  ASSUME TypeInv, NEW c \in Container
  PROVE  /\ \A ns \in SUBSET DevPath : [left EXCEPT ![c].nodes = ns] \in [Container -> Leftover]
         /\ \A rs \in SUBSET Rule : [left EXCEPT ![c].rules = rs] \in [Container -> Leftover]
         /\ \A al \in SUBSET Nat : [left EXCEPT ![c].perms = al] \in [Container -> Leftover]
         /\ [left EXCEPT ![c].limits = {}] \in [Container -> Leftover]
         /\ [left EXCEPT ![c].nodes = {}, ![c].perms = {}, ![c].limits = {}]
               \in [Container -> Leftover]
         /\ \A al, ms \in SUBSET Nat :
               [left EXCEPT ![c].perms = al, ![c].loose = ms] \in [Container -> Leftover]
         /\ \A ls \in SUBSET [num: Nat, val: Value], ms \in SUBSET Nat :
               [left EXCEPT ![c].limits = ls, ![c].loose = ms] \in [Container -> Leftover]
         /\ \A ns \in SUBSET DevPath, al \in SUBSET Nat, rs \in SUBSET Rule :
               [left EXCEPT ![c].nodes = ns, ![c].perms = al, ![c].rules = rs]
                 \in [Container -> Leftover]
<1>1. left \in [Container -> Leftover]
  BY DEF TypeInv, TypeOK, ContainersTypeOK
<1>2. \A ns \in SUBSET DevPath : [left EXCEPT ![c].nodes = ns] \in [Container -> Leftover]
  BY <1>1 DEF Leftover
<1>3. \A rs \in SUBSET Rule : [left EXCEPT ![c].rules = rs] \in [Container -> Leftover]
  BY <1>1 DEF Leftover
<1>4. \A al \in SUBSET Nat : [left EXCEPT ![c].perms = al] \in [Container -> Leftover]
  BY <1>1 DEF Leftover
<1>5. /\ [left EXCEPT ![c].limits = {}] \in [Container -> Leftover]
      /\ [left EXCEPT ![c].nodes = {}, ![c].perms = {}, ![c].limits = {}]
            \in [Container -> Leftover]
  BY <1>1 DEF Leftover
<1>6. \A al, ms \in SUBSET Nat :
         [left EXCEPT ![c].perms = al, ![c].loose = ms] \in [Container -> Leftover]
  BY <1>1 DEF Leftover
<1>7. \A ls \in SUBSET [num: Nat, val: Value], ms \in SUBSET Nat :
         [left EXCEPT ![c].limits = ls, ![c].loose = ms] \in [Container -> Leftover]
  BY <1>1 DEF Leftover
<1>8. \A ns \in SUBSET DevPath, al \in SUBSET Nat, rs \in SUBSET Rule :
         [left EXCEPT ![c].nodes = ns, ![c].perms = al, ![c].rules = rs]
           \in [Container -> Leftover]
  BY <1>1 DEF Leftover
<1> QED
  BY <1>2, <1>3, <1>4, <1>5, <1>6, <1>7, <1>8

\* The fields of what calls have left behind.
LEMMA LeftoverFields ==
  ASSUME TypeInv, NEW c \in Container
  PROVE  /\ left \in [Container -> Leftover]
         /\ left[c].nodes \in SUBSET DevPath /\ left[c].perms \in SUBSET Nat
         /\ left[c].limits \in SUBSET [num: Nat, val: Value]
         /\ left[c].loose \in SUBSET Nat /\ left[c].rules \in SUBSET Rule
  BY DEF TypeInv, TypeOK, ContainersTypeOK, Leftover

\* A path where a node is or is not left is a path.
LEMMA NodeLeftType ==
  ASSUME TypeInv, NEW c \in Container, NEW q \in DevPath, NodeLeft(c, q) \/ NodeSettled(c, q)
  PROVE  left' \in [Container -> Leftover]
<1>1. left[c].nodes \cup {q} \in SUBSET DevPath /\ left[c].nodes \ {q} \in SUBSET DevPath
  BY LeftoverFields
<1>2. \A ns \in SUBSET DevPath : [left EXCEPT ![c].nodes = ns] \in [Container -> Leftover]
  BY LeftoverFields, LeftoverTypes
<1> QED
  BY <1>1, <1>2 DEF NodeLeft, NodeSettled

\* A step of one process tells nothing new of the devices of the others.
LEMMA KnownKept ==
  ASSUME DevicesKnown, NEW a \in Actor, Known(a)',
         \A b \in Actor \ {a} :
            /\ pc'[b] = pc[b] /\ todo'[b] = todo[b] /\ cur'[b] = cur[b]
            /\ b \in Command => job'[b] = job[b]
  PROVE  DevicesKnown'
  BY DEF DevicesKnown, Known

\* GetCgroupPath keeps the types.
LEMMA InspectType ==
  ASSUME TypeInv, NEW p \in Command, Inspect(p)
  PROVE  TypeInv'
<1>1. p \in Actor /\ Cid(p) \in Container
  BY CidType DEF Actor
<1>2. StepsTypeOK'
  BY CommandGoto DEF Inspect, CommandStep
<1>3. ProcessesTypeOK'
  BY DEF Inspect, TypeInv, TypeOK, ProcessesTypeOK
<1>4. DevicesKnown'
  BY <1>1, KnownKept DEF Inspect, TypeInv, TypeOK, DevicesKnown, Known,
     StepsTypeOK, ProcessesTypeOK, Goto
<1> QED
  BY <1>2, <1>3, <1>4, Frame DEF Inspect, TypeInv, TypeOK

\* The end of the loop over the devices keeps the types.
LEMMA EachDoneType ==
  ASSUME TypeInv, NEW p \in Command, EachDone(p)
  PROVE  TypeInv'
<1>1. p \in Actor /\ Cid(p) \in Container
  BY CidType DEF Actor
<1>2. StepsTypeOK'
  BY CommandGoto DEF EachDone, CommandStep
<1>3. ProcessesTypeOK'
  BY DEF EachDone, TypeInv, TypeOK, ProcessesTypeOK
<1>4. DevicesKnown'
  BY <1>1, KnownKept DEF EachDone, TypeInv, TypeOK, DevicesKnown, Known,
     StepsTypeOK, ProcessesTypeOK, Goto
<1> QED
  BY <1>2, <1>3, <1>4, Frame DEF EachDone, TypeInv, TypeOK

\* The end of the loop of updateQos keeps the types.
LEMMA LimitsDoneType ==
  ASSUME TypeInv, NEW p \in Command, LimitsDone(p)
  PROVE  TypeInv'
<1>1. p \in Actor /\ Cid(p) \in Container
  BY CidType DEF Actor
<1>2. StepsTypeOK'
  BY CommandGoto DEF LimitsDone, AfterQuota, CommandStep
<1>3. ProcessesTypeOK'
  BY DEF LimitsDone, TypeInv, TypeOK, ProcessesTypeOK
<1>4. DevicesKnown'
  BY <1>1, KnownKept DEF LimitsDone, TypeInv, TypeOK, DevicesKnown, Known,
     StepsTypeOK, ProcessesTypeOK, Goto, AfterQuota
<1> QED
  BY <1>2, <1>3, <1>4, Frame DEF LimitsDone, TypeInv, TypeOK

\* Making the node of a recorded device keeps the types (doAddDevice).
LEMMA MknodType ==
  ASSUME TypeInv, NEW p \in Command, Mknod(p)
  PROVE  TypeInv'
<1>1. p \in Actor /\ Cid(p) \in Container
  BY CidType DEF Actor
<1>2. cur[p] \in Mapping
  BY <1>1 DEF Mknod, TypeInv, DevicesKnown, Known
<1>3. StepsTypeOK'
  BY CommandGoto DEF Mknod, CommandStep
<1>4. ProcessesTypeOK'
  BY DEF Mknod, TypeInv, TypeOK, ProcessesTypeOK
<1>5. DevicesKnown'
  BY <1>1, KnownKept DEF Mknod, TypeInv, TypeOK, DevicesKnown, Known,
     StepsTypeOK, ProcessesTypeOK, Goto
<1>6. ContainersTypeOK'
  <2>1. cur[p].path \in DevPath /\ cur[p].num \in Nat
    BY <1>2 DEF Mapping
  <2>2. nodes' \in [Container -> [DevPath -> Nat]] /\ left' \in [Container -> Leftover]
    BY <1>1, <2>1, NodeType, NodeLeftType DEF Mknod
  <2> QED
    BY <2>2 DEF Mknod, TypeInv, TypeOK, ContainersTypeOK
<1> QED
  BY <1>2, <1>3, <1>4, <1>5, <1>6, Frame DEF Mknod, TypeInv, TypeOK

\* Giving its permission keeps the types (UpdateCgroupPermission).
LEMMA AllowType ==
  ASSUME TypeInv, NEW p \in Command, Allow(p)
  PROVE  TypeInv'
<1>1. p \in Actor /\ Cid(p) \in Container
  BY CidType DEF Actor
<1>2. cur[p] \in Mapping
  BY <1>1 DEF Allow, TypeInv, DevicesKnown, Known
<1>3. StepsTypeOK'
  BY CommandGoto DEF Allow, CommandStep
<1>4. ProcessesTypeOK'
  BY DEF Allow, TypeInv, TypeOK, ProcessesTypeOK
<1>5. DevicesKnown'
  BY <1>1, KnownKept DEF Allow, TypeInv, TypeOK, DevicesKnown, Known,
     StepsTypeOK, ProcessesTypeOK, Goto
<1>6. ContainersTypeOK'
  <2>1. allowed' \in [Container -> SUBSET Nat]
    BY <1>1, <1>2 DEF Allow, TypeInv, TypeOK, ContainersTypeOK, Mapping
  <2>2. left' \in [Container -> Leftover]
    BY <1>1, LeftoverFields, LeftoverTypes DEF Allow
  <2> QED
    BY <2>1, <2>2 DEF Allow, TypeInv, TypeOK, ContainersTypeOK
<1> QED
  BY <1>2, <1>3, <1>4, <1>5, <1>6, Frame DEF Allow, TypeInv, TypeOK

\* Removing a node keeps the types (doRemoveDevice).
LEMMA UnlinkType ==
  ASSUME TypeInv, NEW p \in Command, Unlink(p)
  PROVE  TypeInv'
<1>1. p \in Actor /\ Cid(p) \in Container
  BY CidType DEF Actor
<1>2. cur[p] \in Mapping
  BY <1>1 DEF Unlink, TypeInv, DevicesKnown, Known
<1>3. StepsTypeOK'
  BY CommandGoto DEF Unlink, CommandStep
<1>4. ProcessesTypeOK'
  BY DEF Unlink, TypeInv, TypeOK, ProcessesTypeOK
<1>5. DevicesKnown'
  BY <1>1, KnownKept DEF Unlink, TypeInv, TypeOK, DevicesKnown, Known,
     StepsTypeOK, ProcessesTypeOK, Goto
<1>6. ContainersTypeOK'
  <2>1. cur[p].path \in DevPath /\ cur[p].num \in Nat
    BY <1>2 DEF Mapping
  <2>2. nodes' \in [Container -> [DevPath -> Nat]] /\ left' \in [Container -> Leftover]
    BY <1>1, <2>1, NodeType, NodeLeftType DEF Unlink, RemoveNode
  <2> QED
    BY <2>2 DEF Unlink, TypeInv, TypeOK, ContainersTypeOK
<1> QED
  BY <1>2, <1>3, <1>4, <1>5, <1>6, Frame DEF Unlink, TypeInv, TypeOK

\* Taking its permission keeps the types (UpdateCgroupPermission).
LEMMA DenyType ==
  ASSUME TypeInv, NEW p \in Command, Deny(p)
  PROVE  TypeInv'
<1>1. p \in Actor /\ Cid(p) \in Container
  BY CidType DEF Actor
<1>2. cur[p] \in Mapping
  BY <1>1 DEF Deny, TypeInv, DevicesKnown, Known
<1>3. StepsTypeOK'
  BY CommandGoto DEF Deny, CommandStep
<1>4. ProcessesTypeOK'
  BY DEF Deny, TypeInv, TypeOK, ProcessesTypeOK
<1>5. DevicesKnown'
  BY <1>1, KnownKept DEF Deny, TypeInv, TypeOK, DevicesKnown, Known,
     StepsTypeOK, ProcessesTypeOK, Goto
<1>6. ContainersTypeOK'
  <2>1. allowed' \in [Container -> SUBSET Nat]
    BY <1>1 DEF Deny, Denied, TypeInv, TypeOK, ContainersTypeOK
  <2>2. left' \in [Container -> Leftover]
    BY <1>1, LeftoverFields, LeftoverTypes DEF Deny
  <2> QED
    BY <2>1, <2>2 DEF Deny, TypeInv, TypeOK, ContainersTypeOK
<1> QED
  BY <1>2, <1>3, <1>4, <1>5, <1>6, Frame DEF Deny, TypeInv, TypeOK

\* Refusing a device whose names are taken keeps the types.
LEMMA RefuseConflictType ==
  ASSUME TypeInv, NEW p \in Command, NEW d \in todo[p], RefuseConflict(p, d)
  PROVE  TypeInv'
<1>1. p \in Actor /\ Cid(p) \in Container
  BY CidType DEF Actor
<1>2. StepsTypeOK'
  BY Frame DEF RefuseConflict
<1>3. ProcessesTypeOK'
  BY <1>1, FailType, TakeType DEF RefuseConflict, TypeInv, TypeOK, ProcessesTypeOK
<1>4. DevicesKnown'
  BY <1>1, KnownKept DEF RefuseConflict, TypeInv, TypeOK, DevicesKnown, Known,
     StepsTypeOK, ProcessesTypeOK, Goto, Take
<1> QED
  BY <1>2, <1>3, <1>4, Frame DEF RefuseConflict, TypeInv, TypeOK

\* Refusing a device of no known type keeps the types.
LEMMA RefuseUnknownType ==
  ASSUME TypeInv, NEW p \in Command, NEW d \in todo[p], RefuseUnknown(p, d)
  PROVE  TypeInv'
<1>1. p \in Actor /\ Cid(p) \in Container
  BY CidType DEF Actor
<1>2. StepsTypeOK'
  BY Frame DEF RefuseUnknown
<1>3. ProcessesTypeOK'
  BY <1>1, FailType, TakeType DEF RefuseUnknown, TypeInv, TypeOK, ProcessesTypeOK
<1>4. DevicesKnown'
  BY <1>1, KnownKept DEF RefuseUnknown, TypeInv, TypeOK, DevicesKnown, Known,
     StepsTypeOK, ProcessesTypeOK, Goto, Take
<1>5. EnvironmentTypeOK'
  BY FaultType DEF RefuseUnknown, TypeInv, TypeOK, EnvironmentTypeOK, Fault
<1> QED
  BY <1>2, <1>3, <1>4, <1>5, Frame DEF RefuseUnknown, TypeInv, TypeOK

\* The roll back of AddDevice keeps the types of all it touches.
LEMMA RollBackType ==
  ASSUME TypeInv, NEW p \in Command, NEW d \in Mapping, RollBack(p, d),
         UNCHANGED <<job, todo, cur, quota>>, pc[p] \in {"mknod", "allow"}
  PROVE  StepsTypeOK' /\ ProcessesTypeOK' /\ DevicesKnown'
<1>1. p \in Actor /\ Cid(p) \in Container
  BY CidType DEF Actor
<1>2. StepsTypeOK'
  BY CommandGoto DEF RollBack, CommandStep
<1>3. ProcessesTypeOK'
  <2>1. WithoutDevice(cfg[p], d) \in Config /\ RuleOf(d, Cid(p)) \in Rule
    BY <1>1, ConfigTypes, RuleType, EmptyTypes DEF TypeInv, TypeOK, ProcessesTypeOK
  <2> QED
    BY <1>1, <2>1, RecordType, RulesType, FailType DEF RollBack, TypeInv, TypeOK, ProcessesTypeOK
<1>4. DevicesKnown'
  BY <1>1, KnownKept DEF RollBack, TypeInv, TypeOK, DevicesKnown, Known,
     StepsTypeOK, ProcessesTypeOK, Goto
<1> QED
  BY <1>2, <1>3, <1>4

\* A node that cannot be made keeps the types.
LEMMA MknodFailsType ==
  ASSUME TypeInv, NEW p \in Command, MknodFails(p)
  PROVE  TypeInv'
<1>1. p \in Actor /\ Cid(p) \in Container
  BY CidType DEF Actor
<1>2. cur[p] \in Mapping
  BY <1>1 DEF MknodFails, TypeInv, DevicesKnown, Known
<1>3. StepsTypeOK' /\ ProcessesTypeOK' /\ DevicesKnown'
  BY <1>2, RollBackType DEF MknodFails
<1>4. EnvironmentTypeOK'
  BY FaultType DEF MknodFails, Fault, TypeInv, TypeOK, EnvironmentTypeOK
<1>5. HalfMade(p, cur[p]) \subseteq Nat
  BY <1>1, <1>2 DEF HalfMade, TypeInv, TypeOK, ContainersTypeOK, Mapping
<1>6. nodes' \in [Container -> [DevPath -> Nat]]
  <2>1. CASE UNCHANGED nodes
    BY <2>1 DEF TypeInv, TypeOK, ContainersTypeOK
  <2>2. CASE \E n \in HalfMade(p, cur[p]) : PutNode(Cid(p), cur[p].path, n)
    BY <1>1, <1>2, <1>5, <2>2, NodeType DEF Mapping
  <2> QED
    BY <2>1, <2>2 DEF MknodFails
<1>7. left' \in [Container -> Leftover]
  <2>1. CASE UNCHANGED left
    BY <1>1, <2>1, LeftoverFields
  <2>2. CASE NodeLeft(Cid(p), cur[p].path) \/ NodeSettled(Cid(p), cur[p].path)
    BY <1>1, <1>2, <2>2, NodeLeftType DEF Mapping
  <2> QED
    BY <2>1, <2>2 DEF MknodFails
<1>8. ContainersTypeOK'
  BY <1>6, <1>7 DEF MknodFails, TypeInv, TypeOK, ContainersTypeOK
<1> QED
  BY <1>3, <1>4, <1>8, Frame DEF MknodFails, TypeInv, TypeOK

\* A permission that cannot be given keeps the types.
LEMMA AllowFailsType ==
  ASSUME TypeInv, NEW p \in Command, AllowFails(p)
  PROVE  TypeInv'
<1>1. p \in Actor /\ Cid(p) \in Container
  BY CidType DEF Actor
<1>2. cur[p] \in Mapping
  BY <1>1 DEF AllowFails, TypeInv, DevicesKnown, Known
<1>3. StepsTypeOK' /\ ProcessesTypeOK' /\ DevicesKnown'
  BY <1>2, RollBackType DEF AllowFails
<1>4. EnvironmentTypeOK'
  BY FaultType DEF AllowFails, Fault, TypeInv, TypeOK, EnvironmentTypeOK, Faults
<1>5. ContainersTypeOK'
  <2>1. cur[p].path \in DevPath
    BY <1>2 DEF Mapping
  <2>2. nodes' \in [Container -> [DevPath -> Nat]]
    BY <1>1, <2>1, NodeType DEF AllowFails, RemoveNode, TypeInv, TypeOK, ContainersTypeOK
  <2>3. left' \in [Container -> Leftover]
    BY <1>1, <2>1, NodeLeftType, LeftoverFields DEF AllowFails
  <2> QED
    BY <2>2, <2>3 DEF AllowFails, TypeInv, TypeOK, ContainersTypeOK
<1> QED
  BY <1>3, <1>4, <1>5, Frame DEF AllowFails, TypeInv, TypeOK

\* Recording a new device keeps the types: it is a mapping by now.
LEMMA RecordDeviceType ==
  ASSUME TypeInv, NEW p \in Command, NEW d \in todo[p], RecordDevice(p, d)
  PROVE  TypeInv'
<1>1. d \in Mapping /\ p \in Actor
  BY DEF TypeInv, TypeOK, StepsTypeOK, DevicesKnown, Known, RecordDevice, Actor
<1>2. StepsTypeOK'
  <2>1. CASE Goto(p, "mknod")
    BY <2>1, CommandGoto DEF CommandStep
  <2>2. CASE UNCHANGED pc
    BY <2>2 DEF StepsTypeOK, TypeInv, TypeOK
  <2> QED
    BY <2>1, <2>2 DEF RecordDevice
<1>3. ProcessesTypeOK'
  <2>1. WithDevice(cfg[p], d) \in Config /\ RuleOf(d, Cid(p)) \in Rule
    BY <1>1, ConfigTypes, CidType, RuleType DEF TypeInv, TypeOK, ProcessesTypeOK
  <2>2. cur' \in [Actor -> Device]
    BY <1>1, EmptyTypes DEF TypeInv, TypeOK, ProcessesTypeOK, RecordDevice
  <2> QED
    BY <1>1, <2>1, <2>2, TakeType, RecordType, RulesType
    DEF TypeInv, TypeOK, ProcessesTypeOK, RecordDevice
<1>4. DevicesKnown'
  BY <1>1, KnownKept
  DEF TypeInv, TypeOK, DevicesKnown, Known, StepsTypeOK, ProcessesTypeOK, RecordDevice, Goto, Take
<1>5. left' \in [Container -> Leftover]
  BY <1>1, CidType, LeftoverFields, LeftoverTypes DEF RecordDevice
<1> QED
  BY <1>2, <1>3, <1>4, <1>5 DEF TypeInv, TypeOK, RecordDevice,
    fileVars, ruleVars, lockVars, envVars, FilesTypeOK, ContainersTypeOK, EnvironmentTypeOK

\* Taking a device out of the configuration keeps the types.
LEMMA UnrecordType ==
  ASSUME TypeInv, NEW p \in Command, NEW d \in todo[p], Unrecord(p, d)
  PROVE  TypeInv'
<1>1. p \in Actor /\ Cid(p) \in Container
  BY CidType DEF Actor
<1>2. d \in Mapping /\ WithoutDevice(cfg[p], d) \in Config /\ RuleOf(d, Cid(p)) \in Rule
  BY <1>1, ConfigTypes, RuleType, EmptyTypes
  DEF Unrecord, TypeInv, TypeOK, ProcessesTypeOK, DevicesKnown, Known
<1>3. StepsTypeOK'
  BY CommandGoto DEF Unrecord, CommandStep
<1>4. ProcessesTypeOK'
  BY <1>1, <1>2, EmptyTypes, TakeType, RecordType, RulesType DEF Unrecord, TypeInv, TypeOK, ProcessesTypeOK
<1>5. DevicesKnown'
  BY <1>1, <1>2, KnownKept DEF Unrecord, TypeInv, TypeOK, DevicesKnown, Known,
     StepsTypeOK, ProcessesTypeOK, Goto, Take
<1> QED
  BY <1>2, <1>3, <1>4, <1>5, Frame DEF Unrecord, TypeInv, TypeOK

\* Putting it back keeps the types.
LEMMA UnlinkFailsType ==
  ASSUME TypeInv, NEW p \in Command, UnlinkFails(p)
  PROVE  TypeInv'
<1>1. p \in Actor /\ Cid(p) \in Container
  BY CidType DEF Actor
<1>2. cur[p] \in Mapping /\ WithDevice(cfg[p], cur[p]) \in Config /\ RuleOf(cur[p], Cid(p)) \in Rule
  BY <1>1, ConfigTypes, RuleType
  DEF UnlinkFails, TypeInv, TypeOK, ProcessesTypeOK, DevicesKnown, Known
<1>3. StepsTypeOK'
  BY CommandGoto DEF UnlinkFails, CommandStep
<1>4. ProcessesTypeOK'
  BY <1>1, <1>2, RecordType, RulesType, FailType DEF UnlinkFails, TypeInv, TypeOK, ProcessesTypeOK
<1>5. DevicesKnown'
  BY <1>1, KnownKept DEF UnlinkFails, TypeInv, TypeOK, DevicesKnown, Known,
     StepsTypeOK, ProcessesTypeOK, Goto
<1>6. EnvironmentTypeOK'
  BY FaultType DEF UnlinkFails, TypeInv, TypeOK, EnvironmentTypeOK
<1>7. ContainersTypeOK'
  <2>1. left' \in [Container -> Leftover]
    <3>1. \A rs \in SUBSET Rule : [left EXCEPT ![Cid(p)].rules = rs] \in [Container -> Leftover]
      BY <1>1, LeftoverFields, LeftoverTypes
    <3>2. /\ left[Cid(p)].rules \cup {RuleOf(cur[p], Cid(p))} \in SUBSET Rule
          /\ left[Cid(p)].rules \ {RuleOf(cur[p], Cid(p))} \in SUBSET Rule
      BY <1>1, <1>2, LeftoverFields
    <3> QED
      BY <3>1, <3>2 DEF UnlinkFails
  <2> QED
    BY <2>1 DEF UnlinkFails, TypeInv, TypeOK, ContainersTypeOK
<1> QED
  BY <1>2, <1>3, <1>4, <1>5, <1>6, <1>7, Frame DEF UnlinkFails, TypeInv, TypeOK

\* A permission that cannot be taken keeps the types.
LEMMA DenyFailsType ==
  ASSUME TypeInv, NEW p \in Command, DenyFails(p)
  PROVE  TypeInv'
<1>1. p \in Actor /\ Cid(p) \in Container
  BY CidType DEF Actor
<1>2. StepsTypeOK'
  BY CommandGoto DEF DenyFails, CommandStep
<1>3. ProcessesTypeOK'
  BY <1>1, FailType DEF DenyFails, TypeInv, TypeOK, ProcessesTypeOK
<1>4. DevicesKnown'
  BY <1>1, KnownKept DEF DenyFails, TypeInv, TypeOK, DevicesKnown, Known,
     StepsTypeOK, ProcessesTypeOK, Goto
<1>5. EnvironmentTypeOK'
  BY FaultType DEF DenyFails, TypeInv, TypeOK, EnvironmentTypeOK, Fault
<1>6. ContainersTypeOK'
  <2>1. cur[p].num \in Nat
    BY <1>1 DEF DenyFails, TypeInv, DevicesKnown, Known, Mapping
  <2>2. left' \in [Container -> Leftover]
    <3>1. left[Cid(p)].perms \cup {cur[p].num} \in SUBSET Nat
      BY <1>1, <2>1, LeftoverFields
    <3> QED
      BY <1>1, <3>1, LeftoverTypes DEF DenyFails
  <2> QED
    BY <2>2 DEF DenyFails, TypeInv, TypeOK, ContainersTypeOK
<1> QED
  BY <1>2, <1>3, <1>4, <1>5, <1>6, Frame DEF DenyFails, TypeInv, TypeOK

\* removeQos keeps the types.
LEMMA ClearLimitsType ==
  ASSUME TypeInv, NEW p \in Command, ClearLimits(p)
  PROVE  TypeInv'
<1>1. p \in Actor /\ Cid(p) \in Container
  BY CidType DEF Actor
<1>2. \A old : WithoutLimits(cfg[p], old) \in Config
  BY <1>1, ConfigTypes DEF TypeInv, TypeOK, ProcessesTypeOK
<1>3. StepsTypeOK'
  BY CommandGoto DEF ClearLimits, CommandStep
<1>4. ProcessesTypeOK'
  <2>1. dirty' \in [Actor -> BOOLEAN]
    BY <1>1, DirtiedType DEF ClearLimits
  <2>2. cfg' \in [Actor -> Config]
    <3>1. CASE UNCHANGED cfg
      BY <3>1 DEF TypeInv, TypeOK, ProcessesTypeOK
    <3>2. CASE \E q \in LimitsOf(cfg[p], cur[p]) :
                  cfg' = [cfg EXCEPT ![p] = WithoutLimits(@, {q})]
      BY <1>1, <1>2, <3>2 DEF TypeInv, TypeOK, ProcessesTypeOK
    <3> QED
      BY <3>1, <3>2 DEF ClearLimits
  <2> QED
    BY <2>1, <2>2 DEF ClearLimits, TypeInv, TypeOK, ProcessesTypeOK
<1>5. DevicesKnown'
  BY <1>1, KnownKept DEF ClearLimits, TypeInv, TypeOK, DevicesKnown, Known,
     StepsTypeOK, ProcessesTypeOK, Goto
<1>6. ContainersTypeOK'
  <2>1. blkio' \in [Container -> SUBSET [num: Nat, val: Value]]
    <3>1. /\ blkio \in [Container -> SUBSET [num: Nat, val: Value]]
          /\ \A n : Cleared(blkio[Cid(p)], n) \in SUBSET [num: Nat, val: Value]
      BY <1>1 DEF Cleared, TypeInv, TypeOK, ContainersTypeOK
    <3> QED
      <4>1. UNCHANGED blkio \/ \E n : blkio' = [blkio EXCEPT ![Cid(p)] = Cleared(@, n)]
        BY DEF ClearLimits
      <4> QED
        BY <1>1, <3>1, <4>1
  <2>2. left' \in [Container -> Leftover]
    <3>1. CASE UNCHANGED left
      BY <1>1, <3>1, LeftoverFields
    <3>2. CASE \E q \in LimitsOf(cfg[p], cur[p]) :
                 left' = [left EXCEPT ![Cid(p)].limits = {b \in @ : b.num # q.num},
                                      ![Cid(p)].loose = @ \ {q.num}]
      <4>1. \A n : /\ {b \in left[Cid(p)].limits : b.num # n} \in SUBSET [num: Nat, val: Value]
                   /\ left[Cid(p)].loose \ {n} \in SUBSET Nat
        BY <1>1, LeftoverFields
      <4> QED
        <5>1. PICK q \in LimitsOf(cfg[p], cur[p]) :
                left' = [left EXCEPT ![Cid(p)].limits = {b \in @ : b.num # q.num},
                                     ![Cid(p)].loose = @ \ {q.num}]
          BY <3>2
        <5> DEFINE ls == {b \in left[Cid(p)].limits : b.num # q.num}
                   ms == left[Cid(p)].loose \ {q.num}
        <5>2. ls \in SUBSET [num: Nat, val: Value] /\ ms \in SUBSET Nat
          BY <4>1
        <5>3. left' = [left EXCEPT ![Cid(p)].limits = ls, ![Cid(p)].loose = ms]
          BY <5>1
        <5> HIDE DEF ls, ms
        <5> QED
          BY <1>1, <5>2, <5>3, LeftoverTypes
    <3> QED
      BY <3>1, <3>2 DEF ClearLimits
  <2> QED
    BY <2>1, <2>2 DEF ClearLimits, TypeInv, TypeOK, ContainersTypeOK
<1> QED
  BY <1>2, <1>3, <1>4, <1>5, <1>6, Frame DEF ClearLimits, TypeInv, TypeOK

\* A removeQos that fails keeps the types.
LEMMA ClearFailsType ==
  ASSUME TypeInv, NEW p \in Command, ClearFails(p)
  PROVE  TypeInv'
<1>1. p \in Actor /\ Cid(p) \in Container
  BY CidType DEF Actor
<1>2. \A old : WithoutLimits(cfg[p], old) \in Config
  BY <1>1, ConfigTypes DEF TypeInv, TypeOK, ProcessesTypeOK
<1>3. StepsTypeOK'
  BY CommandGoto DEF ClearFails, CommandStep
<1>4. ProcessesTypeOK'
  BY <1>1, <1>2, FailType DEF ClearFails, TypeInv, TypeOK, ProcessesTypeOK
<1>5. DevicesKnown'
  BY <1>1, KnownKept DEF ClearFails, TypeInv, TypeOK, DevicesKnown, Known,
     StepsTypeOK, ProcessesTypeOK, Goto
<1>6. EnvironmentTypeOK'
  BY FaultType DEF ClearFails, TypeInv, TypeOK, EnvironmentTypeOK, Fault
<1>7. ContainersTypeOK'
  <2>1. blkio[Cid(p)] \in SUBSET [num: Nat, val: Value]
    BY <1>1 DEF TypeInv, TypeOK, ContainersTypeOK
  <2>2. left' \in [Container -> Leftover]
    <3>1. \A n : /\ left[Cid(p)].limits \cup {b \in blkio[Cid(p)] : b.num = n}
                      \in SUBSET [num: Nat, val: Value]
                 /\ left[Cid(p)].loose \ {n} \in SUBSET Nat
      BY <1>1, <2>1, LeftoverFields
    <3> QED
      <4>1. PICK q \in LimitsOf(cfg[p], cur[p]) :
              left' = [left EXCEPT ![Cid(p)].limits = @ \cup {b \in blkio[Cid(p)] : b.num = q.num},
                                   ![Cid(p)].loose = @ \ {q.num}]
        BY DEF ClearFails
      <4> DEFINE ls == left[Cid(p)].limits \cup {b \in blkio[Cid(p)] : b.num = q.num}
                 ms == left[Cid(p)].loose \ {q.num}
      <4>2. ls \in SUBSET [num: Nat, val: Value] /\ ms \in SUBSET Nat
        BY <3>1
      <4>3. left' = [left EXCEPT ![Cid(p)].limits = ls, ![Cid(p)].loose = ms]
        BY <4>1
      <4> HIDE DEF ls, ms
      <4> QED
        BY <1>1, <4>2, <4>3, LeftoverTypes
  <2> QED
    BY <2>2 DEF ClearFails, TypeInv, TypeOK, ContainersTypeOK
<1> QED
  BY <1>2, <1>3, <1>4, <1>5, <1>6, <1>7, Frame DEF ClearFails, TypeInv, TypeOK

\* Setting a limit keeps the types (updateQos).
LEMMA SetLimitType ==
  ASSUME TypeInv, NEW p \in Command, NEW q \in quota[p], SetLimit(p, q)
  PROVE  TypeInv'
<1>1. p \in Actor /\ Cid(p) \in Container
  BY CidType DEF Actor
<1>2. q \in Qos /\ WithLimit(cfg[p], q) \in Config
  BY <1>1, ConfigTypes DEF TypeInv, TypeOK, ProcessesTypeOK
<1>3. StepsTypeOK'
  BY Frame DEF SetLimit
<1>4. ProcessesTypeOK'
  BY <1>1, <1>2, DirtiedType DEF SetLimit, TypeInv, TypeOK, ProcessesTypeOK
<1>5. DevicesKnown'
  BY <1>1, KnownKept DEF SetLimit, TypeInv, TypeOK, DevicesKnown, Known,
     StepsTypeOK, ProcessesTypeOK, Goto
<1>6. ContainersTypeOK'
  <2>1. blkio' \in [Container -> SUBSET [num: Nat, val: Value]]
    BY <1>1, <1>2 DEF SetLimit, TypeInv, TypeOK, ContainersTypeOK, Throttle, Qos
  <2>2. q.num \in Nat
    BY <1>2 DEF Qos
  <2>3. left' \in [Container -> Leftover]
    <3>1. /\ {b \in left[Cid(p)].limits : b.num # q.num} \in SUBSET [num: Nat, val: Value]
          /\ left[Cid(p)].loose \cup {n \in {q.num} : IsLoose(p, q)} \in SUBSET Nat
      BY <1>1, <2>2, LeftoverFields
    <3> QED
      BY <1>1, <3>1, LeftoverTypes DEF SetLimit
  <2> QED
    BY <2>1, <2>3 DEF SetLimit, TypeInv, TypeOK, ContainersTypeOK
<1> QED
  BY <1>2, <1>3, <1>4, <1>5, <1>6, Frame DEF SetLimit, TypeInv, TypeOK

\* A limit that cannot be set keeps the types.
LEMMA SetLimitFailsType ==
  ASSUME TypeInv, NEW p \in Command, SetLimitFails(p)
  PROVE  TypeInv'
<1>1. p \in Actor /\ Cid(p) \in Container
  BY CidType DEF Actor
<1>2. StepsTypeOK'
  BY CommandGoto DEF SetLimitFails, AfterQuota, CommandStep
<1>3. ProcessesTypeOK'
  BY <1>1, FailType DEF SetLimitFails, TypeInv, TypeOK, ProcessesTypeOK
<1>4. DevicesKnown'
  BY <1>1, KnownKept DEF SetLimitFails, TypeInv, TypeOK, DevicesKnown, Known,
     StepsTypeOK, ProcessesTypeOK, Goto, AfterQuota
<1>5. EnvironmentTypeOK'
  BY FaultType DEF SetLimitFails, TypeInv, TypeOK, EnvironmentTypeOK, Fault
<1> QED
  BY <1>2, <1>3, <1>4, <1>5, Frame DEF SetLimitFails, TypeInv, TypeOK

\* The early returns keep the types.
LEMMA GiveUpType ==
  ASSUME TypeInv, NEW p \in Command, GiveUp(p)
  PROVE  TypeInv'
<1>1. p \in Actor /\ StepsTypeOK'
  BY CommandGoto DEF GiveUp, CommandStep, Actor
<1>2. ProcessesTypeOK'
  BY <1>1, FailType, ForgetType DEF GiveUp, TypeInv, TypeOK, ProcessesTypeOK
<1>3. DevicesKnown'
  BY <1>1, KnownKept DEF GiveUp, TypeInv, TypeOK, DevicesKnown, Known,
     StepsTypeOK, ProcessesTypeOK, Goto, Forget
<1> QED
  BY <1>1, <1>2, <1>3, Frame DEF GiveUp, TypeInv, TypeOK

\* setDevicesPath completes both names of a device; one that the host has
\* becomes a mapping.
LEMMA ResolveType ==
  ASSUME NEW config \in Config, NEW d \in Device
  PROVE  /\ Resolve(config, d) \in Device
         /\ d.host \in HostDev => Resolve(config, d) \in Mapping
<1> DEFINE found == {e \in config.devices : Matches(e, d)}
           e == CHOOSE e \in found : TRUE
           named == IF found = {} THEN d ELSE [d EXCEPT !.host = e.host, !.path = e.path]
<1>1. found # {} => e \in Mapping
  BY ConfigTypes
<1>2. named \in Device /\ (d.host \in HostDev => named.host \in HostDev)
  BY <1>1, NamesAssumption DEF Device, Mapping
<1> HIDE DEF named
<1>3. [named EXCEPT !.path = IF @ = Unset THEN named.host ELSE @,
                    !.host = IF @ = Unset THEN named.path ELSE @] \in Device
  BY <1>2 DEF Device
<1>4. d.host \in HostDev =>
        [named EXCEPT !.path = IF @ = Unset THEN named.host ELSE @,
                      !.host = IF @ = Unset THEN named.path ELSE @] \in Mapping
  BY <1>2, NamesAssumption DEF Device, Mapping
<1> QED
  BY <1>3, <1>4 DEF Resolve, named

\* ParseDevice and ParseMapping give devices, and those of add-device are on
\* the host.
LEMMA ParsedType ==
  ASSUME TypeInv, NEW r \in Requests
  PROVE  /\ Parsed(r) \subseteq Device
         /\ r.op = "add" => \A d \in Parsed(r) : d.host \in HostDev
<1> DEFINE num(h) == IF r.op = "add" THEN hostNum[h] ELSE 0
           given == {[host |-> d.host, path |-> d.path, num |-> num(d.host)] : d \in r.devs}
           part(d, h) == [host |-> h, num |-> num(h),
                          path |-> IF d.path = Unset THEN Unset ELSE PartPath[d.path][h]]
           missing(d) == {h \in HostDev : /\ Parent[h] = d.host
                                          /\ hostNum[h] # 0
                                          /\ \A e \in given : e.host # h}
           parts(d) == {part(d, h) : h \in missing(d)}
<1>1. hostNum \in [HostDev -> Nat]
  BY DEF TypeInv, TypeOK, EnvironmentTypeOK
<1>2. r.devs \subseteq Argument /\ (r.op = "add" => \A d \in r.devs : d.host \in HostDev)
  BY EnvironmentAssumption, RequestsAssumption DEF Request
<1>3. given \subseteq Device /\ (r.op = "add" => \A d \in given : d.host \in HostDev)
  BY <1>1, <1>2 DEF Argument, Device
<1>4. ASSUME NEW d \in given
      PROVE  \A e \in parts(d) : e \in Device /\ e.host \in HostDev
  <2>1. ASSUME NEW h \in HostDev PROVE part(d, h) \in Device /\ part(d, h).host = h
    BY <1>1, <1>3, <2>1, DevicesAssumption, NamesAssumption DEF Device
  <2> HIDE DEF part
  <2> QED
    BY <2>1
<1> HIDE DEF given, parts
<1>5. Parsed(r) \subseteq given \cup UNION {parts(d) : d \in given}
  BY DEF Parsed, given, parts
<1> QED
  BY <1>3, <1>4, <1>5

\* The start of a command keeps the types.
LEMMA BeginType ==
  ASSUME TypeInv, NEW p \in Command, NEW r \in Requests, Begin(p, r)
  PROVE  TypeInv'
<1>1. p \in Actor /\ r \in Request /\ r.cid \in Container
  BY EnvironmentAssumption DEF Actor, Request
<1>2. StepsTypeOK'
  BY CommandGoto DEF Begin, CommandStep
<1>3. ProcessesTypeOK'
  <2>1. job' \in [Command -> [req: Request, pid: Nat]]
    BY <1>1 DEF Begin, TypeInv, TypeOK, ProcessesTypeOK, ContainersTypeOK
  <2>2. todo' \in [Actor -> SUBSET Device]
    BY <1>1, ParsedType DEF Begin, TypeInv, TypeOK, ProcessesTypeOK
  <2>3. {[path |-> l.path, num |-> hostNum[l.path], val |-> l.val] : l \in r.limits}
          \subseteq Qos
    BY <1>1 DEF TypeInv, TypeOK, EnvironmentTypeOK, Request, Qos
  <2>4. quota' \in [Command -> SUBSET Qos]
    BY <1>1, <2>3 DEF Begin, TypeInv, TypeOK, ProcessesTypeOK
  <2> QED
    BY <2>1, <2>2, <2>4 DEF Begin, TypeInv, TypeOK, ProcessesTypeOK
<1>4. DevicesKnown'
  <2>1. Known(p)'
    BY <1>1, ParsedType DEF Begin, TypeInv, TypeOK, Known, StepsTypeOK, ProcessesTypeOK, Goto
  <2> QED
    BY <1>1, <2>1, KnownKept DEF Begin, TypeInv, TypeOK, StepsTypeOK, ProcessesTypeOK, Goto
<1> QED
  BY <1>2, <1>3, <1>4, Frame DEF Begin, TypeInv, TypeOK

\* setDevicesPath keeps the types, and makes mappings of the devices to add.
LEMMA ResolvePathsType ==
  ASSUME TypeInv, NEW p \in Command, ResolvePaths(p)
  PROVE  TypeInv'
<1>1. p \in Actor /\ Cid(p) \in Container
  BY CidType DEF Actor
<1>2. CASE GiveUp(p)
  BY <1>2, GiveUpType
<1>3. CASE ~ GiveUp(p)
  <2> DEFINE resolved == {Resolve(file[Cid(p)], d) : d \in todo[p]}
  <2>1. /\ resolved \subseteq Device
        /\ pc[p] = "resolve" /\ job[p].req.op = "add" => resolved \subseteq Mapping
    BY <1>1, ResolveType
    DEF TypeInv, TypeOK, FilesTypeOK, ProcessesTypeOK, DevicesKnown, Known
  <2>2. todo' = [todo EXCEPT ![p] = resolved] /\ Goto(p, "inspect") /\ pc[p] = "resolve"
    BY <1>3 DEF ResolvePaths
  <2>3. UNCHANGED <<fileVars, ruleVars, lockVars, ctrVars, envVars,
                    job, cur, quota, cfg, dirty, rcopy, rdirty, err>>
    BY <1>3 DEF ResolvePaths
  <2> HIDE DEF resolved
  <2>4. StepsTypeOK'
    BY <2>2, CommandGoto DEF CommandStep
  <2>5. ProcessesTypeOK'
    BY <2>1, <2>2, <2>3 DEF TypeInv, TypeOK, ProcessesTypeOK
  <2>6. DevicesKnown'
    BY <1>1, <2>1, <2>2, <2>3, KnownKept
    DEF TypeInv, TypeOK, DevicesKnown, Known, StepsTypeOK, ProcessesTypeOK, Goto
  <2> QED
    BY <2>3, <2>4, <2>5, <2>6, Frame DEF TypeInv, TypeOK
<1> QED
  BY <1>2, <1>3

\* Locking and loading keeps the types.
LEMMA LockAndLoadType ==
  ASSUME TypeInv, NEW p \in Command, LockAndLoad(p)
  PROVE  TypeInv'
<1>1. p \in Actor /\ Cid(p) \in Container
  BY CidType DEF Actor
<1>2. CASE GiveUp(p)
  BY <1>2, GiveUpType
<1>3. CASE ~ GiveUp(p)
  <2>1. StepsTypeOK'
    BY <1>3, CommandGoto DEF LockAndLoad, CommandStep
  <2>2. ProcessesTypeOK'
    BY <1>1, <1>3 DEF LockAndLoad, TypeInv, TypeOK, FilesTypeOK, ProcessesTypeOK
  <2>3. DevicesKnown'
    BY <1>1, <1>3, KnownKept
    DEF LockAndLoad, TypeInv, TypeOK, DevicesKnown, Known, StepsTypeOK, ProcessesTypeOK, Goto, Op
  <2>4. FilesTypeOK'
    BY <1>1, <1>3 DEF LockAndLoad, TypeInv, TypeOK, FilesTypeOK, fileVars, ruleVars
  <2> QED
    BY <1>3, <2>1, <2>2, <2>3, <2>4, Frame DEF LockAndLoad, TypeInv, TypeOK
<1> QED
  BY <1>2, <1>3

\* Locking and loading the rules keeps the types; what is to be removed is
\* configured.
LEMMA LockUdevType ==
  ASSUME TypeInv, NEW p \in Command, LockUdev(p)
  PROVE  TypeInv'
<1>1. p \in Actor /\ Cid(p) \in Container
  BY CidType DEF Actor
<1>2. ToRemove(p) \subseteq Mapping
  BY <1>1, ConfigTypes
  DEF ToRemove, FindDeviceByMapping, FindSubPartition, TypeInv, TypeOK, ProcessesTypeOK
<1>3. StepsTypeOK'
  BY CommandGoto DEF LockUdev, CommandStep
<1>4. ProcessesTypeOK'
  <2> DEFINE missed == \E d \in todo[p] : FindDeviceByMapping(cfg[p], d) = {}
  <2>1. err' = [err EXCEPT ![p] = missed] \/ err' = err
    BY DEF LockUdev
  <2>2. missed \in BOOLEAN
    OBVIOUS
  <2> HIDE DEF missed
  <2>3. err' \in [Actor -> BOOLEAN]
    BY <2>1, <2>2 DEF TypeInv, TypeOK, ProcessesTypeOK
  <2>4. /\ UNCHANGED <<job, cur, quota, cfg, dirty, rdirty>>
        /\ rcopy' = [rcopy EXCEPT ![p] = rules]
        /\ todo' = [todo EXCEPT ![p] = ToRemove(p)] \/ todo' = todo
    BY DEF LockUdev
  <2> QED
    BY <1>1, <1>2, <2>3, <2>4, EmptyTypes DEF TypeInv, TypeOK, ProcessesTypeOK, FilesTypeOK
<1>5. DevicesKnown'
  <2>1. /\ UNCHANGED <<job, cur>> /\ Goto(p, "each") /\ pc[p] = "udev"
        /\ todo' = IF Op(p) = "remove" THEN [todo EXCEPT ![p] = ToRemove(p)] ELSE todo
    BY DEF LockUdev
  <2> QED
    BY <1>1, <1>2, <1>3, <1>4, <2>1, KnownKept
    DEF TypeInv, TypeOK, DevicesKnown, Known, StepsTypeOK, ProcessesTypeOK, Goto, Op, Request
<1>6. FilesTypeOK'
  BY <1>1 DEF LockUdev, TypeInv, TypeOK, FilesTypeOK, fileVars, ruleVars
<1> QED
  BY <1>3, <1>4, <1>5, <1>6, Frame DEF LockUdev, TypeInv, TypeOK

\* Rules are rules after they have been saved and loaded.
LEMMA SavedType ==
  ASSUME NEW rs \in SUBSET Rule
  PROVE  Saved(rs) \in SUBSET Rule
<1>1. \A r \in rs : [r EXCEPT !.name = BaseName[r.name]] \in Rule
  BY DevicesAssumption DEF Rule
<1> QED
  BY <1>1 DEF Saved

\* ToDisk keeps the types.
LEMMA TruncateRulesType ==
  ASSUME TypeInv, NEW a \in Actor, TruncateRules(a)
  PROVE  TypeInv'
<1>1. Cid(a) \in Container
  BY CidType
<1>2. StepsTypeOK'
  BY GotoType DEF TruncateRules, CommandStep, HookStep
<1>3. ProcessesTypeOK'
  BY DEF TruncateRules, TypeInv, TypeOK, ProcessesTypeOK
<1>4. DevicesKnown'
  BY <1>1, KnownKept DEF TruncateRules, TypeInv, TypeOK, DevicesKnown, Known,
     StepsTypeOK, ProcessesTypeOK, Goto
<1>5. FilesTypeOK'
  BY SavedType
  DEF TruncateRules, TypeInv, TypeOK, FilesTypeOK, ProcessesTypeOK, fileVars, lockVars
<1> QED
  BY <1>2, <1>3, <1>4, <1>5, Frame DEF TruncateRules, TypeInv, TypeOK

\* The Unlock of the rules keeps the types.
LEMMA UnlockUdevType ==
  ASSUME TypeInv, NEW a \in Actor, UnlockUdev(a)
  PROVE  TypeInv'
<1>1. Cid(a) \in Container
  BY CidType
<1>2. StepsTypeOK'
  BY GotoType, ActorsAssumption DEF UnlockUdev, AfterRules, CommandStep, HookStep, Actor
<1>3. ProcessesTypeOK'
  BY DEF UnlockUdev, TypeInv, TypeOK, ProcessesTypeOK
<1>4. DevicesKnown'
  BY <1>1, KnownKept DEF UnlockUdev, TypeInv, TypeOK, DevicesKnown, Known,
     StepsTypeOK, ProcessesTypeOK, Goto, AfterRules
<1>5. FilesTypeOK'
  BY DEF UnlockUdev, RulesUnlocked, TypeInv, TypeOK, FilesTypeOK, fileVars
<1> QED
  BY <1>2, <1>3, <1>4, <1>5, Frame DEF UnlockUdev, TypeInv, TypeOK

\* Flush keeps the types.
LEMMA TruncateConfigType ==
  ASSUME TypeInv, NEW a \in Actor, TruncateConfig(a)
  PROVE  TypeInv'
<1>1. Cid(a) \in Container
  BY CidType
<1>2. StepsTypeOK'
  BY GotoType DEF TruncateConfig, CommandStep, HookStep
<1>3. ProcessesTypeOK'
  BY DEF TruncateConfig, TypeInv, TypeOK, ProcessesTypeOK
<1>4. DevicesKnown'
  BY <1>1, KnownKept DEF TruncateConfig, TypeInv, TypeOK, DevicesKnown, Known,
     StepsTypeOK, ProcessesTypeOK, Goto
<1>5. FilesTypeOK'
  BY <1>1
  DEF TruncateConfig, TypeInv, TypeOK, FilesTypeOK, ProcessesTypeOK, ruleVars, lockVars
<1> QED
  BY <1>2, <1>3, <1>4, <1>5, Frame DEF TruncateConfig, TypeInv, TypeOK

\* The Unlock of the container keeps the types.
LEMMA UnlockConfigType ==
  ASSUME TypeInv, NEW a \in Actor, UnlockConfig(a)
  PROVE  TypeInv'
<1>1. Cid(a) \in Container
  BY CidType
<1>2. StepsTypeOK'
  BY GotoType DEF UnlockConfig, CommandStep, HookStep
<1>3. ProcessesTypeOK'
  BY ForgetType DEF UnlockConfig, TypeInv, TypeOK, ProcessesTypeOK
<1>4. DevicesKnown'
  BY <1>1, KnownKept DEF UnlockConfig, TypeInv, TypeOK, DevicesKnown, Known,
     StepsTypeOK, ProcessesTypeOK, Goto, Forget
<1>5. FilesTypeOK'
  BY <1>1 DEF UnlockConfig, Unlocked, TypeInv, TypeOK, FilesTypeOK, ruleVars
<1> QED
  BY <1>2, <1>3, <1>4, <1>5, Frame DEF UnlockConfig, TypeInv, TypeOK

\* prepareHookData keeps the types.
LEMMA ReadConfigType ==
  ASSUME TypeInv, NEW c \in Container, ReadConfig(c)
  PROVE  TypeInv'
<1>1. c \in Actor /\ Cid(c) \in Container
  BY CidType DEF Actor
<1>2. StepsTypeOK'
  BY HookGoto DEF ReadConfig, HookStep
<1>3. ProcessesTypeOK'
  BY <1>1 DEF ReadConfig, TypeInv, TypeOK, ProcessesTypeOK, FilesTypeOK
<1>4. DevicesKnown'
  BY <1>1, KnownKept, ActorsAssumption DEF ReadConfig, TypeInv, TypeOK, DevicesKnown, Known,
     StepsTypeOK, ProcessesTypeOK, Goto
<1> QED
  BY <1>2, <1>3, <1>4, Frame DEF ReadConfig, TypeInv, TypeOK

\* A hook that fails before the devices keeps the types.
LEMMA PrepareFailsType ==
  ASSUME TypeInv, NEW c \in Container, PrepareFails(c)
  PROVE  TypeInv'
<1>1. c \in Actor /\ Cid(c) \in Container
  BY CidType DEF Actor
<1>2. StepsTypeOK'
  BY HookGoto DEF PrepareFails, HookStep
<1>3. ProcessesTypeOK'
  BY <1>1, FailType DEF PrepareFails, TypeInv, TypeOK, ProcessesTypeOK
<1>4. DevicesKnown'
  BY <1>1, KnownKept DEF PrepareFails, TypeInv, TypeOK, DevicesKnown, Known,
     StepsTypeOK, ProcessesTypeOK, Goto
<1>5. EnvironmentTypeOK'
  BY FaultType DEF PrepareFails, TypeInv, TypeOK, EnvironmentTypeOK, Fault
<1> QED
  BY <1>2, <1>3, <1>4, <1>5, Frame DEF PrepareFails, TypeInv, TypeOK

\* Locking and loading the rules in a hook keeps the types.
LEMMA HookLockUdevType ==
  ASSUME TypeInv, NEW c \in Container, HookLockUdev(c)
  PROVE  TypeInv'
<1>1. c \in Actor /\ Cid(c) \in Container
  BY CidType DEF Actor
<1>2. StepsTypeOK'
  BY HookGoto DEF HookLockUdev, HookStep
<1>3. ProcessesTypeOK'
  BY <1>1, EmptyTypes, ConfigTypes DEF HookLockUdev, TypeInv, TypeOK, ProcessesTypeOK, FilesTypeOK
<1>4. DevicesKnown'
  BY <1>1, ConfigTypes, KnownKept DEF HookLockUdev, TypeInv, TypeOK, DevicesKnown, Known,
     StepsTypeOK, ProcessesTypeOK, Goto
<1>5. FilesTypeOK'
  BY <1>1 DEF HookLockUdev, TypeInv, TypeOK, FilesTypeOK, fileVars, ruleVars
<1> QED
  BY <1>2, <1>3, <1>4, <1>5, Frame DEF HookLockUdev, TypeInv, TypeOK

\* Bringing a device back keeps the types (AddDevices).
LEMMA InstallType ==
  ASSUME TypeInv, NEW c \in Container, NEW d \in todo[c], Install(c, d)
  PROVE  TypeInv'
<1>1. c \in Actor /\ Cid(c) \in Container
  BY CidType DEF Actor
<1>2. d \in Mapping /\ RuleOf(d, c) \in Rule /\ hostNum[d.host] \in Nat
       /\ Renumbered(cfg[c], d, hostNum[d.host]) \in Config /\ d.path \in DevPath
  BY <1>1, ConfigTypes, RuleType
  DEF Install, TypeInv, TypeOK, DevicesKnown, Known, ProcessesTypeOK, EnvironmentTypeOK, Mapping
<1>3. StepsTypeOK'
  BY Frame DEF Install
<1>4. ProcessesTypeOK'
  BY <1>1, <1>2, TakeType, RulesType, DirtiedType DEF Install, TypeInv, TypeOK, ProcessesTypeOK
<1>5. DevicesKnown'
  BY <1>1, <1>2, KnownKept DEF Install, TypeInv, TypeOK, DevicesKnown, Known,
     StepsTypeOK, ProcessesTypeOK, Goto, Take
<1>6. ContainersTypeOK'
  <2>1. nodes' \in [Container -> [DevPath -> Nat]]
    BY <1>2, NodeType DEF Install, Forced
  <2>2. allowed' \in [Container -> SUBSET Nat]
    BY <1>2 DEF Install, TypeInv, TypeOK, ContainersTypeOK
  <2>3. left' \in [Container -> Leftover]
    BY LeftoverFields, LeftoverTypes DEF Install
  <2> QED
    BY <2>1, <2>2, <2>3 DEF Install, TypeInv, TypeOK, ContainersTypeOK
<1> QED
  BY <1>2, <1>3, <1>4, <1>5, <1>6, Frame DEF Install, TypeInv, TypeOK

\* A device that cannot be brought back keeps the types.
LEMMA InstallFailsType ==
  ASSUME TypeInv, NEW c \in Container, NEW d \in todo[c], InstallFails(c, d)
  PROVE  TypeInv'
<1>1. c \in Actor /\ Cid(c) \in Container
  BY CidType DEF Actor
<1>2. d \in Mapping /\ RuleOf(d, c) \in Rule
  BY <1>1, ConfigTypes, RuleType
  DEF InstallFails, TypeInv, TypeOK, DevicesKnown, Known, ProcessesTypeOK, EnvironmentTypeOK, Mapping
<1>3. StepsTypeOK'
  BY HookGoto DEF InstallFails, HookStep
<1>4. ProcessesTypeOK'
  BY <1>1, <1>2, TakeType, RulesType, FailType DEF InstallFails, TypeInv, TypeOK, ProcessesTypeOK
<1>5. DevicesKnown'
  BY <1>1, <1>2, KnownKept DEF InstallFails, TypeInv, TypeOK, DevicesKnown, Known,
     StepsTypeOK, ProcessesTypeOK, Goto, Take
<1>6. EnvironmentTypeOK'
  BY FaultType DEF InstallFails, TypeInv, TypeOK, EnvironmentTypeOK, Fault
<1> QED
  BY <1>2, <1>3, <1>4, <1>5, <1>6, Frame DEF InstallFails, TypeInv, TypeOK

\* Removing a rule of a stopped container keeps the types (RemoveUdevRule).
LEMMA WithdrawRuleType ==
  ASSUME TypeInv, NEW c \in Container, NEW d \in todo[c], WithdrawRule(c, d)
  PROVE  TypeInv'
<1>1. c \in Actor /\ Cid(c) \in Container
  BY CidType DEF Actor
<1>2. d \in Mapping /\ RuleOf(d, c) \in Rule
  BY <1>1, ConfigTypes, RuleType
  DEF WithdrawRule, TypeInv, TypeOK, DevicesKnown, Known, ProcessesTypeOK, EnvironmentTypeOK, Mapping
<1>3. StepsTypeOK'
  BY Frame DEF WithdrawRule
<1>4. ProcessesTypeOK'
  BY <1>1, <1>2, TakeType, RulesType DEF WithdrawRule, TypeInv, TypeOK, ProcessesTypeOK
<1>5. DevicesKnown'
  BY <1>1, <1>2, KnownKept DEF WithdrawRule, TypeInv, TypeOK, DevicesKnown, Known,
     StepsTypeOK, ProcessesTypeOK, Goto, Take
<1> QED
  BY <1>2, <1>3, <1>4, <1>5, Frame DEF WithdrawRule, TypeInv, TypeOK

\* A rule that cannot be removed keeps the types.
LEMMA WithdrawFailsType ==
  ASSUME TypeInv, NEW c \in Container, NEW d \in todo[c], WithdrawFails(c, d)
  PROVE  TypeInv'
<1>1. c \in Actor /\ Cid(c) \in Container
  BY CidType DEF Actor
<1>2. d \in Mapping /\ RuleOf(d, c) \in Rule
  BY <1>1, ConfigTypes, RuleType
  DEF WithdrawFails, TypeInv, TypeOK, DevicesKnown, Known, ProcessesTypeOK, EnvironmentTypeOK, Mapping
<1>3. StepsTypeOK'
  BY HookGoto DEF WithdrawFails, HookStep
<1>4. ProcessesTypeOK'
  BY <1>1, <1>2, TakeType DEF WithdrawFails, TypeInv, TypeOK, ProcessesTypeOK
<1>5. DevicesKnown'
  BY <1>1, <1>2, KnownKept DEF WithdrawFails, TypeInv, TypeOK, DevicesKnown, Known,
     StepsTypeOK, ProcessesTypeOK, Goto, Take
<1>6. EnvironmentTypeOK'
  BY FaultType DEF WithdrawFails, TypeInv, TypeOK, EnvironmentTypeOK, Fault
<1> QED
  BY <1>2, <1>3, <1>4, <1>5, <1>6, Frame DEF WithdrawFails, TypeInv, TypeOK

\* The end of the loop over the devices keeps the types.
LEMMA HookDevicesDoneType ==
  ASSUME TypeInv, NEW c \in Container, HookDevicesDone(c)
  PROVE  TypeInv'
<1>1. c \in Actor /\ Cid(c) \in Container
  BY CidType DEF Actor
<1>2. StepsTypeOK'
  BY HookGoto DEF HookDevicesDone, HookStep
<1>3. ProcessesTypeOK'
  BY DEF HookDevicesDone, TypeInv, TypeOK, ProcessesTypeOK
<1>4. DevicesKnown'
  BY <1>1, KnownKept DEF HookDevicesDone, TypeInv, TypeOK, DevicesKnown, Known,
     StepsTypeOK, ProcessesTypeOK, Goto
<1> QED
  BY <1>2, <1>3, <1>4, Frame DEF HookDevicesDone, TypeInv, TypeOK

\* UpdateQos keeps the types.
LEMMA HookLimitsType ==
  ASSUME TypeInv, NEW c \in Container, HookLimits(c)
  PROVE  TypeInv'
<1>1. c \in Actor /\ Cid(c) \in Container
  BY CidType DEF Actor
<1>2. LimitsRenumbered(cfg[c], hostNum) \in Config
     /\ LimitsRenumbered(cfg[c], hostNum).qos \subseteq Qos
  BY <1>1, ConfigTypes DEF TypeInv, TypeOK, ProcessesTypeOK, EnvironmentTypeOK
<1>3. StepsTypeOK'
  BY HookGoto DEF HookLimits, HookStep
<1>4. ProcessesTypeOK'
  BY <1>1, <1>2, DirtiedType DEF HookLimits, TypeInv, TypeOK, ProcessesTypeOK
<1>5. DevicesKnown'
  BY <1>1, KnownKept DEF HookLimits, TypeInv, TypeOK, DevicesKnown, Known,
     StepsTypeOK, ProcessesTypeOK, Goto
<1>6. ContainersTypeOK'
  <2>1. blkio' \in [Container -> SUBSET [num: Nat, val: Value]]
    BY <1>1, <1>2 DEF HookLimits, TypeInv, TypeOK, ContainersTypeOK, Throttle, Qos
  <2>2. left' \in [Container -> Leftover]
    BY LeftoverFields, LeftoverTypes DEF HookLimits
  <2> QED
    BY <2>1, <2>2 DEF HookLimits, TypeInv, TypeOK, ContainersTypeOK
<1> QED
  BY <1>2, <1>3, <1>4, <1>5, <1>6, Frame DEF HookLimits, TypeInv, TypeOK

\* An UpdateQos that fails keeps the types.
LEMMA HookLimitsFailType ==
  ASSUME TypeInv, NEW c \in Container, HookLimitsFail(c)
  PROVE  TypeInv'
<1>1. c \in Actor /\ Cid(c) \in Container
  BY CidType DEF Actor
<1>2. StepsTypeOK'
  BY HookGoto DEF HookLimitsFail, HookStep
<1>3. ProcessesTypeOK'
  BY <1>1, FailType DEF HookLimitsFail, TypeInv, TypeOK, ProcessesTypeOK
<1>4. DevicesKnown'
  BY <1>1, KnownKept DEF HookLimitsFail, TypeInv, TypeOK, DevicesKnown, Known,
     StepsTypeOK, ProcessesTypeOK, Goto
<1>5. EnvironmentTypeOK'
  BY FaultType DEF HookLimitsFail, TypeInv, TypeOK, EnvironmentTypeOK, Fault
<1> QED
  BY <1>2, <1>3, <1>4, <1>5, Frame DEF HookLimitsFail, TypeInv, TypeOK

\* updateHookData taking the container lock keeps the types.
LEMMA HookLockType ==
  ASSUME TypeInv, NEW c \in Container, HookLock(c)
  PROVE  TypeInv'
<1>1. c \in Actor /\ Cid(c) \in Container
  BY CidType DEF Actor
<1>2. StepsTypeOK'
  BY HookGoto DEF HookLock, HookStep
<1>3. ProcessesTypeOK'
  BY DEF HookLock, TypeInv, TypeOK, ProcessesTypeOK
<1>4. DevicesKnown'
  BY <1>1, KnownKept DEF HookLock, TypeInv, TypeOK, DevicesKnown, Known,
     StepsTypeOK, ProcessesTypeOK, Goto
<1>5. FilesTypeOK'
  BY <1>1 DEF HookLock, TypeInv, TypeOK, FilesTypeOK, fileVars, ruleVars
<1> QED
  BY <1>2, <1>3, <1>4, <1>5, Frame DEF HookLock, TypeInv, TypeOK

\* Taking down a container whose start has failed keeps the types.
LEMMA AbortStartType ==
  ASSUME TypeInv, NEW c \in Container, AbortStart(c)
  PROVE  TypeInv'
<1>1. c \in Actor /\ Cid(c) \in Container
  BY CidType DEF Actor
<1>2. StepsTypeOK'
  BY HookGoto DEF AbortStart, HookStep
<1>3. ProcessesTypeOK'
  BY <1>1, ForgetType DEF AbortStart, TypeInv, TypeOK, ProcessesTypeOK
<1>4. DevicesKnown'
  BY <1>1, KnownKept DEF AbortStart, TypeInv, TypeOK, DevicesKnown, Known,
     StepsTypeOK, ProcessesTypeOK, Goto, Forget
<1>5. ContainersTypeOK'
  <2>1. left' \in [Container -> Leftover]
    BY LeftoverFields, LeftoverTypes DEF AbortStart
  <2> QED
    BY <2>1, DevicesAssumption DEF AbortStart, TypeInv, TypeOK, ContainersTypeOK
<1> QED
  BY <1>2, <1>3, <1>4, <1>5, Frame DEF AbortStart, TypeInv, TypeOK

\* The return of a hook keeps the types.
LEMMA HookReturnsType ==
  ASSUME TypeInv, NEW c \in Container, HookReturns(c)
  PROVE  TypeInv'
<1>1. c \in Actor /\ Cid(c) \in Container
  BY CidType DEF Actor
<1>2. StepsTypeOK'
  BY HookGoto DEF HookReturns, HookStep
<1>3. ProcessesTypeOK'
  BY <1>1, ForgetType DEF HookReturns, TypeInv, TypeOK, ProcessesTypeOK
<1>4. DevicesKnown'
  BY <1>1, KnownKept DEF HookReturns, TypeInv, TypeOK, DevicesKnown, Known,
     StepsTypeOK, ProcessesTypeOK, Goto, Forget
<1>5. ContainersTypeOK'
  BY <1>1 DEF HookReturns, TypeInv, TypeOK, ContainersTypeOK
<1> QED
  BY <1>2, <1>3, <1>4, <1>5, Frame DEF HookReturns, TypeInv, TypeOK

\* The start of a container keeps the types.
LEMMA StartContainerType ==
  ASSUME TypeInv, NEW c \in Container, StartContainer(c)
  PROVE  TypeInv'
<1>1. c \in Actor /\ Cid(c) \in Container
  BY CidType DEF Actor
<1>2. StepsTypeOK'
  BY HookGoto DEF StartContainer, HookStep
<1>3. ProcessesTypeOK'
  BY <1>1 DEF StartContainer, TypeInv, TypeOK, ProcessesTypeOK
<1>4. DevicesKnown'
  BY <1>1, KnownKept DEF StartContainer, TypeInv, TypeOK, DevicesKnown, Known,
     StepsTypeOK, ProcessesTypeOK, Goto
<1>5. ContainersTypeOK'
  <2>1. left' \in [Container -> Leftover]
    BY LeftoverFields, LeftoverTypes DEF StartContainer
  <2> QED
    BY <2>1, DevicesAssumption DEF StartContainer, TypeInv, TypeOK, ContainersTypeOK
<1> QED
  BY <1>2, <1>3, <1>4, <1>5, Frame DEF StartContainer, TypeInv, TypeOK

\* The exit of a container keeps the types.
LEMMA StopContainerType ==
  ASSUME TypeInv, NEW c \in Container, StopContainer(c)
  PROVE  TypeInv'
<1>1. c \in Actor /\ Cid(c) \in Container
  BY CidType DEF Actor
<1>2. StepsTypeOK'
  BY HookGoto DEF StopContainer, HookStep
<1>3. ProcessesTypeOK'
  BY DEF StopContainer, TypeInv, TypeOK, ProcessesTypeOK
<1>4. DevicesKnown'
  BY <1>1, KnownKept DEF StopContainer, TypeInv, TypeOK, DevicesKnown, Known,
     StepsTypeOK, ProcessesTypeOK, Goto
<1>5. ContainersTypeOK'
  <2>1. left' \in [Container -> Leftover]
    BY LeftoverFields, LeftoverTypes DEF StopContainer
  <2> QED
    BY <2>1, DevicesAssumption DEF StopContainer, TypeInv, TypeOK, ContainersTypeOK
<1> QED
  BY <1>2, <1>3, <1>4, <1>5, Frame DEF StopContainer, TypeInv, TypeOK

\* A process that is killed keeps the types.
LEMMA CrashType ==
  ASSUME TypeInv, NEW a \in Actor, Crash(a)
  PROVE  TypeInv'
<1>1. StepsTypeOK'
  BY GotoType, ActorsAssumption DEF Crash, CommandStep, HookStep, Actor
<1>2. ProcessesTypeOK'
  BY ForgetType, FailType DEF Crash, TypeInv, TypeOK, ProcessesTypeOK
<1>3. DevicesKnown'
  BY KnownKept DEF Crash, TypeInv, TypeOK, DevicesKnown, Known,
     StepsTypeOK, ProcessesTypeOK, Goto, Forget
<1>4. FilesTypeOK'
  BY DEF Crash, LocksReleased, TypeInv, TypeOK, FilesTypeOK, fileVars, ruleVars
<1>5. EnvironmentTypeOK'
  BY DEF Crash, TypeInv, TypeOK, EnvironmentTypeOK
<1> QED
  BY <1>1, <1>2, <1>3, <1>4, <1>5, Frame DEF Crash, TypeInv, TypeOK

\* A device that comes or goes keeps the types.
LEMMA PlugType ==
  ASSUME TypeInv, NEW h \in HostDev, NEW n \in Numbers \cup {0}, Plug(h, n)
  PROVE  TypeInv'
<1>1. EnvironmentTypeOK'
  BY DevicesAssumption DEF Plug, TypeInv, TypeOK, EnvironmentTypeOK
<1>2. ProcessesTypeOK' /\ DevicesKnown' /\ StepsTypeOK'
  BY DEF Plug, procVars, TypeInv, TypeOK, ProcessesTypeOK, DevicesKnown, Known, StepsTypeOK
<1> QED
  BY <1>1, <1>2, Frame DEF Plug, TypeInv, TypeOK

\* So does a step that changes nothing.
LEMMA StutterType ==
  ASSUME TypeInv, UNCHANGED vars
  PROVE  TypeInv'
<1>1. ProcessesTypeOK' /\ DevicesKnown'
  BY DEF vars, procVars, TypeInv, TypeOK, ProcessesTypeOK, DevicesKnown, Known
<1> QED
  BY <1>1, Frame DEF vars, procVars, TypeInv, TypeOK

\* Every step of a command keeps the types.
LEMMA CommandNextType ==
  ASSUME TypeInv, NEW p \in Command, CommandNext(p)
  PROVE  TypeInv'
<1>1. p \in Actor
  BY DEF Actor
<1>2. CASE ResolvePaths(p) \/ Inspect(p) \/ LockAndLoad(p) \/ LockUdev(p) \/ EachDone(p)
  BY <1>2, ResolvePathsType, InspectType, LockAndLoadType, LockUdevType, EachDoneType
<1>3. CASE AddStep(p)
  BY <1>3, RefuseConflictType, RefuseUnknownType, RecordDeviceType, MknodType, MknodFailsType,
     AllowType, AllowFailsType DEF AddStep
<1>4. CASE RemoveStep(p)
  BY <1>4, UnrecordType, UnlinkType, UnlinkFailsType, DenyType, DenyFailsType,
     ClearLimitsType, ClearFailsType DEF RemoveStep
<1>5. CASE LimitStep(p)
  BY <1>5, SetLimitType, SetLimitFailsType, LimitsDoneType DEF LimitStep
<1>6. CASE WriteStep(p)
  BY <1>1, <1>6, TruncateRulesType, UnlockUdevType, TruncateConfigType, UnlockConfigType
  DEF WriteStep
<1> QED
  BY <1>2, <1>3, <1>4, <1>5, <1>6 DEF CommandNext

\* Every step of a hook keeps the types.
LEMMA HookNextType ==
  ASSUME TypeInv, NEW c \in Container, HookNext(c)
  PROVE  TypeInv'
<1>1. c \in Actor
  BY DEF Actor
<1>2. CASE ReadConfig(c) \/ PrepareFails(c) \/ HookLockUdev(c) \/ HookDevicesDone(c)
  BY <1>2, ReadConfigType, PrepareFailsType, HookLockUdevType, HookDevicesDoneType
<1>3. CASE \E d \in todo[c] : \/ Install(c, d) \/ InstallFails(c, d)
                              \/ WithdrawRule(c, d) \/ WithdrawFails(c, d)
  BY <1>3, InstallType, InstallFailsType, WithdrawRuleType, WithdrawFailsType
<1>4. CASE HookLimits(c) \/ HookLimitsFail(c) \/ HookLock(c) \/ AbortStart(c) \/ HookReturns(c)
  BY <1>4, HookLimitsType, HookLimitsFailType, HookLockType, AbortStartType, HookReturnsType
<1>5. CASE WriteStep(c)
  BY <1>1, <1>5, TruncateRulesType, UnlockUdevType, TruncateConfigType, UnlockConfigType
  DEF WriteStep
<1> QED
  BY <1>2, <1>3, <1>4, <1>5 DEF HookNext

\* TypeInv is inductive.
LEMMA TypeKept ==
  ASSUME TypeInv, [Next]_vars
  PROVE  TypeInv'
<1>1. CASE UNCHANGED vars
  BY <1>1, StutterType
<1>2. CASE \E p \in Command : CommandNext(p)
  BY <1>2, CommandNextType
<1>3. CASE \E c \in Container : HookNext(c)
  BY <1>3, HookNextType
<1>4. CASE Environment
  BY <1>4, BeginType, StartContainerType, StopContainerType, CrashType, PlugType DEF Environment
<1> QED
  BY <1>1, <1>2, <1>3, <1>4 DEF Next

\* Every variable keeps its type, whatever commands, hooks and the environment
\* do: in particular every device that is put into a configuration, a rule or a
\* container has both its names and is on the host (setDevicesPath).
THEOREM TypeCorrect == Spec => []TypeOK
<1>1. TypeInv => TypeOK
  BY DEF TypeInv
<1> QED
  BY InitType, TypeKept, <1>1, PTL DEF Spec

-----------------------------------------------------------------------------
(***************************************************************************)
(* A step is the step of one process, and leaves the others what they have *)
(***************************************************************************)
StepOf(a) ==
  \/ a \in Command /\ (CommandNext(a) \/ \E r \in Requests : Begin(a, r))
  \/ a \in Container /\ (HookNext(a) \/ StartContainer(a) \/ StopContainer(a))
  \/ Crash(a)

\* Process b is where it was and has what it had.
Kept(b) ==
  /\ pc'[b] = pc[b] /\ todo'[b] = todo[b] /\ cur'[b] = cur[b] /\ cfg'[b] = cfg[b]
  /\ dirty'[b] = dirty[b] /\ rcopy'[b] = rcopy[b] /\ rdirty'[b] = rdirty[b]
  /\ err'[b] = err[b]
  /\ b \in Command => job'[b] = job[b] /\ quota'[b] = quota[b]

\* Commands and hooks are different processes.
LEMMA ActorTypes ==
  /\ \A p \in Command : p \in Actor /\ p \notin Container
  /\ \A c \in Container : c \in Actor /\ c \notin Command
  BY ActorsAssumption DEF Actor

\* Only Plug is nobody's step.
LEMMA NextIsStep ==
  ASSUME Next
  PROVE  (\E a \in Actor : StepOf(a)) \/ \E h \in HostDev, n \in Numbers \cup {0} : Plug(h, n)
  BY ActorTypes DEF Next, Environment, StepOf

LEMMA StepIsNext ==
  ASSUME NEW a \in Actor, StepOf(a)
  PROVE  Next
  BY ActorTypes DEF Next, Environment, StepOf

\* Every step changes the memory of one process at most.
OneMoves(a) ==
  /\ pc' = pc \/ \E l : Goto(a, l)
  /\ todo' = todo \/ \E x : todo' = [todo EXCEPT ![a] = x]
  /\ cur' = cur \/ \E x : cur' = [cur EXCEPT ![a] = x]
  /\ cfg' = cfg \/ \E x : cfg' = [cfg EXCEPT ![a] = x]
  /\ dirty' = dirty \/ \E x : dirty' = [dirty EXCEPT ![a] = x]
  /\ rcopy' = rcopy \/ \E x : rcopy' = [rcopy EXCEPT ![a] = x]
  /\ rdirty' = rdirty \/ \E x : rdirty' = [rdirty EXCEPT ![a] = x]
  /\ err' = err \/ \E x : err' = [err EXCEPT ![a] = x]
  /\ job' = job \/ (a \in Command /\ \E x : job' = [job EXCEPT ![a] = x])
  /\ quota' = quota \/ (a \in Command /\ \E x : quota' = [quota EXCEPT ![a] = x])

LEMMA WriteMoves ==
  ASSUME NEW a \in Actor, WriteStep(a)
  PROVE  OneMoves(a)
  BY DEF WriteStep, TruncateRules, UnlockUdev, TruncateConfig, UnlockConfig, Forget, OneMoves

LEMMA CommandMoves ==
  ASSUME NEW p \in Command, CommandNext(p)
  PROVE  OneMoves(p)
<1>1. CASE ResolvePaths(p) \/ Inspect(p) \/ LockAndLoad(p) \/ LockUdev(p) \/ EachDone(p)
  BY <1>1 DEF ResolvePaths, Inspect, LockAndLoad, LockUdev, EachDone, GiveUp, Forget, Fail,
     OneMoves, lockVars
<1>2. CASE AddStep(p)
  BY <1>2 DEF AddStep, RefuseConflict, RefuseUnknown, RecordDevice, Mknod, MknodFails, Allow,
     AllowFails, RollBack, Take, Record, AddRule, RemoveRule, KeepRules, Fail, Goto, OneMoves
<1>3. CASE RemoveStep(p)
  BY <1>3 DEF RemoveStep, Unrecord, Unlink, UnlinkFails, Deny, DenyFails, ClearLimits,
     ClearFails, Take, Record, AddRule, RemoveRule, KeepRules, Dirtied, Fail, Goto, OneMoves
<1>4. CASE LimitStep(p)
  BY <1>4 DEF LimitStep, SetLimit, SetLimitFails, LimitsDone, Dirtied, Fail, OneMoves
<1>5. CASE WriteStep(p)
  BY <1>5, WriteMoves, ActorTypes
<1> QED
  BY <1>1, <1>2, <1>3, <1>4, <1>5 DEF CommandNext

LEMMA HookMoves ==
  ASSUME NEW c \in Container, HookNext(c) \/ StartContainer(c) \/ StopContainer(c)
  PROVE  OneMoves(c)
<1>1. CASE ReadConfig(c) \/ PrepareFails(c) \/ HookLockUdev(c) \/ HookDevicesDone(c) \/ HookLock(c)
  BY <1>1 DEF ReadConfig, PrepareFails, HookLockUdev, HookDevicesDone, HookLock, Fail, OneMoves
<1>2. CASE \E d \in todo[c] : \/ Install(c, d) \/ InstallFails(c, d)
                              \/ WithdrawRule(c, d) \/ WithdrawFails(c, d)
  BY <1>2 DEF Install, InstallFails, WithdrawRule, WithdrawFails, Take, AddRule, RemoveRule,
     KeepRules, Dirtied, Fail, Goto, OneMoves
<1>3. CASE HookLimits(c) \/ HookLimitsFail(c)
  BY <1>3 DEF HookLimits, HookLimitsFail, Dirtied, Fail, OneMoves
<1>4. CASE AbortStart(c) \/ HookReturns(c) \/ StartContainer(c) \/ StopContainer(c)
  BY <1>4, ActorTypes DEF AbortStart, HookReturns, StartContainer, StopContainer, Forget, OneMoves
<1>5. CASE WriteStep(c)
  BY <1>5, WriteMoves, ActorTypes
<1> QED
  BY <1>1, <1>2, <1>3, <1>4, <1>5 DEF HookNext

LEMMA StepMoves ==
  ASSUME NEW a \in Actor, StepOf(a)
  PROVE  OneMoves(a)
<1>1. ASSUME a \in Command, NEW r \in Requests, Begin(a, r) PROVE OneMoves(a)
  BY <1>1 DEF Begin, OneMoves
<1>2. CASE Crash(a)
  BY <1>2 DEF Crash, Forget, Fail, OneMoves
<1> QED
  BY <1>1, <1>2, CommandMoves, HookMoves DEF StepOf

LEMMA OthersKept ==
  ASSUME TypeInv, NEW a \in Actor, StepOf(a), NEW b \in Actor \ {a}
  PROVE  Kept(b)
<1>1. OneMoves(a)
  BY StepMoves
<1>2. /\ pc \in [Actor -> CommandStep \cup HookStep] /\ todo \in [Actor -> SUBSET Device]
      /\ cur \in [Actor -> Device] /\ cfg \in [Actor -> Config] /\ dirty \in [Actor -> BOOLEAN]
      /\ rcopy \in [Actor -> SUBSET Rule] /\ rdirty \in [Actor -> BOOLEAN]
      /\ err \in [Actor -> BOOLEAN] /\ job \in [Command -> [req: Request, pid: Nat]]
      /\ quota \in [Command -> SUBSET Qos]
  BY DEF TypeInv, TypeOK, StepsTypeOK, ProcessesTypeOK
<1> QED
  BY <1>1, <1>2 DEF OneMoves, Kept, Goto

=============================================================================

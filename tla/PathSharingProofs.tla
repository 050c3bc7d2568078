--------------------------- MODULE PathSharingProofs ----------------------------
(***************************************************************************)
(* What PathSharing keeps to, for any containers, commands, host paths and *)
(* requests.  First the configuration: the types, that it can always be    *)
(* loaded, and that the commands implement PathStore.                      *)
(*                                                                         *)
(* Then the mounts: in a container where starts, stops and commands have   *)
(* not overlapped, been killed or failed in a hook, the configuration, the *)
(* mounts on the host and the mounts in the container agree, and nothing   *)
(* that a user has shared is ever deleted.                                 *)
(***************************************************************************)
EXTENDS PathSharing, TLAPS

-----------------------------------------------------------------------------
(***************************************************************************)
(* The types                                                               *)
(***************************************************************************)
\* The empty memory of a process that has not started or has ended is well typed.
LEMMA EmptyTypes ==
  /\ NoBind \in Bind
  /\ \A c \in Container : NoJob(c) \in [req: Request, pid: Nat]
<1>1. (CHOOSE h \in HostPath : TRUE) \in HostPath /\ (CHOOSE q \in CtrPath : TRUE) \in CtrPath
  BY PathsAssumption
<1>2. NoBind \in Bind
  BY <1>1, PermsAssumption DEF NoBind, Bind
<1>3. \A c \in Container : NoJob(c) \in [req: Request, pid: Nat]
  BY DEF NoJob, Request
<1> QED
  BY <1>2, <1>3

\* ParseBind makes binds of the arguments.
LEMMA ParsedType ==
  ASSUME NEW r \in Request, NEW b \in r.binds
  PROVE  Parsed(b) \in Bind /\ SameBind(Parsed(b), b)
  BY PermsAssumption DEF Request, Parsed, Bind, SameBind

\* Every process works for a container.
LEMMA CidType ==
  ASSUME ProcessesTypeOK, NEW a \in Actor
  PROVE  Cid(a) \in Container
  BY DEF ProcessesTypeOK, Cid, Actor, Request

\* Commands and hooks are different processes.
LEMMA ActorTypes ==
  /\ \A p \in Command : p \in Actor /\ p \notin Container
  /\ \A c \in Container : c \in Actor /\ c \notin Command
  BY PathActorsAssumption DEF Actor

\* A container that runs at first has its binds mounted.
LEMMA FirstMounts ==
  ASSUME NEW binds \in SUBSET Bind
  PROVE  /\ Mounts(binds) \in [HostPath -> Point]
         /\ Binds(binds) \in [CtrPath -> Seq(Shown)]
<1>1. ASSUME NEW h \in HostPath, \E b \in binds : b.host = h
      PROVE  (CHOOSE b \in binds : b.host = h).perm \in Perm
  <2>1. (CHOOSE b \in binds : b.host = h) \in Bind
    BY <1>1
  <2> QED
    BY <2>1 DEF Bind
<1>2. ASSUME NEW q \in CtrPath, \E b \in binds : b.path = q
      PROVE  Made((CHOOSE b \in binds : b.path = q).host) \in Shown
  <2>1. (CHOOSE b \in binds : b.path = q) \in Bind
    BY <1>2
  <2> QED
    BY <2>1 DEF Bind, Shown, Made
<1>3. Mounts(binds) \in [HostPath -> Point]
  BY <1>1 DEF Mounts, Point
<1>4. \A q \in CtrPath : Binds(binds)[q] \in Seq(Shown)
  BY <1>2 DEF Binds
<1> QED
  BY <1>3, <1>4 DEF Binds

\* At first every variable has its type.
LEMMA InitType == Init => PathTypeOK
<1> SUFFICES ASSUME Init PROVE PathTypeOK
  OBVIOUS
<1> DEFINE up(c) == IF st[c] = "running" THEN file[c] ELSE {}
<1>1. \A c \in Container : file[c] \in SUBSET Bind /\ up(c) \in SUBSET Bind
  BY PathsAssumption DEF Init
<1>2. ContainersTypeOK
  <2>1. /\ file \in [Container -> SUBSET Bind]
        /\ st \in [Container -> {"stopped", "creating", "running", "stopping"}]
        /\ inc \in [Container -> Nat]
    <3>1. /\ file \in [Container -> InitialFile]
          /\ st \in [Container -> InitialState]
          /\ inc = [c \in Container |-> IF st[c] = "running" THEN 1 ELSE 0]
      BY DEF Init
    <3> QED
      BY <3>1, PathsAssumption
  <2> QED
    BY <2>1 DEF Init, ContainersTypeOK
<1>3. MountsTypeOK
  <2>1. \A c \in Container : {b.host : b \in up(c)} \in SUBSET HostPath
    BY <1>1 DEF Bind
  <2>2. /\ mid = [c \in Container |-> Mounts(up(c))]
        /\ master = [c \in Container |-> Mounts(up(c))]
        /\ guest = [c \in Container |-> Binds(up(c))]
        /\ slave = [c \in Container |-> {b.host : b \in up(c)}]
        /\ base = [c \in Container |-> st[c] = "running"]
        /\ lost = {}
    BY DEF Init
  <2> HIDE DEF up
  <2> QED
    BY <1>1, <2>1, <2>2, FirstMounts DEF MountsTypeOK
<1>4. StepsTypeOK
  BY DEF Init, StepsTypeOK, Actor, CommandStep, HookStep
<1>5. ProcessesTypeOK
  BY EmptyTypes, PathActorsAssumption DEF Init, ProcessesTypeOK
<1> QED
  BY <1>2, <1>3, <1>4, <1>5 DEF PathTypeOK

-----------------------------------------------------------------------------
\* What a step leaves alone keeps its type.
LEMMA Frame ==
  ASSUME PathTypeOK
  PROVE  /\ UNCHANGED <<file, flock, ctrVars, disturbed, envVars>> => ContainersTypeOK'
         /\ UNCHANGED mountVars => MountsTypeOK'
         /\ UNCHANGED pc => StepsTypeOK'
         /\ UNCHANGED <<job, memVars, err>> => ProcessesTypeOK'
  BY DEF PathTypeOK, ContainersTypeOK, MountsTypeOK, StepsTypeOK, ProcessesTypeOK,
     ctrVars, envVars, mountVars, memVars

\* Processes move among the steps of their kind.
LEMMA CommandGoto ==
  ASSUME PathTypeOK, NEW p \in Command, NEW l \in CommandStep, Goto(p, l)
  PROVE  StepsTypeOK'
  BY PathActorsAssumption DEF PathTypeOK, StepsTypeOK, Goto, Actor

LEMMA HookGoto ==
  ASSUME PathTypeOK, NEW c \in Container, NEW l \in HookStep, Goto(c, l)
  PROVE  StepsTypeOK'
  BY PathActorsAssumption DEF PathTypeOK, StepsTypeOK, Goto, Actor

\* The loops over the binds take one that is left.
LEMMA TakeType ==
  ASSUME ProcessesTypeOK, NEW a \in Actor, NEW b, Take(a, b)
  PROVE  b \in Bind /\ todo' \in [Actor -> SUBSET Bind]
  BY DEF ProcessesTypeOK, Take

\* A change of the configuration in memory makes it dirty.
LEMMA RecordType ==
  ASSUME ProcessesTypeOK, NEW a \in Actor, NEW binds \in SUBSET Bind, Record(a, binds)
  PROVE  cfg' \in [Actor -> SUBSET Bind] /\ dirty' \in [Actor -> BOOLEAN]
  BY DEF ProcessesTypeOK, Record

\* A process that ends leaves an empty memory.
LEMMA ForgetType ==
  ASSUME ProcessesTypeOK, NEW a \in Actor, Forget(a)
  PROVE  /\ todo' \in [Actor -> SUBSET Bind] /\ cur' \in [Actor -> Bind]
         /\ cfg' \in [Actor -> SUBSET Bind] /\ dirty' \in [Actor -> BOOLEAN]
  BY EmptyTypes DEF ProcessesTypeOK, Forget

\* A failed call is counted, a process that fails is marked.
LEMMA FaultType ==
  ASSUME PathTypeOK, Fault \/ NoFault
  PROVE  faults' \in Nat
  BY DEF PathTypeOK, ContainersTypeOK, Fault, NoFault

LEMMA FailType ==
  ASSUME ProcessesTypeOK, NEW a \in Actor, Fail(a) \/ UNCHANGED err
  PROVE  err' \in [Actor -> BOOLEAN]
  BY DEF ProcessesTypeOK, Fail

\* Busy or not, a container is marked or it is not.
LEMMA DisturbType ==
  ASSUME PathTypeOK, NEW c \in Container, NEW x, Disturb(c, x)
  PROVE  disturbed' \in [Container -> BOOLEAN]
<1> DEFINE y == disturbed[c] \/ x
<1>1. disturbed \in [Container -> BOOLEAN] /\ disturbed' = [disturbed EXCEPT ![c] = y]
  BY DEF PathTypeOK, ContainersTypeOK, Disturb
<1>2. y \in BOOLEAN
  OBVIOUS
<1> HIDE DEF y
<1> QED
  BY <1>1, <1>2

-----------------------------------------------------------------------------
\* A step that moves a process on and touches neither containers nor mounts.
LEMMA OwnStep ==
  ASSUME PathTypeOK, StepsTypeOK', ProcessesTypeOK',
         UNCHANGED <<file, flock, ctrVars, mountVars, disturbed, envVars>>
  PROVE  PathTypeOK'
  BY Frame DEF PathTypeOK

\* container.New and getBinds keep the types.
LEMMA BeginType ==
  ASSUME PathTypeOK, NEW p \in Command, NEW r \in Requests, Begin(p, r)
  PROVE  PathTypeOK'
<1>1. r \in Request /\ p \in Actor /\ r.cid \in Container
  BY PathsAssumption, ActorTypes DEF Request
<1>2. {Parsed(b) : b \in r.binds} \in SUBSET Bind
  BY <1>1, ParsedType
<1>3. (IF st[r.cid] = "running" THEN inc[r.cid] ELSE 0) \in Nat
  BY <1>1 DEF PathTypeOK, ContainersTypeOK
<1>4. ProcessesTypeOK'
  BY <1>1, <1>2, <1>3 DEF Begin, PathTypeOK, ProcessesTypeOK
<1>5. StepsTypeOK'
  BY CommandGoto DEF Begin, CommandStep
<1> QED
  BY <1>4, <1>5, OwnStep DEF Begin

\* Loading the configuration under the lock keeps the types.
LEMMA LockAndLoadType ==
  ASSUME PathTypeOK, NEW p \in Command, LockAndLoad(p)
  PROVE  PathTypeOK'
<1>1. p \in Actor /\ Cid(p) \in Container
  BY ActorTypes, CidType DEF PathTypeOK
<1>2. file[Cid(p)] \in SUBSET Bind
  BY <1>1 DEF PathTypeOK, ContainersTypeOK
<1>3. StepsTypeOK'
  BY CommandGoto DEF LockAndLoad, CommandStep
<1>4. ContainersTypeOK'
  BY <1>1 DEF LockAndLoad, PathTypeOK, ContainersTypeOK, ctrVars, envVars
<1>5. ProcessesTypeOK'
  BY <1>1, <1>2, ForgetType, FailType DEF LockAndLoad, PathTypeOK, ProcessesTypeOK
<1> QED
  BY <1>3, <1>4, <1>5, Frame DEF LockAndLoad, PathTypeOK

\* The loops of AddPath and RemovePath keep the types.
LEMMA EachType ==
  ASSUME PathTypeOK, NEW p \in Command, NEW b \in todo[p],
         RefuseBind(p, b) \/ RecordBind(p, b) \/ NotConfigured(p, b) \/ Unrecord(p, b)
  PROVE  PathTypeOK'
<1>1. p \in Actor /\ Cid(p) \in Container /\ cfg[p] \in SUBSET Bind /\ cur[p] \in Bind
  BY ActorTypes, CidType DEF PathTypeOK, ProcessesTypeOK
<1>2. b \in Bind /\ todo' \in [Actor -> SUBSET Bind]
  BY <1>1, TakeType DEF RefuseBind, RecordBind, NotConfigured, Unrecord, PathTypeOK
<1>3. StepsTypeOK'
  <2>1. UNCHANGED pc \/ \E l \in {"flush", "bind", "mid", "unbind"} : Goto(p, l)
    BY DEF RefuseBind, RecordBind, NotConfigured, Unrecord
  <2> QED
    BY <2>1, Frame, CommandGoto DEF CommandStep
<1>4. cfg' \in [Actor -> SUBSET Bind] /\ dirty' \in [Actor -> BOOLEAN]
  <2>1. cfg[p] \cup {b} \in SUBSET Bind /\ Without(cfg[p], b) \in SUBSET Bind
    BY <1>1, <1>2 DEF Without
  <2> QED
    BY <1>1, <2>1, RecordType
    DEF RefuseBind, RecordBind, NotConfigured, Unrecord, PathTypeOK, ProcessesTypeOK
<1>5. cur' \in [Actor -> Bind]
  <2>1. GetBindInConfig(cfg[p], b) \subseteq Bind
    BY <1>1 DEF GetBindInConfig
  <2> QED
    BY <1>1, <1>2, <2>1
    DEF RefuseBind, RecordBind, NotConfigured, Unrecord, PathTypeOK, ProcessesTypeOK
<1>6. err' \in [Actor -> BOOLEAN]
  BY <1>1, FailType DEF RefuseBind, RecordBind, NotConfigured, Unrecord, PathTypeOK
<1>7. ProcessesTypeOK'
  BY <1>2, <1>4, <1>5, <1>6
  DEF RefuseBind, RecordBind, NotConfigured, Unrecord, PathTypeOK, ProcessesTypeOK
<1> QED
  BY <1>3, <1>7, OwnStep DEF RefuseBind, RecordBind, NotConfigured, Unrecord

\* Unmounting in the container keeps the types, whether it works or not.
LEMMA UnbindType ==
  ASSUME PathTypeOK, NEW p \in Command, RemoveBind(p) \/ RemoveBindFails(p)
  PROVE  PathTypeOK'
<1>1. p \in Actor /\ Cid(p) \in Container /\ cfg[p] \in SUBSET Bind /\ cur[p] \in Bind
  BY ActorTypes, CidType DEF PathTypeOK, ProcessesTypeOK
<1>2. StepsTypeOK'
  <2>1. \E l \in {"unmid", "each"} : Goto(p, l)
    BY DEF RemoveBind, RemoveBindFails
  <2> QED
    BY <2>1, CommandGoto DEF CommandStep
<1>3. CASE RemoveBind(p)
  <2>1. cur[p].path \in CtrPath
    BY <1>1 DEF Bind
  <2>2. guest[Cid(p)][cur[p].path] \in Seq(Shown)
    BY <1>1, <2>1 DEF PathTypeOK, MountsTypeOK
  <2>3. Tail(guest[Cid(p)][cur[p].path]) \in Seq(Shown)
    BY <1>3, <2>2 DEF RemoveBind
  <2>4. MountsTypeOK'
    BY <1>1, <1>3, <2>1, <2>3 DEF RemoveBind, PathTypeOK, MountsTypeOK
  <2> QED
    BY <1>2, <1>3, <2>4, Frame DEF RemoveBind, PathTypeOK
<1>4. CASE RemoveBindFails(p)
  <2>1. cfg[p] \cup {cur[p]} \in SUBSET Bind
    BY <1>1
  <2>2. ProcessesTypeOK'
    BY <1>1, <1>4, <2>1, RecordType, FailType
    DEF RemoveBindFails, RestoreBind, PathTypeOK, ProcessesTypeOK
  <2>3. faults' \in Nat
    BY <1>4, FaultType DEF RemoveBindFails
  <2>4. ContainersTypeOK'
    BY <1>4, <2>3 DEF RemoveBindFails, PathTypeOK, ContainersTypeOK, ctrVars
  <2> QED
    BY <1>2, <1>4, <2>2, <2>4, Frame DEF RemoveBindFails, PathTypeOK
<1> QED
  BY <1>3, <1>4

\* The end of a loop, and Flush, keep the types.
LEMMA FlushType ==
  ASSUME PathTypeOK, NEW p \in Command, EachDone(p) \/ Flush(p)
  PROVE  PathTypeOK'
<1>1. p \in Actor /\ Cid(p) \in Container /\ cfg[p] \in SUBSET Bind
  BY ActorTypes, CidType DEF PathTypeOK, ProcessesTypeOK
<1>2. StepsTypeOK'
  BY CommandGoto DEF EachDone, Flush, CommandStep
<1>3. CASE EachDone(p)
  BY <1>2, <1>3, OwnStep, Frame DEF EachDone
<1>4. CASE Flush(p)
  <2>1. ProcessesTypeOK'
    BY <1>1, <1>4, ForgetType DEF Flush, PathTypeOK, ProcessesTypeOK
  <2>2. ContainersTypeOK'
    BY <1>1, <1>4 DEF Flush, Unlocked, PathTypeOK, ContainersTypeOK, ctrVars, envVars
  <2> QED
    BY <1>2, <1>4, <2>1, <2>2, Frame DEF Flush, PathTypeOK
<1> QED
  BY <1>3, <1>4

-----------------------------------------------------------------------------
\* What a mount point may become is a mount point.
LEMMA PointTypes ==
  ASSUME NEW point \in Point, NEW perm \in Perm
  PROVE  /\ Prepared(point, perm) \in Point
         /\ HalfPrepared(point) \subseteq Point
         /\ Released(point) \in Point
  BY PermsAssumption DEF Prepared, HalfPrepared, Released, Point, Mounted

\* A bind in the container shows a host path or the directory below it.
LEMMA PushType ==
  ASSUME MountsTypeOK, NEW c \in Container, NEW b \in Bind, NEW half \in BOOLEAN,
         PushBind(c, b, half) \/ UNCHANGED guest
  PROVE  guest' \in [Container -> [CtrPath -> Seq(Shown)]]
<1>1. CASE PushBind(c, b, half)
  <2>1. Source(c, b.host, half) \in Shown /\ b.path \in CtrPath
    BY DEF Source, Shown, Bind
  <2>2. guest[c][b.path] \in Seq(Shown)
    BY <2>1 DEF MountsTypeOK
  <2>3. <<Source(c, b.host, half)>> \o guest[c][b.path] \in Seq(Shown)
    BY <2>1, <2>2
  <2> HIDE DEF Source
  <2> QED
    BY <1>1, <2>1, <2>3 DEF PushBind, MountsTypeOK
<1>2. CASE UNCHANGED guest
  BY <1>2 DEF MountsTypeOK
<1> QED
  BY <1>1, <1>2

\* What has reached the container is a set of host paths.
LEMMA PropagateType ==
  ASSUME MountsTypeOK, NEW c \in Container, NEW h \in HostPath, NEW point, Propagate(c, h, point)
  PROVE  slave' \in [Container -> SUBSET HostPath]
  BY DEF MountsTypeOK, Propagate

\* The roll back of AddPath keeps the types.
LEMMA RollBackType ==
  ASSUME PathTypeOK, NEW p \in Command, RollBack(p), UNCHANGED <<job, todo, cur>>
  PROVE  ProcessesTypeOK' /\ StepsTypeOK'
<1>1. p \in Actor /\ Without(cfg[p], cur[p]) \in SUBSET Bind
  BY ActorTypes DEF PathTypeOK, ProcessesTypeOK, Without
<1>2. ProcessesTypeOK'
  BY <1>1, RecordType, FailType DEF RollBack, PathTypeOK, ProcessesTypeOK
<1>3. \E l \in {"unmid", "flush"} : Goto(p, l)
  BY DEF RollBack
<1> QED
  BY <1>2, <1>3, CommandGoto DEF CommandStep

\* Mounts that are made and released keep the types (utils/transfer.go).
LEMMA HostMountType ==
  ASSUME PathTypeOK, NEW a \in Actor,
         PrepareMid(a) \/ PrepareMaster(a) \/ ReleaseMid(a) \/ ReleaseMaster(a)
  PROVE  PathTypeOK'
<1>1. Cid(a) \in Container /\ cur[a].host \in HostPath /\ cur[a].perm \in Perm
  BY CidType DEF PathTypeOK, ProcessesTypeOK, Bind
<1>2. mid[Cid(a)][cur[a].host] \in Point /\ master[Cid(a)][cur[a].host] \in Point
  BY <1>1 DEF PathTypeOK, MountsTypeOK
<1>3. StepsTypeOK'
  <2>1. \E l \in {"master", "bind", "unmaster", "flush", "each"} :
          Goto(a, l) /\ (l = "flush" => a \in Command)
    BY DEF PrepareMid, PrepareMaster, ReleaseMid, ReleaseMaster
  <2> QED
    BY <2>1, CommandGoto, HookGoto DEF Actor, CommandStep, HookStep
<1>4. MountsTypeOK'
  <2>1. CASE PrepareMid(a)
    <3>1. Prepared(mid[Cid(a)][cur[a].host], cur[a].perm) \in Point
      BY <1>1, <1>2, PointTypes
    <3> QED
      BY <1>1, <2>1, <3>1 DEF PrepareMid, PathTypeOK, MountsTypeOK
  <2>2. CASE PrepareMaster(a)
    <3>1. Prepared(master[Cid(a)][cur[a].host], cur[a].perm) \in Point
      BY <1>1, <1>2, PointTypes
    <3>2. slave' \in [Container -> SUBSET HostPath]
      BY <1>1, <2>2, PropagateType DEF PrepareMaster, PathTypeOK
    <3> QED
      BY <1>1, <2>2, <3>1, <3>2 DEF PrepareMaster, PathTypeOK, MountsTypeOK
  <2>3. CASE ReleaseMid(a)
    BY <1>1, <2>3 DEF ReleaseMid, Released, Point, PathTypeOK, MountsTypeOK
  <2>4. CASE ReleaseMaster(a)
    BY <1>1, <2>4 DEF ReleaseMaster, Point, PathTypeOK, MountsTypeOK
  <2> QED
    BY <2>1, <2>2, <2>3, <2>4
<1> QED
  BY <1>3, <1>4, Frame DEF PrepareMid, PrepareMaster, ReleaseMid, ReleaseMaster,
     PathTypeOK, memVars

\* Binding in the container, and mounts that fail, keep the types.
LEMMA BindType ==
  ASSUME PathTypeOK, NEW a \in Actor, AddBind(a) \/ PrepareFails(a) \/ AddBindFails(a)
  PROVE  PathTypeOK'
<1>1. /\ Cid(a) \in Container /\ cur[a] \in Bind
      /\ cur[a].host \in HostPath /\ cur[a].perm \in Perm
  BY CidType DEF PathTypeOK, ProcessesTypeOK, Bind
<1>2. MountsTypeOK'
  <2>1. CASE AddBind(a)
    BY <1>1, <2>1, PushType DEF AddBind, PathTypeOK, MountsTypeOK
  <2>2. CASE AddBindFails(a)
    BY <1>1, <2>2, PushType DEF AddBindFails, PathTypeOK, MountsTypeOK
  <2>3. CASE PrepareFails(a)
    <3>1. /\ HalfPrepared(mid[Cid(a)][cur[a].host]) \subseteq Point
          /\ HalfPrepared(master[Cid(a)][cur[a].host]) \subseteq Point
      BY <1>1, PointTypes DEF PathTypeOK, MountsTypeOK
    <3>2. slave' \in [Container -> SUBSET HostPath]
      BY <1>1, <2>3, PropagateType DEF PrepareFails, PathTypeOK, MountsTypeOK
    <3>3. mid' \in [Container -> [HostPath -> Point]] /\ master' \in [Container -> [HostPath -> Point]]
      <4>1. CASE pc[a] = "mid"
        <5>1. PICK new \in Point : mid' = [mid EXCEPT ![Cid(a)][cur[a].host] = new]
          BY <2>3, <3>1, <4>1 DEF PrepareFails
        <5>2. mid' \in [Container -> [HostPath -> Point]]
          BY <1>1, <5>1 DEF PathTypeOK, MountsTypeOK
        <5> QED
          BY <2>3, <4>1, <5>2 DEF PrepareFails, PathTypeOK, MountsTypeOK
      <4>2. CASE pc[a] = "master"
        <5>1. PICK new \in Point : master' = [master EXCEPT ![Cid(a)][cur[a].host] = new]
          BY <2>3, <3>1, <4>2 DEF PrepareFails
        <5>2. master' \in [Container -> [HostPath -> Point]]
          BY <1>1, <5>1 DEF PathTypeOK, MountsTypeOK
        <5> QED
          BY <2>3, <4>2, <5>2 DEF PrepareFails, PathTypeOK, MountsTypeOK
      <4> QED
        BY <2>3, <4>1, <4>2 DEF PrepareFails
    <3> QED
      BY <2>3, <3>2, <3>3 DEF PrepareFails, PathTypeOK, MountsTypeOK
  <2> QED
    BY <2>1, <2>2, <2>3
<1>3. StepsTypeOK' /\ ProcessesTypeOK'
  <2>1. CASE AddBind(a)
    BY <2>1, Frame, CommandGoto, HookGoto DEF AddBind, Actor, CommandStep, HookStep
  <2>2. CASE a \in Command /\ (PrepareFails(a) \/ AddBindFails(a))
    BY <2>2, RollBackType DEF PrepareFails, AddBindFails
  <2>3. CASE a \in Container /\ (PrepareFails(a) \/ AddBindFails(a))
    <3>1. a \notin Command
      BY <2>3, ActorTypes
    <3>2. /\ \E l \in {"bind", "each"} : Goto(a, l)
          /\ UNCHANGED <<job, memVars, err>>
      BY <2>3, <3>1 DEF PrepareFails, AddBindFails, memVars
    <3> QED
      BY <2>3, <3>2, Frame, HookGoto DEF HookStep
  <2> QED
    BY <2>1, <2>2, <2>3 DEF Actor
<1>4. ContainersTypeOK'
  <2>1. CASE AddBind(a)
    BY <2>1, Frame DEF AddBind
  <2>2. CASE PrepareFails(a) \/ AddBindFails(a)
    <3>1. faults' \in Nat
      BY <2>2, FaultType DEF PrepareFails, AddBindFails
    <3>2. disturbed' \in [Container -> BOOLEAN]
      BY <1>1, <2>2, DisturbType DEF PrepareFails, AddBindFails, PathTypeOK, ContainersTypeOK
    <3> QED
      BY <2>2, <3>1, <3>2 DEF PrepareFails, AddBindFails, PathTypeOK, ContainersTypeOK, ctrVars
  <2> QED
    BY <2>1, <2>2
<1> QED
  BY <1>2, <1>3, <1>4 DEF PathTypeOK

-----------------------------------------------------------------------------
\* A start, a stop and the end of a hook keep the types.
LEMMA LifeType ==
  ASSUME PathTypeOK, NEW c \in Container,
         StartContainer(c) \/ StopContainer(c) \/ AbortStart(c) \/ HookReturns(c)
  PROVE  PathTypeOK'
<1>1. c \in Actor
  BY ActorTypes
<1>2. StepsTypeOK'
  <2>1. \E l \in {"read", "done", "idle"} : Goto(c, l)
    BY DEF StartContainer, StopContainer, AbortStart, HookReturns
  <2> QED
    BY <2>1, HookGoto DEF HookStep
<1>3. MountsTypeOK'
  <2>1. CASE NamespaceGone(c)
    <3>1. [q \in CtrPath |-> <<>>] \in [CtrPath -> Seq(Shown)]
      OBVIOUS
    <3> QED
      BY <2>1, <3>1 DEF NamespaceGone, PathTypeOK, MountsTypeOK
  <2>2. CASE UNCHANGED mountVars
    BY <2>2, Frame
  <2> QED
    BY <2>1, <2>2 DEF StartContainer, StopContainer, AbortStart, HookReturns
<1>4. ProcessesTypeOK'
  BY <1>1, ForgetType
  DEF StartContainer, StopContainer, AbortStart, HookReturns, PathTypeOK, ProcessesTypeOK, memVars
<1>5. disturbed' \in [Container -> BOOLEAN]
  BY DisturbType
  DEF StartContainer, StopContainer, AbortStart, HookReturns, PathTypeOK, ContainersTypeOK
<1>6. ContainersTypeOK'
  BY <1>5 DEF StartContainer, StopContainer, AbortStart, HookReturns, PathTypeOK,
     ContainersTypeOK, envVars
<1> QED
  BY <1>2, <1>3, <1>4, <1>6 DEF PathTypeOK

\* The loops of AddBinds and RemoveSharedPath keep the types.
LEMMA HookType ==
  ASSUME PathTypeOK, NEW c \in Container,
         \/ ReadConfig(c) \/ SharePath(c) \/ HookFails(c) \/ HookBindsDone(c)
         \/ RemoveMidDir(c) \/ RemoveSpecDir(c)
         \/ \E b \in todo[c] : HookBind(c, b) \/ HookSkips(c, b)
  PROVE  PathTypeOK'
<1>1. c \in Actor /\ file[c] \in SUBSET Bind
  BY ActorTypes DEF PathTypeOK, ContainersTypeOK
<1>2. StepsTypeOK'
  <2>1. \/ UNCHANGED pc
        \/ \E l \in {"share", "each", "done", "abort", "mid", "unmid", "rmmid", "rmmaster"} :
              Goto(c, l)
    BY DEF ReadConfig, SharePath, HookFails, HookBindsDone, RemoveMidDir, RemoveSpecDir,
       HookBind, HookSkips
  <2> QED
    BY <2>1, Frame, HookGoto DEF HookStep
<1>3. ProcessesTypeOK'
  <2>1. CASE ReadConfig(c)
    BY <1>1, <2>1 DEF ReadConfig, PathTypeOK, ProcessesTypeOK
  <2>2. CASE \/ SharePath(c) \/ HookBindsDone(c) \/ RemoveMidDir(c) \/ RemoveSpecDir(c)
    BY <2>2, Frame DEF SharePath, HookBindsDone, RemoveMidDir, RemoveSpecDir
  <2>3. CASE HookFails(c)
    BY <1>1, <2>3, FailType DEF HookFails, PathTypeOK, ProcessesTypeOK, memVars
  <2>4. ASSUME NEW b \in todo[c], HookBind(c, b) \/ HookSkips(c, b)
        PROVE  ProcessesTypeOK'
    <3>1. b \in Bind /\ todo' \in [Actor -> SUBSET Bind]
      BY <1>1, <2>4, TakeType DEF HookBind, HookSkips, PathTypeOK
    <3> QED
      BY <1>1, <2>4, <3>1 DEF HookBind, HookSkips, PathTypeOK, ProcessesTypeOK
  <2> QED
    BY <2>1, <2>2, <2>3, <2>4
<1>4. MountsTypeOK'
  <2>1. \A points \in [HostPath -> Point] : RemoveAll(points) \in [HostPath -> Point]
    BY DEF RemoveAll, Point
  <2>2. \A points : DeletedThrough(points) \subseteq HostPath
    BY DEF DeletedThrough
  <2>3. mid[c] \in [HostPath -> Point] /\ master[c] \in [HostPath -> Point]
    BY DEF PathTypeOK, MountsTypeOK
  <2>4. CASE SharePath(c)
    <3>1. MountedBelow(master[c]) \subseteq HostPath
      BY DEF MountedBelow
    <3> QED
      BY <2>4, <3>1 DEF SharePath, PathTypeOK, MountsTypeOK
  <2>5. CASE RemoveMidDir(c) \/ RemoveSpecDir(c)
    BY <2>1, <2>2, <2>3, <2>5 DEF RemoveMidDir, RemoveSpecDir, PathTypeOK, MountsTypeOK
  <2>6. CASE UNCHANGED mountVars
    BY <2>6 DEF PathTypeOK, MountsTypeOK, mountVars
  <2> QED
    BY <2>4, <2>5, <2>6 DEF ReadConfig, HookFails, HookBindsDone, HookBind, HookSkips
<1>5. disturbed' \in [Container -> BOOLEAN]
  BY DisturbType
  DEF ReadConfig, SharePath, HookFails, HookBindsDone, RemoveMidDir, RemoveSpecDir, HookBind,
      HookSkips, PathTypeOK, ContainersTypeOK
<1>6. faults' \in Nat
  BY FaultType
  DEF ReadConfig, SharePath, HookFails, HookBindsDone, RemoveMidDir, RemoveSpecDir, HookBind,
      HookSkips, NoFault, envVars
<1>7. ContainersTypeOK'
  BY <1>5, <1>6
  DEF ReadConfig, SharePath, HookFails, HookBindsDone, RemoveMidDir, RemoveSpecDir, HookBind,
      HookSkips, PathTypeOK, ContainersTypeOK, ctrVars, envVars
<1> QED
  BY <1>2, <1>3, <1>4, <1>7 DEF PathTypeOK

\* A kill keeps the types.
LEMMA CrashType ==
  ASSUME PathTypeOK, NEW a \in Actor, Crash(a)
  PROVE  PathTypeOK'
<1>1. Cid(a) \in Container
  BY CidType DEF PathTypeOK
<1>2. StepsTypeOK'
  BY CommandGoto, HookGoto, ActorTypes DEF Crash, Actor, CommandStep, HookStep
<1>3. ProcessesTypeOK'
  BY ForgetType, FailType DEF Crash, PathTypeOK, ProcessesTypeOK
<1>4. disturbed' \in [Container -> BOOLEAN]
  BY <1>1, DisturbType DEF Crash
<1>5. ContainersTypeOK'
  BY <1>4 DEF Crash, PathTypeOK, ContainersTypeOK, ctrVars
<1> QED
  BY <1>2, <1>3, <1>5, Frame DEF Crash, PathTypeOK

\* Every variable keeps its type: the commands, the hooks, starts, stops and
\* kills work on the values the code works on.
THEOREM PathTypesCorrect == Spec => []PathTypeOK
<1>1. PathTypeOK /\ [Next]_vars => PathTypeOK'
  <2> SUFFICES ASSUME PathTypeOK, [Next]_vars PROVE PathTypeOK'
    OBVIOUS
  <2>1. ASSUME NEW a \in Actor, MountStep(a) PROVE PathTypeOK'
    BY <2>1, HostMountType, BindType DEF MountStep
  <2>2. ASSUME NEW p \in Command, CommandNext(p) PROVE PathTypeOK'
    BY <2>1, <2>2, ActorTypes, LockAndLoadType, EachType, UnbindType, FlushType DEF CommandNext
  <2>3. ASSUME NEW c \in Container, HookNext(c) PROVE PathTypeOK'
    BY <2>1, <2>3, ActorTypes, HookType, LifeType DEF HookNext
  <2>4. ASSUME Environment PROVE PathTypeOK'
    BY <2>4, BeginType, LifeType, CrashType DEF Environment
  <2>5. ASSUME UNCHANGED vars PROVE PathTypeOK'
    BY <2>5, Frame DEF vars, PathTypeOK
  <2> QED
    BY <2>2, <2>3, <2>4, <2>5 DEF Next
<1> QED
  BY <1>1, InitType, PTL DEF Spec


-----------------------------------------------------------------------------
(***************************************************************************)
(* A step of one process leaves the others alone                           *)
(***************************************************************************)
StepOf(a) ==
  \/ a \in Command /\ (CommandNext(a) \/ \E r \in Requests : Begin(a, r))
  \/ a \in Container /\ (HookNext(a) \/ StartContainer(a) \/ StopContainer(a))
  \/ Crash(a)

\* Process x is where it was and knows what it knew.
Kept(x) ==
  /\ pc'[x] = pc[x] /\ todo'[x] = todo[x] /\ cur'[x] = cur[x]
  /\ cfg'[x] = cfg[x] /\ dirty'[x] = dirty[x] /\ err'[x] = err[x]
  /\ x \in Command => job'[x] = job[x]

\* Every step is a step of one process.
LEMMA NextIsStep == Next => \E a \in Actor : StepOf(a)
<1>1. ASSUME NEW p \in Command, CommandNext(p) PROVE \E a \in Actor : StepOf(a)
  BY <1>1, ActorTypes DEF StepOf
<1>2. ASSUME NEW c \in Container, HookNext(c) PROVE \E a \in Actor : StepOf(a)
  BY <1>2, ActorTypes DEF StepOf
<1>3. ASSUME Environment PROVE \E a \in Actor : StepOf(a)
  BY <1>3, ActorTypes DEF StepOf, Environment
<1> QED
  BY <1>1, <1>2, <1>3 DEF Next

\* The parts of a step that concern a process concern the one that makes it.
LEMMA GotoKeeps ==
  ASSUME PathTypeOK, NEW a \in Actor, NEW x \in Actor \ {a},
         UNCHANGED pc \/ \E l : Goto(a, l)
  PROVE  pc'[x] = pc[x]
  BY DEF PathTypeOK, StepsTypeOK, Goto

LEMMA FailKeeps ==
  ASSUME PathTypeOK, NEW a \in Actor, NEW x \in Actor \ {a}, UNCHANGED err \/ Fail(a)
  PROVE  err'[x] = err[x]
  BY DEF PathTypeOK, ProcessesTypeOK, Fail

LEMMA ForgetKeeps ==
  ASSUME PathTypeOK, NEW a \in Actor, NEW x \in Actor \ {a}, Forget(a)
  PROVE  todo'[x] = todo[x] /\ cur'[x] = cur[x] /\ cfg'[x] = cfg[x] /\ dirty'[x] = dirty[x]
  BY DEF PathTypeOK, ProcessesTypeOK, Forget

LEMMA TakeKeeps ==
  ASSUME PathTypeOK, NEW a \in Actor, NEW x \in Actor \ {a}, NEW b, Take(a, b)
  PROVE  todo'[x] = todo[x]
  BY DEF PathTypeOK, ProcessesTypeOK, Take

LEMMA RecordKeeps ==
  ASSUME PathTypeOK, NEW a \in Actor, NEW x \in Actor \ {a}, NEW binds, Record(a, binds)
  PROVE  cfg'[x] = cfg[x] /\ dirty'[x] = dirty[x]
  BY DEF PathTypeOK, ProcessesTypeOK, Record

\* The work on mounts, for commands and hooks.
LEMMA MountStepKeeps ==
  ASSUME PathTypeOK, NEW a \in Actor, NEW x \in Actor \ {a}, MountStep(a)
  PROVE  Kept(x)
<1>1. UNCHANGED pc \/ \E l : Goto(a, l)
  BY DEF MountStep, PrepareMid, PrepareMaster, PrepareFails, AddBind, AddBindFails, ReleaseMid,
     ReleaseMaster, RollBack
<1>2. UNCHANGED err \/ Fail(a)
  BY DEF MountStep, PrepareMid, PrepareMaster, PrepareFails, AddBind, AddBindFails, ReleaseMid,
     ReleaseMaster, RollBack, memVars
<1>3. UNCHANGED <<cfg, dirty>> \/ Record(a, Without(cfg[a], cur[a]))
  BY DEF MountStep, PrepareMid, PrepareMaster, PrepareFails, AddBind, AddBindFails, ReleaseMid,
     ReleaseMaster, RollBack, memVars
<1>4. UNCHANGED <<job, todo, cur>>
  BY DEF MountStep, PrepareMid, PrepareMaster, PrepareFails, AddBind, AddBindFails, ReleaseMid,
     ReleaseMaster, RollBack, memVars
<1> QED
  BY <1>1, <1>2, <1>3, <1>4, GotoKeeps, FailKeeps, RecordKeeps DEF Kept

\* The commands.
LEMMA CommandKeeps ==
  ASSUME PathTypeOK, NEW p \in Command, NEW x \in Actor \ {p}, CommandNext(p)
  PROVE  Kept(x)
<1> p \in Actor
  BY ActorTypes
<1>1. CASE LockAndLoad(p)
  <2>1. (UNCHANGED err \/ Fail(p)) /\ \E l : Goto(p, l)
    BY <1>1 DEF LockAndLoad
  <2>2. CASE Forget(p)
    BY <1>1, <2>1, <2>2, GotoKeeps, FailKeeps, ForgetKeeps DEF LockAndLoad, Kept
  <2>3. CASE cfg' = [cfg EXCEPT ![p] = file[Cid(p)]] /\ UNCHANGED <<todo, cur, dirty>>
    BY <1>1, <2>1, <2>3, GotoKeeps, FailKeeps
    DEF LockAndLoad, Kept, PathTypeOK, ProcessesTypeOK
  <2> QED
    BY <1>1, <2>2, <2>3 DEF LockAndLoad
<1>2. ASSUME NEW b \in todo[p],
             RefuseBind(p, b) \/ RecordBind(p, b) \/ NotConfigured(p, b) \/ Unrecord(p, b)
      PROVE  Kept(x)
  <2>1. UNCHANGED pc \/ \E l : Goto(p, l)
    BY <1>2 DEF RefuseBind, RecordBind, NotConfigured, Unrecord
  <2>2. (UNCHANGED err \/ Fail(p)) /\ Take(p, b) /\ UNCHANGED job
    BY <1>2 DEF RefuseBind, RecordBind, NotConfigured, Unrecord
  <2>3. UNCHANGED <<cfg, dirty>> \/ \E binds : Record(p, binds)
    BY <1>2 DEF RefuseBind, RecordBind, NotConfigured, Unrecord
  <2>4. cur'[x] = cur[x]
    BY <1>2 DEF RefuseBind, RecordBind, NotConfigured, Unrecord, PathTypeOK, ProcessesTypeOK
  <2> QED
    BY <2>1, <2>2, <2>3, <2>4, GotoKeeps, FailKeeps, TakeKeeps, RecordKeeps DEF Kept
<1>3. CASE RemoveBind(p) \/ RemoveBindFails(p)
  <2>1. (UNCHANGED err \/ Fail(p)) /\ UNCHANGED <<job, todo, cur>> /\ \E l : Goto(p, l)
    BY <1>3 DEF RemoveBind, RemoveBindFails, memVars
  <2>2. UNCHANGED <<cfg, dirty>> \/ \E binds : Record(p, binds)
    BY <1>3 DEF RemoveBind, RemoveBindFails, RestoreBind, memVars
  <2> QED
    BY <2>1, <2>2, GotoKeeps, FailKeeps, RecordKeeps DEF Kept
<1>4. CASE EachDone(p)
  BY <1>4, GotoKeeps DEF EachDone, Kept, memVars
<1>5. CASE Flush(p)
  BY <1>5, GotoKeeps, ForgetKeeps DEF Flush, Kept
<1>6. CASE MountStep(p)
  BY <1>6, MountStepKeeps
<1> QED
  BY <1>1, <1>2, <1>3, <1>4, <1>5, <1>6 DEF CommandNext

\* The hooks, starts and stops.
LEMMA HookKeeps ==
  ASSUME PathTypeOK, NEW c \in Container, NEW x \in Actor \ {c},
         HookNext(c) \/ StartContainer(c) \/ StopContainer(c)
  PROVE  Kept(x)
<1> c \in Actor
  BY ActorTypes
<1>1. CASE StartContainer(c)
  BY <1>1, GotoKeeps DEF StartContainer, Kept, memVars, PathTypeOK, ProcessesTypeOK
<1>2. CASE StopContainer(c)
  BY <1>2, GotoKeeps DEF StopContainer, Kept, memVars
<1>3. CASE ReadConfig(c)
  <2>1. UNCHANGED <<job, cur, dirty, err>> /\ \E l : Goto(c, l)
    BY <1>3 DEF ReadConfig
  <2>2. cfg'[x] = cfg[x] /\ todo'[x] = todo[x]
    BY <1>3 DEF ReadConfig, PathTypeOK, ProcessesTypeOK
  <2> QED
    BY <2>1, <2>2, GotoKeeps DEF Kept
<1>4. CASE \/ SharePath(c) \/ HookFails(c) \/ HookBindsDone(c)
           \/ RemoveMidDir(c) \/ RemoveSpecDir(c)
  <2>1. (UNCHANGED err \/ Fail(c)) /\ UNCHANGED <<job, memVars>> /\ \E l : Goto(c, l)
    BY <1>4 DEF SharePath, HookFails, HookBindsDone, RemoveMidDir, RemoveSpecDir
  <2> QED
    BY <2>1, GotoKeeps, FailKeeps DEF Kept, memVars
<1>5. ASSUME NEW b \in todo[c], HookBind(c, b) \/ HookSkips(c, b)
      PROVE  Kept(x)
  <2>1. Take(c, b) /\ UNCHANGED <<job, cfg, dirty, err>> /\ (UNCHANGED pc \/ \E l : Goto(c, l))
    BY <1>5 DEF HookBind, HookSkips
  <2>2. cur'[x] = cur[x]
    BY <1>5 DEF HookBind, HookSkips, PathTypeOK, ProcessesTypeOK
  <2> QED
    BY <2>1, <2>2, GotoKeeps, TakeKeeps DEF Kept
<1>6. CASE AbortStart(c) \/ HookReturns(c)
  <2>1. Forget(c) /\ UNCHANGED <<job, err>> /\ \E l : Goto(c, l)
    BY <1>6 DEF AbortStart, HookReturns
  <2> QED
    BY <2>1, GotoKeeps, ForgetKeeps DEF Kept
<1>7. CASE MountStep(c)
  BY <1>7, MountStepKeeps
<1> QED
  BY <1>1, <1>2, <1>3, <1>4, <1>5, <1>6, <1>7 DEF HookNext

\* All together.
LEMMA OthersKept ==
  ASSUME PathTypeOK, NEW a \in Actor, NEW x \in Actor \ {a}, StepOf(a)
  PROVE  Kept(x)
<1>1. CASE Crash(a)
  BY <1>1, GotoKeeps, FailKeeps, ForgetKeeps DEF Crash, Kept
<1>2. ASSUME NEW r \in Requests, a \in Command, Begin(a, r)
      PROVE  Kept(x)
  BY <1>2, GotoKeeps DEF Begin, Kept, PathTypeOK, ProcessesTypeOK
<1> QED
  BY <1>1, <1>2, CommandKeeps, HookKeeps DEF StepOf

\* Only Flush changes a configuration file.
LEMMA OnlyFlushWrites ==
  ASSUME PathTypeOK, NEW a \in Actor, StepOf(a), ~ (a \in Command /\ Flush(a))
  PROVE  UNCHANGED file
<1>1. CASE a \in Command /\ CommandNext(a)
  BY <1>1 DEF CommandNext, LockAndLoad, RefuseBind, RecordBind, NotConfigured, Unrecord,
     RemoveBind, RemoveBindFails, EachDone, MountStep, PrepareMid, PrepareMaster,
     PrepareFails, AddBind, AddBindFails, ReleaseMid, ReleaseMaster
<1>2. CASE a \in Container /\ HookNext(a)
  BY <1>2 DEF HookNext, ReadConfig, SharePath, HookFails, HookBind, HookSkips, HookBindsDone,
     RemoveMidDir, RemoveSpecDir, AbortStart, HookReturns, MountStep, PrepareMid,
     PrepareMaster, PrepareFails, AddBind, AddBindFails, ReleaseMid, ReleaseMaster
<1> QED
  BY <1>1, <1>2 DEF StepOf, Begin, StartContainer, StopContainer, Crash

\* Nobody takes the container lock from a command (Container.Lock, the flock of
\* .device_hook.lock), and nobody gives it up for another.
LEMMA LockKept ==
  ASSUME PathTypeOK, NEW a \in Actor, StepOf(a),
         NEW p \in Command, p # a, NEW c \in Container, flock[c] = p,
         a \in Command /\ pc[a] = "flush" => flock[Cid(a)] = a
  PROVE  flock'[c] = p
<1>1. p # NoOne /\ flock \in [Container -> Command \cup {NoOne}]
  BY ActorTypes, PathActorsAssumption DEF PathTypeOK, ContainersTypeOK
<1>2. CASE a \in Command /\ LockAndLoad(a)
  BY <1>1, <1>2 DEF LockAndLoad, CanLock
<1>3. CASE a \in Command /\ CommandNext(a) /\ ~ LockAndLoad(a) /\ ~ Flush(a)
  BY <1>3 DEF CommandNext, RefuseBind, RecordBind, NotConfigured, Unrecord,
     RemoveBind, RemoveBindFails, EachDone, MountStep, PrepareMid, PrepareMaster,
     PrepareFails, AddBind, AddBindFails, ReleaseMid, ReleaseMaster
<1>4. CASE a \in Container /\ HookNext(a)
  BY <1>4 DEF HookNext, ReadConfig, SharePath, HookFails, HookBind, HookSkips, HookBindsDone,
     RemoveMidDir, RemoveSpecDir, AbortStart, HookReturns, MountStep, PrepareMid,
     PrepareMaster, PrepareFails, AddBind, AddBindFails, ReleaseMid, ReleaseMaster
<1>5. CASE Crash(a)
  BY <1>1, <1>5 DEF Crash
<1>6. CASE a \in Command /\ Flush(a)
  BY <1>1, <1>6 DEF Flush, Unlocked
<1> QED
  BY <1>2, <1>3, <1>4, <1>5, <1>6 DEF StepOf, Begin, StartContainer, StopContainer

-----------------------------------------------------------------------------
(***************************************************************************)
(* The configurations can always be loaded                                 *)
(***************************************************************************)
\* bindsInfo accepts every part of what it has accepted, and a bind it does not
\* refuse.
LEMMA PartLoads ==
  ASSUME NEW binds, Loadable(binds), NEW part \in SUBSET binds
  PROVE  Loadable(part)
  BY DEF Loadable

LEMMA AcceptedLoads ==
  ASSUME NEW binds, Loadable(binds), NEW b, ~ Refused(binds, b)
  PROVE  Loadable(binds \cup {b})
  BY DEF Loadable, Refused

\* While remove-path unmounts, putting the bind back must be possible.
LoadInv ==
  /\ FilesLoad
  /\ \A p \in Command : pc[p] = "unbind" => Loadable(cfg[p] \cup {cur[p]})

\* What a step must show when only process a has changed.
LEMMA LoadStep ==
  ASSUME PathTypeOK, LoadInv, NEW a \in Actor, StepOf(a),
         Loadable(cfg'[a]), \A c \in Container : Loadable(file'[c]),
         a \in Command /\ pc'[a] = "unbind" => Loadable(cfg'[a] \cup {cur'[a]})
  PROVE  LoadInv'
<1>1. \A x \in Actor : x # a =>
        cfg'[x] = cfg[x] /\ pc'[x] = pc[x] /\ cur'[x] = cur[x]
  BY OthersKept DEF Kept
<1>2. \A x \in Actor : Loadable(cfg[x])
  BY DEF LoadInv, FilesLoad
<1>3. FilesLoad'
  BY <1>1, <1>2 DEF FilesLoad
<1>4. ASSUME NEW p \in Command, pc'[p] = "unbind"
      PROVE  Loadable(cfg'[p] \cup {cur'[p]})
  BY <1>1, <1>4, ActorTypes DEF LoadInv
<1> QED
  BY <1>3, <1>4 DEF LoadInv

\* The commands keep it.
LEMMA CommandLoads ==
  ASSUME PathTypeOK, LoadInv, NEW p \in Command, CommandNext(p)
  PROVE  LoadInv'
<1>1. p \in Actor /\ Cid(p) \in Container /\ StepOf(p)
  BY ActorTypes, CidType DEF PathTypeOK, StepOf
<1>2. Loadable(cfg[p]) /\ Loadable(file[Cid(p)]) /\ Loadable({})
  BY <1>1 DEF LoadInv, FilesLoad, Loadable
<1>3. \A binds \in {cfg[p]} : \A b : Without(binds, b) \subseteq binds
  BY DEF Without
<1>4. pc \in [Actor -> CommandStep \cup HookStep] /\ cfg \in [Actor -> SUBSET Bind]
      /\ cur \in [Actor -> Bind]
  BY DEF PathTypeOK, StepsTypeOK, ProcessesTypeOK
<1>5. CASE ~ Flush(p)
  <2>1. \A c \in Container : Loadable(file'[c])
    BY <1>1, <1>5, OnlyFlushWrites DEF LoadInv, FilesLoad
  <2>2. Loadable(cfg'[p]) /\ (pc'[p] = "unbind" => Loadable(cfg'[p] \cup {cur'[p]}))
    <3>1. CASE LockAndLoad(p)
      BY <1>1, <1>2, <1>4, <3>1 DEF LockAndLoad, Goto, Forget
    <3>2. ASSUME NEW b \in todo[p], RefuseBind(p, b) \/ NotConfigured(p, b)
          PROVE  Loadable(cfg'[p]) /\ (pc'[p] = "unbind" => Loadable(cfg'[p] \cup {cur'[p]}))
      BY <1>1, <1>2, <1>4, <3>2 DEF RefuseBind, NotConfigured, Goto
    <3>3. ASSUME NEW b \in todo[p], RecordBind(p, b)
          PROVE  Loadable(cfg'[p]) /\ (pc'[p] = "unbind" => Loadable(cfg'[p] \cup {cur'[p]}))
      <4>1. Loadable(cfg[p] \cup {b})
        BY <1>2, <3>3, AcceptedLoads DEF RecordBind
      <4>2. pc'[p] # "unbind"
        BY <1>1, <1>4, <3>3 DEF RecordBind, Goto
      <4> QED
        BY <1>1, <1>4, <3>3, <4>1, <4>2 DEF RecordBind, Record
    <3>4. ASSUME NEW b \in todo[p], Unrecord(p, b)
          PROVE  Loadable(cfg'[p]) /\ (pc'[p] = "unbind" => Loadable(cfg'[p] \cup {cur'[p]}))
      <4>1. cfg'[p] = Without(cfg[p], b)
        BY <1>1, <1>4, <3>4 DEF Unrecord, Record
      <4>2. pc'[p] = "unbind" => cur'[p] \in cfg[p]
        BY <1>1, <1>4, <3>4 DEF Unrecord, Goto, GetBindInConfig
      <4>3. cfg'[p] \in SUBSET cfg[p]
        BY <1>3, <4>1
      <4>4. pc'[p] = "unbind" => cfg'[p] \cup {cur'[p]} \in SUBSET cfg[p]
        BY <4>2, <4>3
      <4> HIDE DEF Unrecord
      <4> QED
        BY <1>2, <4>3, <4>4, PartLoads
    <3>5. CASE RemoveBind(p) \/ EachDone(p)
      BY <1>1, <1>2, <1>4, <3>5 DEF RemoveBind, EachDone, Goto, memVars
    <3>6. CASE RemoveBindFails(p)
      <4>1. cfg'[p] = cfg[p] \cup {cur[p]} /\ pc'[p] = "each"
        BY <1>1, <1>4, <3>6 DEF RemoveBindFails, RestoreBind, Record, Goto
      <4> QED
        BY <3>6, <4>1 DEF RemoveBindFails, LoadInv
    <3>7. CASE MountStep(p)
      <4>1. pc'[p] # "unbind"
        BY <1>1, <1>4, <3>7 DEF MountStep, PrepareMid, PrepareMaster, PrepareFails, AddBind,
           AddBindFails, ReleaseMid, ReleaseMaster, RollBack, Goto
      <4>2. UNCHANGED cfg \/ Record(p, Without(cfg[p], cur[p]))
        BY <3>7 DEF MountStep, PrepareMid, PrepareMaster, PrepareFails, AddBind,
           AddBindFails, ReleaseMid, ReleaseMaster, RollBack, memVars
      <4>3. cfg'[p] = cfg[p] \/ cfg'[p] = Without(cfg[p], cur[p])
        BY <1>1, <1>4, <4>2 DEF Record
      <4> QED
        BY <1>2, <1>3, <4>1, <4>3, PartLoads
    <3> QED
      BY <1>5, <3>1, <3>2, <3>3, <3>4, <3>5, <3>6, <3>7 DEF CommandNext
  <2> QED
    BY <1>1, <2>1, <2>2, LoadStep
<1>6. CASE Flush(p)
  <2>1. \A c \in Container : file'[c] = file[c] \/ file'[c] = cfg[p]
    BY <1>1, <1>6 DEF Flush, PathTypeOK, ContainersTypeOK
  <2>2. cfg'[p] = {} /\ pc'[p] = "done"
    BY <1>1, <1>4, <1>6 DEF Flush, Forget, Goto
  <2>3. \A c \in Container : Loadable(file'[c])
    BY <1>2, <2>1 DEF LoadInv, FilesLoad
  <2>4. Loadable(cfg'[p]) /\ pc'[p] # "unbind"
    BY <1>2, <2>2
  <2> QED
    BY <1>1, <2>3, <2>4, LoadStep
<1> QED
  BY <1>5, <1>6

\* The hooks only load, and whoever is killed or has not begun has nothing.
LEMMA OthersLoad ==
  ASSUME PathTypeOK, LoadInv, NEW a \in Actor, StepOf(a), ~ (a \in Command /\ CommandNext(a))
  PROVE  LoadInv'
<1>1. \A c \in Container : Loadable(file'[c])
  BY OnlyFlushWrites DEF LoadInv, FilesLoad, CommandNext
<1>2. Loadable(cfg[a]) /\ Loadable({})
  BY DEF LoadInv, FilesLoad, Loadable
<1>3. pc \in [Actor -> CommandStep \cup HookStep] /\ cfg \in [Actor -> SUBSET Bind]
  BY DEF PathTypeOK, StepsTypeOK, ProcessesTypeOK
<1>4. Loadable(cfg'[a])
  <2>1. CASE Crash(a)
    BY <1>2, <1>3, <2>1 DEF Crash, Forget
  <2>2. CASE a \in Command /\ \E r \in Requests : Begin(a, r)
    BY <1>2, <2>2 DEF Begin
  <2>3. CASE a \in Container /\ (StartContainer(a) \/ StopContainer(a))
    BY <1>2, <2>3 DEF StartContainer, StopContainer, memVars
  <2>4. CASE a \in Container /\ ReadConfig(a)
    BY <1>2, <1>3, <2>4 DEF ReadConfig
  <2>5. CASE a \in Container /\ (AbortStart(a) \/ HookReturns(a))
    BY <1>2, <1>3, <2>5 DEF AbortStart, HookReturns, Forget
  <2>6. CASE /\ a \in Container
             /\ \/ SharePath(a) \/ HookFails(a) \/ HookBindsDone(a)
                \/ RemoveMidDir(a) \/ RemoveSpecDir(a)
                \/ \E b \in todo[a] : HookBind(a, b) \/ HookSkips(a, b)
    BY <1>2, <2>6
    DEF SharePath, HookFails, HookBindsDone, RemoveMidDir, RemoveSpecDir, HookBind, HookSkips, memVars
  <2>7. CASE a \in Container /\ MountStep(a)
    <3>1. a \notin Command
      BY <2>7, ActorTypes
    <3>2. UNCHANGED cfg
      BY <2>7, <3>1 DEF MountStep, PrepareMid, PrepareMaster, PrepareFails, AddBind,
         AddBindFails, ReleaseMid, ReleaseMaster, memVars
    <3> QED
      BY <1>2, <3>2
  <2> QED
    BY <2>1, <2>2, <2>3, <2>4, <2>5, <2>6, <2>7 DEF StepOf, HookNext
<1>5. a \in Command => pc'[a] # "unbind"
  BY <1>3, ActorTypes DEF StepOf, Begin, Crash, Goto
<1> QED
  BY <1>1, <1>4, <1>5, LoadStep

\* LoadInv always holds.
LEMMA AlwaysLoadInv == Spec => []LoadInv
<1>1. Init => LoadInv
  <2> SUFFICES ASSUME Init PROVE LoadInv
    OBVIOUS
  <2>1. \A c \in Container : Loadable(file[c])
    BY PathsAssumption DEF Init
  <2>2. \A a \in Actor : cfg[a] = {} /\ pc[a] = "idle"
    BY DEF Init
  <2>3. Loadable({})
    BY DEF Loadable
  <2> QED
    BY <2>1, <2>2, <2>3, ActorTypes DEF LoadInv, FilesLoad
<1>2. PathTypeOK /\ LoadInv /\ [Next]_vars => LoadInv'
  <2>1. ASSUME PathTypeOK, LoadInv, Next PROVE LoadInv'
    <3>1. PICK a \in Actor : StepOf(a)
      BY <2>1, NextIsStep
    <3> QED
      BY <2>1, <3>1, CommandLoads, OthersLoad
  <2>2. ASSUME LoadInv, UNCHANGED vars PROVE LoadInv'
    BY <2>2 DEF LoadInv, FilesLoad, vars, memVars
  <2> QED
    BY <2>1, <2>2
<1> QED
  BY <1>1, <1>2, PathTypesCorrect, PTL DEF Spec

\* The configuration on disk, and any process's copy of it, is one that
\* LoadContainerHookConfig accepts: no sequence of additions, removals, roll
\* backs and kills makes a file that later commands and starts refuse.
THEOREM FilesAlwaysLoad == Spec => []FilesLoad
<1>1. LoadInv => FilesLoad
  BY DEF LoadInv
<1> QED
  BY <1>1, AlwaysLoadInv, PTL

-----------------------------------------------------------------------------
(***************************************************************************)
(* The commands take effect at once                                        *)
(*                                                                         *)
(* A command has its effect when it flushes.  Until then the file is as it *)
(* was when the command took the lock, and what the command has in memory  *)
(* differs from it by what has been asked for.                             *)
(***************************************************************************)
Working(p) == pc[p] \in {"each", "mid", "master", "bind", "unbind", "unmid", "unmaster", "flush"}

AskedBy(p) == {Parsed(b) : b \in job[p].req.binds}

MeantBy(p, e) == \E b \in job[p].req.binds : SameBind(e, b)

HoldsLock(p) == Working(p) => flock[Cid(p)] = p

Waits(p) == pc[p] = "lock" => todo[p] = AskedBy(p)

\* What has been done, what is left, and what an error excuses.
Adds(p) ==
  Working(p) /\ Op(p) = "add" =>
    /\ file[Cid(p)] \subseteq cfg[p]
    /\ cfg[p] \subseteq file[Cid(p)] \cup AskedBy(p)
    /\ todo[p] \subseteq AskedBy(p)
    /\ ~ err[p] => AskedBy(p) \subseteq cfg[p] \cup todo[p]
    /\ pc[p] = "flush" /\ ~ err[p] => todo[p] = {}
    /\ pc[p] \in {"unmid", "unmaster"} => err[p]
    /\ pc[p] \in {"mid", "master", "bind"} => \A e \in file[Cid(p)] : ~ SameBind(e, cur[p])
    /\ pc[p] # "unbind"

Removes(p) ==
  Working(p) /\ Op(p) = "remove" =>
    /\ cfg[p] \subseteq file[Cid(p)]
    /\ \A e \in file[Cid(p)] \ cfg[p] : MeantBy(p, e)
    /\ todo[p] \subseteq AskedBy(p)
    /\ ~ err[p] => \A e \in cfg[p] : MeantBy(p, e) => \E b \in todo[p] : SameBind(e, b)
    /\ pc[p] = "flush" /\ ~ err[p] => todo[p] = {}
    /\ pc[p] = "unbind" => cur[p] \in file[Cid(p)]
    /\ pc[p] \notin {"mid", "master", "bind"}

Untouched(p) == Working(p) /\ ~ dirty[p] => cfg[p] = file[Cid(p)]

CommandInv(p) == HoldsLock(p) /\ Waits(p) /\ Adds(p) /\ Removes(p) /\ Untouched(p)

StoreInv == \A p \in Command : CommandInv(p)

\* A command works for one container, and the requests know two operations.
LEMMA CommandCid ==
  ASSUME PathTypeOK, NEW p \in Command
  PROVE  /\ p \in Actor /\ Cid(p) = job[p].req.cid /\ Cid(p) \in Container
         /\ Op(p) \in {"add", "remove"}
  BY ActorTypes, CidType DEF PathTypeOK, ProcessesTypeOK, Cid, Op, Request

\* A command keeps its invariant in the steps of others.
LEMMA OthersStoreInv ==
  ASSUME PathTypeOK, PathTypeOK', StoreInv, NEW a \in Actor, StepOf(a),
         NEW p \in Command, p # a
  PROVE  CommandInv(p)'
<1>1. Kept(p)
  BY OthersKept, CommandCid
<1>2. Cid(p)' = Cid(p) /\ Op(p)' = Op(p) /\ AskedBy(p)' = AskedBy(p)
      /\ \A e : MeantBy(p, e)' = MeantBy(p, e)
  BY <1>1, ActorTypes DEF Kept, Cid, Op, AskedBy, MeantBy
<1>3. HoldsLock(p)'
  <2>1. a \in Command /\ pc[a] = "flush" => flock[Cid(a)] = a
    BY DEF StoreInv, CommandInv, HoldsLock, Working
  <2> QED
    BY <1>1, <1>2, <2>1, LockKept, CommandCid DEF Kept, StoreInv, CommandInv, HoldsLock, Working
<1>4. Working(p) => file'[Cid(p)] = file[Cid(p)]
  <2>1. CASE a \in Command /\ Flush(a) /\ Working(p)
    <3>1. Cid(a) # Cid(p)
      BY <2>1 DEF StoreInv, CommandInv, HoldsLock, Working, Flush
    <3> QED
      BY <2>1, <3>1, CommandCid DEF Flush, PathTypeOK, ContainersTypeOK
  <2> QED
    BY <2>1, OnlyFlushWrites
<1>5. CommandInv(p)
  BY DEF StoreInv
<1>6. Waits(p)'
  BY <1>1, <1>2, <1>5 DEF Kept, CommandInv, Waits
<1>7. Adds(p)'
  BY <1>1, <1>2, <1>4, <1>5 DEF Kept, CommandInv, Adds, Working
<1>8. Removes(p)'
  BY <1>1, <1>2, <1>4, <1>5 DEF Kept, CommandInv, Removes, Working
<1>9. Untouched(p)'
  BY <1>1, <1>2, <1>4, <1>5 DEF Kept, CommandInv, Untouched, Working
<1> QED
  BY <1>3, <1>6, <1>7, <1>8, <1>9 DEF CommandInv

\* The request of a command does not change while it works.
LEMMA SameRequest ==
  ASSUME NEW p \in Command, UNCHANGED job
  PROVE  /\ Cid(p)' = Cid(p) /\ Op(p)' = Op(p) /\ AskedBy(p)' = AskedBy(p)
         /\ \A e : MeantBy(p, e)' = MeantBy(p, e)
  BY ActorTypes DEF Cid, Op, AskedBy, MeantBy

\* What is asked for is what ParseBind makes of the arguments.
LEMMA AskedMeant ==
  ASSUME PathTypeOK, NEW p \in Command
  PROVE  /\ \A b \in AskedBy(p) : \A e : SameBind(e, b) => MeantBy(p, e)
         /\ \A e : MeantBy(p, e) => \E b \in AskedBy(p) : SameBind(e, b)
<1>1. \A b \in [host: HostPath, path: CtrPath, perm: Perm \cup {NoPerm}] :
        Parsed(b).host = b.host /\ Parsed(b).path = b.path
  BY DEF Parsed
<1>2. job[p].req.binds \subseteq [host: HostPath, path: CtrPath, perm: Perm \cup {NoPerm}]
  BY DEF PathTypeOK, ProcessesTypeOK, Request
<1> QED
  BY <1>1, <1>2 DEF AskedBy, MeantBy, SameBind

\* Getting ready establishes it.
LEMMA BeginStoreInv ==
  ASSUME PathTypeOK, StoreInv, NEW p \in Command,
         LockAndLoad(p) \/ \E r \in Requests : Begin(p, r)
  PROVE  CommandInv(p)'
<1>1. p \in Actor /\ Cid(p) \in Container
  BY CommandCid
<1>2. /\ pc \in [Actor -> CommandStep \cup HookStep] /\ cfg \in [Actor -> SUBSET Bind]
      /\ todo \in [Actor -> SUBSET Bind] /\ job \in [Command -> [req: Request, pid: Nat]]
      /\ flock \in [Container -> Command \cup {NoOne}]
  BY DEF PathTypeOK, StepsTypeOK, ProcessesTypeOK, ContainersTypeOK
<1>3. ASSUME NEW r \in Requests, Begin(p, r) PROVE CommandInv(p)'
  <2>1. pc'[p] = "lock" /\ job'[p].req = r /\ todo'[p] = {Parsed(b) : b \in r.binds}
    BY <1>1, <1>2, <1>3 DEF Begin, Goto
  <2> QED
    BY <2>1 DEF CommandInv, HoldsLock, Waits, Adds, Removes, Untouched, Working, AskedBy
<1>4. CASE LockAndLoad(p)
  <2>1. UNCHANGED <<job, file>>
    BY <1>4 DEF LockAndLoad
  <2>2. CASE pc'[p] = "done"
    BY <2>2 DEF CommandInv, HoldsLock, Waits, Adds, Removes, Untouched, Working
  <2>3. CASE pc'[p] # "done"
    <3>1. /\ flock' = [flock EXCEPT ![Cid(p)] = p]
          /\ cfg' = [cfg EXCEPT ![p] = file[Cid(p)]]
          /\ Goto(p, "each")
          /\ UNCHANGED todo
      BY <1>1, <1>2, <1>4, <2>3 DEF LockAndLoad, Goto
    <3>2. /\ flock'[Cid(p)] = p /\ cfg'[p] = file[Cid(p)] /\ pc'[p] = "each"
          /\ todo'[p] = AskedBy(p)
      BY <1>1, <1>2, <1>4, <3>1 DEF Goto, LockAndLoad, StoreInv, CommandInv, Waits
    <3>3. HoldsLock(p)' /\ Waits(p)' /\ Untouched(p)'
      BY <2>1, <3>2, SameRequest DEF HoldsLock, Waits, Untouched
    <3>4. Adds(p)'
      BY <2>1, <3>2, SameRequest DEF Adds
    <3>5. Removes(p)'
      BY <2>1, <3>2, SameRequest, AskedMeant DEF Removes
    <3> QED
      BY <3>3, <3>4, <3>5 DEF CommandInv
  <2> QED
    BY <2>2, <2>3
<1> QED
  BY <1>3, <1>4

\* The loop of AddPath keeps it.
LEMMA AddStoreInv ==
  ASSUME PathTypeOK, StoreInv, NEW p \in Command, NEW b \in todo[p],
         RefuseBind(p, b) \/ RecordBind(p, b)
  PROVE  CommandInv(p)'
<1>1. /\ p \in Actor /\ Cid(p) \in Container
      /\ pc[p] = "each" /\ Op(p) = "add" /\ UNCHANGED <<job, file, flock>>
      /\ todo'[p] = todo[p] \ {b}
  BY CommandCid DEF RefuseBind, RecordBind, Take, PathTypeOK, ProcessesTypeOK
<1>2. /\ pc \in [Actor -> CommandStep \cup HookStep] /\ cfg \in [Actor -> SUBSET Bind]
      /\ cur \in [Actor -> Bind] /\ dirty \in [Actor -> BOOLEAN] /\ err \in [Actor -> BOOLEAN]
  BY DEF PathTypeOK, StepsTypeOK, ProcessesTypeOK
<1>3. CommandInv(p)
  BY DEF StoreInv
<1>4. /\ Cid(p)' = Cid(p) /\ Op(p)' = "add" /\ AskedBy(p)' = AskedBy(p)
      /\ \A e : MeantBy(p, e)' = MeantBy(p, e)
  BY <1>1, SameRequest
<1>5. /\ file[Cid(p)] \subseteq cfg[p]
      /\ cfg[p] \subseteq file[Cid(p)] \cup AskedBy(p)
      /\ todo[p] \subseteq AskedBy(p)
      /\ ~ err[p] => AskedBy(p) \subseteq cfg[p] \cup todo[p]
      /\ ~ dirty[p] => cfg[p] = file[Cid(p)]
      /\ flock[Cid(p)] = p
  BY <1>1, <1>3 DEF CommandInv, Adds, Untouched, HoldsLock, Working
<1>6. CASE RefuseBind(p, b)
  <2>1. pc'[p] = "flush" /\ err'[p] = TRUE /\ cfg'[p] = cfg[p] /\ dirty'[p] = dirty[p]
    BY <1>1, <1>2, <1>6 DEF RefuseBind, Goto, Fail
  <2> QED
    BY <1>1, <1>4, <1>5, <2>1
    DEF CommandInv, HoldsLock, Waits, Adds, Removes, Untouched, Working
<1>7. CASE RecordBind(p, b)
  <2>1. cfg'[p] = cfg[p] \cup {b} /\ dirty'[p] = TRUE /\ err'[p] = err[p]
    BY <1>1, <1>2, <1>7 DEF RecordBind, Record
  <2>2. \/ pc'[p] = "each"
        \/ pc'[p] \in {"bind", "mid"} /\ cur'[p] = b
    BY <1>1, <1>2, <1>7 DEF RecordBind, Goto
  <2>3. \A e \in file[Cid(p)] : ~ SameBind(e, b)
    BY <1>5, <1>7 DEF RecordBind, Refused, SameBind
  <2>4. Adds(p)'
    BY <1>1, <1>4, <1>5, <2>1, <2>2, <2>3 DEF Adds, SameBind
  <2> QED
    BY <1>1, <1>4, <1>5, <2>1, <2>2, <2>4
    DEF CommandInv, HoldsLock, Waits, Removes, Untouched, Working
<1> QED
  BY <1>6, <1>7

\* The loop of RemovePath keeps it.
LEMMA RemoveStoreInv ==
  ASSUME PathTypeOK, StoreInv, NEW p \in Command, NEW b \in todo[p],
         NotConfigured(p, b) \/ Unrecord(p, b)
  PROVE  CommandInv(p)'
<1>1. /\ p \in Actor /\ Cid(p) \in Container
      /\ pc[p] = "each" /\ Op(p) = "remove" /\ UNCHANGED <<job, file, flock>>
      /\ todo'[p] = todo[p] \ {b}
  BY CommandCid DEF NotConfigured, Unrecord, Take, PathTypeOK, ProcessesTypeOK
<1>2. /\ pc \in [Actor -> CommandStep \cup HookStep] /\ cfg \in [Actor -> SUBSET Bind]
      /\ cur \in [Actor -> Bind] /\ dirty \in [Actor -> BOOLEAN] /\ err \in [Actor -> BOOLEAN]
  BY DEF PathTypeOK, StepsTypeOK, ProcessesTypeOK
<1>3. CommandInv(p)
  BY DEF StoreInv
<1>4. /\ Cid(p)' = Cid(p) /\ Op(p)' = "remove" /\ AskedBy(p)' = AskedBy(p)
      /\ \A e : MeantBy(p, e)' = MeantBy(p, e)
  BY <1>1, SameRequest
<1>5. /\ cfg[p] \subseteq file[Cid(p)]
      /\ \A e \in file[Cid(p)] \ cfg[p] : MeantBy(p, e)
      /\ todo[p] \subseteq AskedBy(p)
      /\ ~ err[p] => \A e \in cfg[p] : MeantBy(p, e) => \E d \in todo[p] : SameBind(e, d)
      /\ ~ dirty[p] => cfg[p] = file[Cid(p)]
      /\ flock[Cid(p)] = p
  BY <1>1, <1>3 DEF CommandInv, Removes, Untouched, HoldsLock, Working
<1>6. CASE NotConfigured(p, b)
  <2>1. pc'[p] = "each" /\ err'[p] = TRUE /\ cfg'[p] = cfg[p] /\ dirty'[p] = dirty[p]
    BY <1>1, <1>2, <1>6 DEF NotConfigured, Fail
  <2> QED
    BY <1>1, <1>4, <1>5, <2>1
    DEF CommandInv, HoldsLock, Waits, Adds, Removes, Untouched, Working
<1>7. CASE Unrecord(p, b)
  <2>1. cfg'[p] = Without(cfg[p], b) /\ dirty'[p] = TRUE /\ err'[p] = err[p]
    BY <1>1, <1>2, <1>7 DEF Unrecord, Record
  <2>2. \/ pc'[p] = "each"
        \/ pc'[p] = "unbind" /\ cur'[p] \in cfg[p]
    BY <1>1, <1>2, <1>7 DEF Unrecord, Goto, GetBindInConfig
  <2>3. \A e \in file[Cid(p)] \ cfg'[p] : MeantBy(p, e)
    BY <1>5, <2>1, AskedMeant DEF Without
  <2>4. ~ err[p] => \A e \in cfg'[p] : MeantBy(p, e) => \E d \in todo'[p] : SameBind(e, d)
    BY <1>1, <1>5, <2>1 DEF Without
  <2>5. cfg'[p] \subseteq file[Cid(p)]
    BY <1>5, <2>1 DEF Without
  <2>6. Removes(p)'
    BY <1>1, <1>4, <1>5, <2>1, <2>2, <2>3, <2>4, <2>5 DEF Removes
  <2> QED
    BY <1>1, <1>4, <1>5, <2>1, <2>2, <2>6
    DEF CommandInv, HoldsLock, Waits, Adds, Untouched, Working
<1> QED
  BY <1>6, <1>7

\* Unmounting in the container keeps it: a bind put back was in the file.
LEMMA UnbindStoreInv ==
  ASSUME PathTypeOK, StoreInv, NEW p \in Command, RemoveBind(p) \/ RemoveBindFails(p)
  PROVE  CommandInv(p)'
<1>1. /\ p \in Actor /\ Cid(p) \in Container
      /\ pc[p] = "unbind" /\ UNCHANGED <<job, file, flock, todo>>
  BY CommandCid DEF RemoveBind, RemoveBindFails, memVars
<1>2. /\ pc \in [Actor -> CommandStep \cup HookStep] /\ cfg \in [Actor -> SUBSET Bind]
      /\ dirty \in [Actor -> BOOLEAN] /\ err \in [Actor -> BOOLEAN]
  BY DEF PathTypeOK, StepsTypeOK, ProcessesTypeOK
<1>3. CommandInv(p)
  BY DEF StoreInv
<1>4. Op(p) = "remove" /\ flock[Cid(p)] = p /\ cur[p] \in file[Cid(p)]
  BY <1>1, <1>3, CommandCid DEF CommandInv, Adds, Removes, HoldsLock, Working
<1>5. /\ Cid(p)' = Cid(p) /\ Op(p)' = "remove" /\ AskedBy(p)' = AskedBy(p)
      /\ \A e : MeantBy(p, e)' = MeantBy(p, e)
  BY <1>1, <1>4, SameRequest
<1>6. CASE RemoveBind(p)
  <2>1. /\ pc'[p] \in {"unmid", "each"}
        /\ cfg'[p] = cfg[p] /\ dirty'[p] = dirty[p] /\ err'[p] = err[p]
    BY <1>1, <1>2, <1>6 DEF RemoveBind, Goto, memVars
  <2> QED
    BY <1>1, <1>3, <1>4, <1>5, <2>1
    DEF CommandInv, HoldsLock, Waits, Adds, Removes, Untouched, Working
<1>7. CASE RemoveBindFails(p)
  <2>1. /\ pc'[p] = "each" /\ err'[p] = TRUE
        /\ cfg'[p] = cfg[p] \cup {cur[p]} /\ dirty'[p] = TRUE
    BY <1>1, <1>2, <1>7 DEF RemoveBindFails, RestoreBind, Record, Fail, Goto
  <2> QED
    BY <1>1, <1>3, <1>4, <1>5, <2>1
    DEF CommandInv, HoldsLock, Waits, Adds, Removes, Untouched, Working
<1> QED
  BY <1>6, <1>7

\* The work on mounts keeps it: a roll back takes away only what was added.
LEMMA MountStoreInv ==
  ASSUME PathTypeOK, StoreInv, NEW p \in Command, MountStep(p)
  PROVE  CommandInv(p)'
<1>1. /\ p \in Actor /\ Cid(p) \in Container /\ Op(p) \in {"add", "remove"}
      /\ UNCHANGED <<job, file, flock, todo, cur>>
  BY CommandCid
  DEF MountStep, PrepareMid, PrepareMaster, PrepareFails, AddBind, AddBindFails, ReleaseMid,
      ReleaseMaster, memVars
<1>2. /\ pc \in [Actor -> CommandStep \cup HookStep] /\ cfg \in [Actor -> SUBSET Bind]
      /\ dirty \in [Actor -> BOOLEAN] /\ err \in [Actor -> BOOLEAN]
  BY DEF PathTypeOK, StepsTypeOK, ProcessesTypeOK
<1>3. CommandInv(p)
  BY DEF StoreInv
<1>4. /\ Cid(p)' = Cid(p) /\ Op(p)' = Op(p) /\ AskedBy(p)' = AskedBy(p)
      /\ \A e : MeantBy(p, e)' = MeantBy(p, e)
  BY <1>1, SameRequest
<1>5. pc[p] \in {"mid", "master", "bind", "unmid", "unmaster"} /\ flock[Cid(p)] = p
  BY <1>3 DEF CommandInv, HoldsLock, Working, MountStep, PrepareMid, PrepareMaster,
     PrepareFails, AddBind, AddBindFails, ReleaseMid, ReleaseMaster
<1>6. CASE RollBack(p) /\ pc[p] \in {"mid", "master", "bind"}
  <2>1. Op(p) = "add"
    BY <1>1, <1>3, <1>6 DEF CommandInv, Removes, Working
  <2>2. /\ cfg'[p] = Without(cfg[p], cur[p]) /\ dirty'[p] = TRUE /\ err'[p] = TRUE
        /\ pc'[p] \in {"unmid", "flush"}
    BY <1>1, <1>2, <1>6 DEF RollBack, Record, Fail, Goto
  <2>3. file[Cid(p)] \subseteq cfg[p] /\ \A e \in file[Cid(p)] : ~ SameBind(e, cur[p])
    BY <1>3, <1>6, <2>1 DEF CommandInv, Adds, Working
  <2>4. file[Cid(p)] \subseteq Without(cfg[p], cur[p]) /\ Without(cfg[p], cur[p]) \subseteq cfg[p]
    BY <2>3 DEF Without
  <2> QED
    BY <1>1, <1>3, <1>4, <1>5, <2>1, <2>2, <2>4
    DEF CommandInv, HoldsLock, Waits, Adds, Removes, Untouched, Working
<1>7. CASE PrepareMid(p) \/ PrepareMaster(p) \/ AddBind(p) \/ ReleaseMid(p) \/ ReleaseMaster(p)
  <2>1. cfg'[p] = cfg[p] /\ dirty'[p] = dirty[p] /\ err'[p] = err[p]
    BY <1>7 DEF PrepareMid, PrepareMaster, AddBind, ReleaseMid, ReleaseMaster, memVars
  <2>2. \/ pc[p] \in {"mid", "master", "bind"} /\ pc'[p] \in {"master", "bind", "each"}
        \/ pc[p] = "unmid" /\ pc'[p] = "unmaster"
        \/ pc[p] = "unmaster" /\ pc'[p] = IF Op(p) = "add" THEN "flush" ELSE "each"
    BY <1>1, <1>2, <1>7 DEF PrepareMid, PrepareMaster, AddBind, ReleaseMid, ReleaseMaster, Goto
  <2>3. Adds(p)'
    BY <1>1, <1>3, <1>4, <2>1, <2>2 DEF CommandInv, Adds, Working
  <2>4. Removes(p)'
    BY <1>1, <1>3, <1>4, <2>1, <2>2 DEF CommandInv, Removes, Working
  <2> QED
    BY <1>1, <1>3, <1>4, <1>5, <2>1, <2>2, <2>3, <2>4
    DEF CommandInv, HoldsLock, Waits, Untouched, Working
<1> QED
  BY <1>6, <1>7 DEF MountStep, PrepareFails, AddBindFails

\* Every step of a command keeps it.
LEMMA OwnStoreInv ==
  ASSUME PathTypeOK, StoreInv, NEW p \in Command, StepOf(p)
  PROVE  CommandInv(p)'
<1>1. p \in Actor /\ p \notin Container
  BY ActorTypes
<1>2. pc \in [Actor -> CommandStep \cup HookStep]
  BY DEF PathTypeOK, StepsTypeOK
<1>3. CASE Flush(p) \/ Crash(p)
  <2>1. pc'[p] = "done"
    BY <1>1, <1>2, <1>3 DEF Flush, Crash, Goto
  <2> QED
    BY <2>1 DEF CommandInv, HoldsLock, Waits, Adds, Removes, Untouched, Working
<1>4. CASE EachDone(p)
  <2>1. pc'[p] = "flush" /\ pc[p] = "each" /\ todo[p] = {}
    BY <1>1, <1>2, <1>4 DEF EachDone, Goto
  <2>2. CommandInv(p) /\ UNCHANGED <<job, file, flock, memVars, err>>
    BY <1>4 DEF EachDone, StoreInv
  <2> QED
    BY <2>1, <2>2, SameRequest
    DEF CommandInv, HoldsLock, Waits, Adds, Removes, Untouched, Working, memVars
<1> QED
  BY <1>1, <1>3, <1>4, BeginStoreInv, AddStoreInv, RemoveStoreInv, UnbindStoreInv, MountStoreInv
  DEF StepOf, CommandNext

\* So every step does.
LEMMA StepStoreInv ==
  ASSUME PathTypeOK, PathTypeOK', StoreInv, NEW a \in Actor, StepOf(a)
  PROVE  StoreInv'
  BY OthersStoreInv, OwnStoreInv DEF StoreInv

-----------------------------------------------------------------------------
\* Flush has the whole effect, and reports what is true (AddPath, RemovePath).
LEMMA FlushApplies ==
  ASSUME PathTypeOK, FilesLoad, StoreInv, NEW p \in Command, Flush(p)
  PROVE  Store!Apply(p)
<1>1. /\ p \in Actor /\ Cid(p) = job[p].req.cid /\ Cid(p) \in Container
      /\ Op(p) \in {"add", "remove"}
  BY CommandCid
<1>2. /\ pc \in [Actor -> CommandStep \cup HookStep] /\ cfg \in [Actor -> SUBSET Bind]
      /\ file \in [Container -> SUBSET Bind] /\ err \in [Actor -> BOOLEAN]
  BY DEF PathTypeOK, StepsTypeOK, ProcessesTypeOK, ContainersTypeOK
<1>3. pc[p] = "flush" /\ pc'[p] = "done" /\ UNCHANGED <<job, err>> /\ CommandInv(p)
  BY <1>1, <1>2 DEF Flush, Goto, StoreInv
<1>4. \A x \in Command : x # p => pc'[x] = pc[x]
  BY <1>1, <1>2, ActorTypes DEF Flush, Goto
<1>5. file' = [file EXCEPT ![Cid(p)] = cfg[p]]
  <2>1. CASE dirty[p]
    BY <2>1 DEF Flush
  <2>2. CASE ~ dirty[p]
    BY <1>2, <1>3, <2>2 DEF Flush, CommandInv, Untouched, Working
  <2> QED
    BY <2>1, <2>2
<1>6. cfg[p] \in SUBSET Bind /\ Store!Loadable(cfg[p])
  BY <1>1, <1>2 DEF FilesLoad, Loadable, Store!Loadable
<1>7. AskedBy(p) = Store!Asked(job[p].req)
      /\ \A e : MeantBy(p, e) <=> Store!Meant(job[p].req, e)
  BY DEF AskedBy, MeantBy, Store!Asked, Store!Meant, Parsed, Store!Parsed, SameBind, Store!SameBind
<1>8. Store!Effect(job[p].req, file[Cid(p)], cfg[p], ~ err[p])
  <2>1. CASE Op(p) = "add"
    BY <1>3, <1>7, <2>1 DEF Op, CommandInv, Adds, Working, Store!Effect
  <2>2. CASE Op(p) = "remove"
    BY <1>3, <1>7, <2>2 DEF Op, CommandInv, Removes, Working, Store!Effect
  <2> QED
    BY <1>1, <2>1, <2>2
<1> DEFINE phase == [x \in Command |-> IF Busy(x) THEN "pending" ELSE pc[x]]
           order == [x \in Command |-> job[x].req]
           ok    == [x \in Command |-> pc[x] = "done" /\ ~ err[x]]
<1>9. phase[p] = "pending" /\ phase' = [phase EXCEPT ![p] = "done"]
  <2>1. \A x \in Command : phase'[x] = IF x = p THEN "done" ELSE phase[x]
    BY <1>3, <1>4 DEF Busy
  <2> QED
    BY <1>3, <2>1 DEF Busy
<1>10. ok' = [ok EXCEPT ![p] = ~ err[p]]
  <2>1. \A x \in Command : ok'[x] = IF x = p THEN ~ err[p] ELSE ok[x]
    BY <1>3, <1>4
  <2> QED
    BY <2>1
<1>11. order' = order
  BY <1>3
<1>12. (~ err[p]) \in BOOLEAN
  OBVIOUS
<1>13. order[p] = job[p].req
  OBVIOUS
<1>14. Bind = Store!Bind
  BY DEF Bind, Store!Bind
<1> HIDE DEF phase, order, ok
<1>15. \E t \in SUBSET Store!Bind, success \in BOOLEAN :
         /\ Store!Loadable(t)
         /\ Store!Effect(order[p], file[order[p].cid], t, success)
         /\ file' = [file EXCEPT ![order[p].cid] = t]
         /\ ok' = [ok EXCEPT ![p] = success]
  BY <1>1, <1>5, <1>6, <1>8, <1>10, <1>12, <1>13, <1>14
<1> QED
  BY <1>9, <1>11, <1>15 DEF Store!Apply, phase, order, ok

\* A command that begins is submitted.
LEMMA BeginSubmits ==
  ASSUME PathTypeOK, NEW p \in Command, NEW r \in Requests, Begin(p, r)
  PROVE  Store!Submit(p)
<1>1. p \in Actor /\ pc \in [Actor -> CommandStep \cup HookStep]
      /\ job \in [Command -> [req: Request, pid: Nat]]
  BY ActorTypes DEF PathTypeOK, StepsTypeOK, ProcessesTypeOK
<1>2. pc[p] = "idle" /\ pc'[p] = "lock" /\ UNCHANGED <<file, err>>
  BY <1>1 DEF Begin, Goto
<1>3. \A x \in Command : x # p => pc'[x] = pc[x] /\ job'[x] = job[x]
  BY <1>1, ActorTypes DEF Begin, Goto
<1>4. job'[p].req = r
  BY <1>1 DEF Begin
<1> DEFINE phase == [x \in Command |-> IF Busy(x) THEN "pending" ELSE pc[x]]
           order == [x \in Command |-> job[x].req]
           ok    == [x \in Command |-> pc[x] = "done" /\ ~ err[x]]
<1>5. phase[p] = "idle" /\ phase' = [phase EXCEPT ![p] = "pending"]
  <2>1. \A x \in Command : phase'[x] = IF x = p THEN "pending" ELSE phase[x]
    BY <1>2, <1>3 DEF Busy
  <2> QED
    BY <1>2, <2>1 DEF Busy
<1>6. order' = [order EXCEPT ![p] = r]
  <2>1. \A x \in Command : order'[x] = IF x = p THEN r ELSE order[x]
    BY <1>3, <1>4
  <2> QED
    BY <2>1
<1>7. ok' = ok
  <2>1. \A x \in Command : ok'[x] = ok[x]
    BY <1>2, <1>3
  <2> QED
    BY <2>1
<1> HIDE DEF phase, order, ok
<1>8. \E s \in Requests \cup {NoJob(CHOOSE c \in Container : TRUE).req} :
         order' = [order EXCEPT ![p] = s]
  BY <1>6
<1> QED
  BY <1>2, <1>5, <1>7, <1>8 DEF Store!Submit, phase, order, ok

\* A command that gives up without the lock, or is killed, has had no effect.
LEMMA GivesUp ==
  ASSUME PathTypeOK, NEW p \in Command, Busy(p), pc'[p] = "done", Fail(p),
         \A x \in Command : x # p => pc'[x] = pc[x], UNCHANGED <<file, job>>
  PROVE  Store!Abandon(p)
<1>1. p \in Actor /\ err \in [Actor -> BOOLEAN] /\ err'[p] = TRUE
      /\ \A x \in Command : x # p => err'[x] = err[x]
  BY ActorTypes DEF PathTypeOK, ProcessesTypeOK, Fail
<1> DEFINE phase == [x \in Command |-> IF Busy(x) THEN "pending" ELSE pc[x]]
           ok    == [x \in Command |-> pc[x] = "done" /\ ~ err[x]]
<1>2. phase[p] = "pending" /\ phase' = [phase EXCEPT ![p] = "done"]
  <2>1. \A x \in Command : phase'[x] = IF x = p THEN "done" ELSE phase[x]
    BY DEF Busy
  <2> QED
    BY <2>1
<1>3. ok' = ok
  <2>1. \A x \in Command : ok'[x] = ok[x]
    BY <1>1 DEF Busy
  <2> QED
    BY <2>1
<1>4. [x \in Command |-> job[x].req]' = [x \in Command |-> job[x].req]
  OBVIOUS
<1> HIDE DEF phase, ok
<1> QED
  BY <1>2, <1>3, <1>4 DEF Store!Abandon, phase, ok

\* Whatever moves no command from outside its work into it, or out of it, is
\* not seen.
LEMMA Unseen ==
  ASSUME UNCHANGED <<file, job>>,
         \A x \in Command : \/ Busy(x) /\ Busy(x)'
                            \/ pc'[x] = pc[x] /\ err'[x] = err[x]
  PROVE  UNCHANGED Store!storeVars
<1> DEFINE phase == [x \in Command |-> IF Busy(x) THEN "pending" ELSE pc[x]]
           ok    == [x \in Command |-> pc[x] = "done" /\ ~ err[x]]
<1>1. phase' = phase
  <2>1. \A x \in Command : phase'[x] = phase[x]
    BY DEF Busy
  <2> QED
    BY <2>1
<1>2. ok' = ok
  <2>1. \A x \in Command : ok'[x] = ok[x]
    BY DEF Busy
  <2> QED
    BY <2>1
<1>3. [x \in Command |-> job[x].req]' = [x \in Command |-> job[x].req]
  OBVIOUS
<1> HIDE DEF phase, ok
<1> QED
  BY <1>1, <1>2, <1>3 DEF Store!storeVars, phase, ok

\* A step of a command between the lock and the flush.
LEMMA CommandStaysBusy ==
  ASSUME PathTypeOK, NEW p \in Command, CommandNext(p), ~ Flush(p)
  PROVE  /\ Busy(p) /\ UNCHANGED <<file, job>>
         /\ Busy(p)' \/ (pc'[p] = "done" /\ Fail(p))
<1>1. p \in Actor /\ p \notin Container /\ pc \in [Actor -> CommandStep \cup HookStep]
  BY ActorTypes DEF PathTypeOK, StepsTypeOK
<1> DEFINE inside == {"each", "mid", "master", "bind", "unbind", "unmid", "unmaster", "flush"}
<1>2. CASE LockAndLoad(p)
  <2>1. pc[p] = "lock" /\ UNCHANGED <<file, job>>
    BY <1>2 DEF LockAndLoad
  <2>2. CASE Goto(p, "each")
    BY <1>1, <2>1, <2>2 DEF Goto, Busy
  <2>3. CASE Goto(p, "done") /\ Fail(p)
    BY <1>1, <2>1, <2>3 DEF Goto, Busy, Fail
  <2> QED
    BY <1>2, <2>2, <2>3 DEF LockAndLoad
<1>3. CASE ~ LockAndLoad(p)
  <2>1. pc[p] \in inside /\ (UNCHANGED pc \/ \E l \in inside : Goto(p, l))
        /\ UNCHANGED <<file, job>>
    <3>1. CASE \E b \in todo[p] : \/ RefuseBind(p, b) \/ RecordBind(p, b)
                                 \/ NotConfigured(p, b) \/ Unrecord(p, b)
      BY <3>1 DEF RefuseBind, RecordBind, NotConfigured, Unrecord
    <3>2. CASE RemoveBind(p) \/ RemoveBindFails(p) \/ EachDone(p)
      BY <3>2 DEF RemoveBind, RemoveBindFails, EachDone
    <3>3. CASE MountStep(p)
      BY <1>1, <3>3 DEF MountStep, PrepareMid, PrepareMaster, PrepareFails, AddBind,
         AddBindFails, ReleaseMid, ReleaseMaster, RollBack
    <3> QED
      BY <1>3, <3>1, <3>2, <3>3 DEF CommandNext
  <2>2. pc'[p] \in inside
    BY <1>1, <2>1 DEF Goto
  <2>3. Busy(p) /\ Busy(p)'
    BY <2>1, <2>2 DEF Busy
  <2> QED
    BY <2>1, <2>3
<1> QED
  BY <1>2, <1>3

\* Every step is a step of PathStore, or is not seen there.
LEMMA StepImplements ==
  ASSUME PathTypeOK, FilesLoad, StoreInv, NEW a \in Actor, StepOf(a)
  PROVE  [Store!StoreNext]_Store!storeVars
<1>1. \A x \in Command : x # a => pc'[x] = pc[x] /\ err'[x] = err[x]
  BY OthersKept, ActorTypes DEF Kept
<1>2. CASE a \in Command /\ CommandNext(a) /\ Flush(a)
  BY <1>2, FlushApplies DEF Store!StoreNext
<1>3. CASE a \in Command /\ CommandNext(a) /\ ~ Flush(a) /\ Busy(a)'
  <2>1. Busy(a) /\ UNCHANGED <<file, job>>
    BY <1>3, CommandStaysBusy
  <2>2. UNCHANGED Store!storeVars
    BY <1>1, <1>3, <2>1, Unseen
  <2> QED
    BY <2>2
<1>4. CASE a \in Command /\ CommandNext(a) /\ ~ Flush(a) /\ ~ Busy(a)'
  <2>1. Busy(a) /\ UNCHANGED <<file, job>> /\ pc'[a] = "done" /\ Fail(a)
    BY <1>4, CommandStaysBusy
  <2> QED
    BY <1>1, <1>4, <2>1, GivesUp DEF Store!StoreNext
<1>5. CASE a \in Command /\ Crash(a)
  <2>1. Busy(a) /\ UNCHANGED <<file, job>> /\ pc'[a] = "done" /\ Fail(a)
    BY <1>5, ActorTypes DEF Crash, Busy, Goto, PathTypeOK, StepsTypeOK
  <2> QED
    BY <1>1, <1>5, <2>1, GivesUp DEF Store!StoreNext
<1>6. ASSUME a \in Command, NEW r \in Requests, Begin(a, r)
      PROVE  Store!StoreNext
  BY <1>6, BeginSubmits DEF Store!StoreNext
<1>7. CASE a \in Container
  <2>1. UNCHANGED file
    BY <1>7, OnlyFlushWrites, ActorTypes
  <2>2. UNCHANGED job
    BY <1>7, ActorTypes
    DEF StepOf, HookNext, ReadConfig, SharePath, HookFails, HookBind, HookSkips, HookBindsDone,
        RemoveMidDir, RemoveSpecDir, AbortStart, HookReturns, StartContainer, StopContainer,
        Crash, MountStep, PrepareMid, PrepareMaster, PrepareFails, AddBind, AddBindFails,
        ReleaseMid, ReleaseMaster
  <2>3. UNCHANGED Store!storeVars
    BY <1>1, <1>7, <2>1, <2>2, ActorTypes, Unseen
  <2> QED
    BY <2>3
<1> QED
  BY <1>2, <1>3, <1>4, <1>5, <1>6, <1>7 DEF StepOf, Actor

\* StoreInv always holds.
LEMMA AlwaysStoreInv == Spec => []StoreInv
<1>1. Init => StoreInv
  BY ActorTypes
  DEF Init, StoreInv, CommandInv, HoldsLock, Waits, Adds, Removes, Untouched, Working
<1>2. PathTypeOK /\ PathTypeOK' /\ StoreInv /\ [Next]_vars => StoreInv'
  <2>1. ASSUME PathTypeOK, PathTypeOK', StoreInv, Next PROVE StoreInv'
    BY <2>1, NextIsStep, StepStoreInv
  <2>2. ASSUME StoreInv, UNCHANGED vars PROVE StoreInv'
    BY <2>2 DEF StoreInv, CommandInv, HoldsLock, Waits, Adds, Removes, Untouched, Working,
       AskedBy, MeantBy, Cid, Op, vars, memVars
  <2> QED
    BY <2>1, <2>2
<1> QED
  BY <1>1, <1>2, PathTypesCorrect, PTL DEF Spec

\* add-path and remove-path are the atomic commands of PathStore: whatever mount
\* fails, whatever container starts or stops meanwhile, and whoever is killed, a
\* configuration changes at once, by what was asked for only, no command undoes
\* another's change, and success means that all of it was done (AddPath and
\* RemovePath of libdevice.go, with their roll backs).
THEOREM PathStoreImplemented == Spec => PathStoreRefined
<1>1. Init => Store!StoreInit
  <2> SUFFICES ASSUME Init PROVE Store!StoreInit
    OBVIOUS
  <2>1. file \in [Container -> InitialFile] /\ \A p \in Command : pc[p] = "idle"
    BY ActorTypes DEF Init
  <2>2. \A p \in Command : job[p].req = NoJob(CHOOSE c \in Container : TRUE).req
    BY DEF Init
  <2>3. [p \in Command |-> IF Busy(p) THEN "pending" ELSE pc[p]] = [p \in Command |-> "idle"]
    BY <2>1 DEF Busy
  <2>4. [p \in Command |-> pc[p] = "done" /\ ~ err[p]] = [p \in Command |-> FALSE]
    BY <2>1
  <2>5. [p \in Command |-> job[p].req]
          \in [Command -> Requests \cup {NoJob(CHOOSE c \in Container : TRUE).req}]
    BY <2>2
  <2> QED
    BY <2>1, <2>3, <2>4, <2>5 DEF Store!StoreInit
<1>2. PathTypeOK /\ FilesLoad /\ StoreInv /\ [Next]_vars => [Store!StoreNext]_Store!storeVars
  <2>1. ASSUME PathTypeOK, FilesLoad, StoreInv, Next PROVE [Store!StoreNext]_Store!storeVars
    BY <2>1, NextIsStep, StepImplements
  <2>2. ASSUME UNCHANGED vars PROVE UNCHANGED Store!storeVars
    BY <2>2, Unseen DEF vars
  <2> QED
    BY <2>1, <2>2
<1> QED
  BY <1>1, <1>2, AlwaysStoreInv, PathTypesCorrect, FilesAlwaysLoad, PTL
  DEF Spec, PathStoreRefined, Store!StoreSpec

-----------------------------------------------------------------------------
(***************************************************************************)
(* The mounts                                                              *)
(***************************************************************************)
\* Every directory that binds use has its two mounts, with their options, and
\* they have reached the container; no other has any.  Of those in but nothing
\* is said.
Shared(c, binds, but) ==
  /\ \A b \in binds : b.host \notin but =>
        mid[c][b.host] = b.perm /\ master[c][b.host] = b.perm /\ b.host \in slave[c]
  /\ \A h \in HostPath \ but : (\A b \in binds : b.host # h) =>
        mid[c][h] = "none" /\ master[c][h] = "none"

\* The container sees the binds, each once, and no other; what a failed call has
\* half made lies below them or apart from them.
Seen(c, binds) ==
  /\ \A b \in binds : Shows(guest[c][b.path], b.host)
  /\ \A q \in CtrPath : (\A b \in binds : b.path # q) => HalfMade(guest[c][q])

\* Nothing is mounted: on the host, and in the container.
Bare(c) == \A h \in HostPath : mid[c][h] = "none" /\ master[c][h] = "none"
Empty(c) == slave[c] = {} /\ \A q \in CtrPath : guest[c][q] = <<>>

\* What is left of the mounts belongs to the binds.
Left(points, binds) ==
  \A h \in HostPath : points[h] = "none" \/ \E b \in binds : b.host = h

-----------------------------------------------------------------------------
\* The binds that a command has in memory, or a start hook has gone through.
Recorded(a) == IF a \in Command THEN cfg[a] ELSE cfg[a] \ todo[a]

\* How far process a is with the mounts of the binds it has recorded.
Progress(a) ==
  LET c == Cid(a)  b == cur[a]  h == b.host  binds == Recorded(a)
  IN  /\ pc[a] \in {"each", "bind", "flush", "done"} => Shared(c, binds, {})
      /\ pc[a] \in {"mid", "master"} =>
           /\ Shared(c, binds \ {b}, {h})
           /\ mid[c][h] = b.perm \/ (pc[a] = "mid" /\ mid[c][h] = "none")
           /\ master[c][h] = "none" \/ (master[c][h] = b.perm /\ h \in slave[c])
           /\ a \in Command => \A e \in binds \ {b} : e.host # h
      /\ pc[a] = "unbind" => Shared(c, binds \cup {b}, {}) /\ b \notin binds
      /\ pc[a] \in {"unmid", "unmaster"} =>
           /\ Shared(c, binds, {h})
           /\ pc[a] = "unmaster" => mid[c][h] = "none"
           /\ \A e \in binds : e.host # h
      /\ pc[a] \in {"mid", "master", "bind"} => b \in binds
      /\ pc[a] \in {"each", "flush", "done", "unmid", "unmaster"} => Seen(c, binds)
      /\ pc[a] \in {"mid", "master", "bind"} => Seen(c, binds \ {b})
      /\ pc[a] = "unbind" => Seen(c, binds \cup {b})

\* The start hook mounts what was configured when it began, and still is.
Starting(c) ==
  /\ pc[c] \in {"read", "share", "each", "mid", "master", "bind", "done"}
  /\ pc[c] \in {"read", "share"} => Bare(c) /\ Empty(c)
  /\ pc[c] # "read" => cfg[c] = file[c] /\ todo[c] \subseteq cfg[c]
  /\ pc[c] = "share" => todo[c] = cfg[c]
  /\ pc[c] = "done" => todo[c] = {}
  /\ pc[c] \notin {"read", "share"} => base[c] /\ Progress(c)

\* Commands on a running container.
Serving(c) ==
  /\ base[c]
  /\ flock[c] = NoOne => Shared(c, file[c], {}) /\ Seen(c, file[c])
  /\ \A p \in Command : Working(p) /\ Cid(p) = c => Progress(p)

\* The stop hook releases what the binds that are left use.
Stopping(c) ==
  /\ Empty(c)
  /\ pc[c] \in {"read", "each", "unmid", "unmaster", "rmmid", "rmmaster", "done"}
  /\ pc[c] = "read" => Left(mid[c], file[c]) /\ Left(master[c], file[c])
  /\ pc[c] = "each" => Left(mid[c], todo[c]) /\ Left(master[c], todo[c])
  /\ pc[c] = "unmid" => /\ Left(mid[c], todo[c] \cup {cur[c]})
                        /\ Left(master[c], todo[c] \cup {cur[c]})
  /\ pc[c] = "unmaster" => Left(mid[c], todo[c]) /\ Left(master[c], todo[c] \cup {cur[c]})
  /\ pc[c] \in {"rmmid", "rmmaster", "done"} => Bare(c)

\* Commands on a stopped container change the configuration only.
Stopped(c) ==
  /\ Bare(c) /\ Empty(c)
  /\ \A p \in Command : Working(p) /\ Cid(p) = c => pc[p] \in {"each", "flush"}

MountsOf(c) ==
  CASE st[c] = "stopped"  -> Stopped(c)
    [] st[c] = "creating" -> Starting(c)
    [] st[c] = "running"  -> Serving(c)
    [] st[c] = "stopping" -> Stopping(c)

\* Of a container that has not been disturbed: commands run while no hook does,
\* and know the pid that the container has now.
Apart(c) ==
  \A p \in Command : Busy(p) /\ Cid(p) = c =>
    pc[c] = "idle" /\ job[p].pid = (IF st[c] = "running" THEN inc[c] ELSE 0)

\* A hook runs exactly while iSulad starts or stops its container.
Lives(c) ==
  /\ pc[c] = "idle" <=> st[c] \in {"stopped", "running"}
  /\ st[c] \in {"creating", "running"} => inc[c] > 0

\* Only a command at work on a container holds its lock.
Owner(c) == \A p \in Command : flock[c] = p => Working(p) /\ Cid(p) = c

MountInv ==
  \A c \in Container :
    /\ Lives(c) /\ Owner(c)
    /\ ~ disturbed[c] => Apart(c) /\ MountsOf(c)

-----------------------------------------------------------------------------
(***************************************************************************)
(* The steps on mounts, of commands and of start hooks                     *)
(***************************************************************************)
\* Process a has recorded binds that go together, and works on its container.
Mounting(a) ==
  /\ Progress(a) /\ base[Cid(a)]
  /\ Loadable(Recorded(a))
  /\ pc[a] = "unbind" => Loadable(Recorded(a) \cup {cur[a]})

\* A bind that is pushed on half-made ones shows its directory, and a half-made
\* one leaves half-made ones.
LEMMA OnTop ==
  ASSUME NEW mounts \in Seq(Shown), HalfMade(mounts)
  PROVE  /\ \A h \in HostPath : Shows(<<Made(h)>> \o mounts, h)
         /\ \A x \in Shown : x.half => HalfMade(<<x>> \o mounts)
<1>1. ASSUME NEW x \in Shown
      PROVE  /\ <<x>> \o mounts # <<>> /\ Head(<<x>> \o mounts) = x /\ Tail(<<x>> \o mounts) = mounts
             /\ \A i \in 1..Len(<<x>> \o mounts) :
                  (<<x>> \o mounts)[i] = IF i = 1 THEN x ELSE mounts[i - 1]
             /\ Len(<<x>> \o mounts) = Len(mounts) + 1
  OBVIOUS
<1>2. \A h \in HostPath : Made(h) \in Shown
  BY DEF Made, Shown
<1>3. ASSUME NEW x \in Shown, x.half PROVE HalfMade(<<x>> \o mounts)
  <2> SUFFICES ASSUME NEW i \in 1..Len(<<x>> \o mounts) PROVE (<<x>> \o mounts)[i].half
    BY DEF HalfMade
  <2>1. i # 1 => i - 1 \in 1..Len(mounts)
    BY <1>1
  <2> QED
    BY <1>1, <1>3, <2>1 DEF HalfMade
<1> QED
  BY <1>1, <1>2, <1>3 DEF Shows

\* One bind, and none.
LEMMA OneMount == HalfMade(<<>>) /\ \A h : Shows(<<Made(h)>>, h)
<1>1. HalfMade(<<>>)
  BY DEF HalfMade
<1>2. \A x : <<x>> # <<>> /\ Head(<<x>>) = x /\ Tail(<<x>>) = <<>>
  OBVIOUS
<1> QED
  BY <1>1, <1>2 DEF Shows

\* What the types say of it.
LEMMA WorkTypes ==
  ASSUME PathTypeOK, NEW a \in Actor
  PROVE  /\ Cid(a) \in Container /\ Recorded(a) \in SUBSET Bind
         /\ cur[a] \in Bind /\ cur[a].host \in HostPath /\ cur[a].path \in CtrPath
         /\ cur[a].perm \in Perm /\ "none" \notin Perm /\ "dir" \notin Perm
         /\ mid \in [Container -> [HostPath -> Point]]
         /\ master \in [Container -> [HostPath -> Point]]
         /\ base \in [Container -> BOOLEAN] /\ slave \in [Container -> SUBSET HostPath]
         /\ guest \in [Container -> [CtrPath -> Seq(Shown)]]
         /\ pc \in [Actor -> CommandStep \cup HookStep]
         /\ todo \in [Actor -> SUBSET Bind] /\ cur \in [Actor -> Bind]
         /\ cfg \in [Actor -> SUBSET Bind]
         /\ \A b \in Bind : b.host \in HostPath /\ b.path \in CtrPath /\ b.perm \in Perm
  BY CidType, PathsAssumption
  DEF PathTypeOK, ContainersTypeOK, MountsTypeOK, StepsTypeOK, ProcessesTypeOK, Recorded, Bind

\* A process that only mounts works for the same container on the same binds.
LEMMA SameWork ==
  ASSUME NEW a \in Actor, UNCHANGED <<job, cfg, todo>>
  PROVE  Cid(a)' = Cid(a) /\ Recorded(a)' = Recorded(a)
  BY DEF Cid, Recorded

\* AddTransferPath, its first mount.
LEMMA PrepareMidProgress ==
  ASSUME PathTypeOK, NEW a \in Actor, Mounting(a), PrepareMid(a)
  PROVE  Progress(a)'
<1>1. Cid(a)' = Cid(a) /\ Recorded(a)' = Recorded(a)
  BY SameWork DEF PrepareMid, memVars
<1>2. /\ pc[a] = "mid" /\ pc'[a] = "master" /\ UNCHANGED <<master, slave, guest, cur>>
      /\ mid'[Cid(a)][cur[a].host] = cur[a].perm
      /\ \A g \in HostPath \ {cur[a].host} : mid'[Cid(a)][g] = mid[Cid(a)][g]
  BY WorkTypes DEF PrepareMid, Goto, Prepared, Mounted, memVars, Mounting, Progress
<1> QED
  BY <1>1, <1>2, WorkTypes DEF Mounting, Progress, Shared, Seen

\* ... and its second, which propagates to the container: from now on the
\* directory of the bind is shared.
LEMMA PrepareMasterProgress ==
  ASSUME PathTypeOK, NEW a \in Actor, Mounting(a), PrepareMaster(a)
  PROVE  Progress(a)'
<1> DEFINE h == cur[a].host
<1>1. Cid(a)' = Cid(a) /\ Recorded(a)' = Recorded(a)
  BY SameWork DEF PrepareMaster, memVars
<1>2. pc[a] = "master" /\ pc'[a] = "bind" /\ UNCHANGED <<mid, guest, cur>>
  BY WorkTypes DEF PrepareMaster, Goto, memVars
<1>3. /\ master[Cid(a)][h] = "none" \/ (master[Cid(a)][h] = cur[a].perm /\ h \in slave[Cid(a)])
      /\ mid[Cid(a)][h] = cur[a].perm /\ base[Cid(a)]
  BY <1>2 DEF Mounting, Progress
<1>4. /\ master'[Cid(a)][h] = cur[a].perm
      /\ \A g \in HostPath \ {h} : master'[Cid(a)][g] = master[Cid(a)][g]
  BY <1>3, WorkTypes DEF PrepareMaster, Prepared, Mounted
<1>5. slave'[Cid(a)] = slave[Cid(a)] \cup {h}
  <2>1. Prepared(master[Cid(a)][h], cur[a].perm) = cur[a].perm
    BY <1>3, WorkTypes DEF Prepared, Mounted
  <2> QED
    BY <1>3, <2>1, WorkTypes DEF PrepareMaster, Propagate, Mounted
<1>6. /\ cur[a] \in Recorded(a) /\ \A e \in Recorded(a) : e.host = h => e.perm = cur[a].perm
      /\ Shared(Cid(a), Recorded(a) \ {cur[a]}, {h})
      /\ Seen(Cid(a), Recorded(a) \ {cur[a]})
  BY <1>2 DEF Mounting, Progress, Loadable
<1>7. Shared(Cid(a), Recorded(a), {})'
  <2>1. /\ \A e \in Recorded(a) : e.host = h => e.perm = cur[a].perm
        /\ Shared(Cid(a), Recorded(a) \ {cur[a]}, {h}) /\ cur[a] \in Recorded(a)
    BY <1>6
  <2>2. ASSUME NEW e \in Recorded(a)
        PROVE  /\ mid'[Cid(a)][e.host] = e.perm /\ master'[Cid(a)][e.host] = e.perm
               /\ e.host \in slave'[Cid(a)]
    BY <1>2, <1>3, <1>4, <1>5, <2>1, WorkTypes DEF Shared
  <2>3. ASSUME NEW g \in HostPath, \A e \in Recorded(a) : e.host # g
        PROVE  mid'[Cid(a)][g] = "none" /\ master'[Cid(a)][g] = "none"
    BY <1>2, <1>4, <2>1, <2>3 DEF Shared
  <2> QED
    BY <1>1, <2>2, <2>3 DEF Shared
<1> HIDE DEF h
<1>8. Seen(Cid(a), Recorded(a) \ {cur[a]})'
  BY <1>1, <1>2, <1>6 DEF Seen
<1> QED
  BY <1>1, <1>2, <1>6, <1>7, <1>8 DEF Progress

\* doAddBind: the container sees the directory at the path, which nothing hid.
LEMMA AddBindProgress ==
  ASSUME PathTypeOK, NEW a \in Actor, Mounting(a), AddBind(a)
  PROVE  Progress(a)'
<1> DEFINE b == cur[a]
<1>1. Cid(a)' = Cid(a) /\ Recorded(a)' = Recorded(a)
  BY SameWork DEF AddBind, memVars
<1>2. /\ pc[a] = "bind" /\ pc'[a] = "each"
      /\ UNCHANGED <<mid, master, slave, cur>>
  BY WorkTypes DEF AddBind, Goto, memVars
<1>3. /\ Shared(Cid(a), Recorded(a), {}) /\ b \in Recorded(a)
      /\ Seen(Cid(a), Recorded(a) \ {b})
  BY <1>2 DEF Mounting, Progress
<1>4. b.host \in slave[Cid(a)]
  BY <1>3 DEF Shared
<1>5. /\ guest'[Cid(a)][b.path] = <<Made(b.host)>> \o guest[Cid(a)][b.path]
      /\ \A q \in CtrPath \ {b.path} : guest'[Cid(a)][q] = guest[Cid(a)][q]
  BY <1>4, WorkTypes DEF AddBind, PushBind, Source, Made
<1>6. \A e \in Recorded(a) \ {b} : e.path # b.path
  BY <1>3 DEF Mounting, Loadable
<1>7. Shared(Cid(a), Recorded(a), {})'
  BY <1>1, <1>2, <1>3 DEF Shared
<1>8. Seen(Cid(a), Recorded(a))'
  <2>1. HalfMade(guest[Cid(a)][b.path]) /\ guest[Cid(a)][b.path] \in Seq(Shown)
    BY <1>3, <1>6, WorkTypes DEF Seen
  <2>2. Shows(guest'[Cid(a)][b.path], b.host)
    BY <1>5, <2>1, WorkTypes, OnTop
  <2> QED
    BY <1>1, <1>2, <1>3, <1>5, <1>6, <2>2, WorkTypes DEF Seen
<1> QED
  BY <1>1, <1>2, <1>7, <1>8 DEF Progress

\* The roll back of AddPath takes the bind out again; was it the only one of its
\* directory, the mounts are released.
LEMMA RollBackProgress ==
  ASSUME PathTypeOK, NEW p \in Command, Mounting(p), RollBack(p), pc[p] \in {"mid", "master", "bind"},
         UNCHANGED <<job, todo, cur>>, slave[Cid(p)] \subseteq slave'[Cid(p)],
         \A g \in HostPath \ {cur[p].host} :
            mid'[Cid(p)][g] = mid[Cid(p)][g] /\ master'[Cid(p)][g] = master[Cid(p)][g],
         pc[p] = "bind" => UNCHANGED <<mid, master>>,
         \A q \in CtrPath :
            IF q = cur[p].path THEN HalfMade(guest[Cid(p)][q]) => HalfMade(guest'[Cid(p)][q])
                               ELSE guest'[Cid(p)][q] = guest[Cid(p)][q]
  PROVE  Progress(p)'
<1> DEFINE b == cur[p]  rest == Without(cfg[p], b)
<1>1. p \in Actor /\ Recorded(p) = cfg[p] /\ Cid(p)' = Cid(p) /\ Recorded(p)' = cfg'[p]
  BY ActorTypes DEF Recorded, Cid
<1>2. b \in cfg[p]
  BY <1>1 DEF Mounting, Progress
<1>3. rest = cfg[p] \ {b}
  BY <1>1, <1>2 DEF Without, SameBind, Mounting, Loadable
<1>4. cfg'[p] = cfg[p] \ {b} /\ cur' = cur
  BY <1>1, <1>3, WorkTypes DEF RollBack, Record
<1>5. LastUser(cfg[p], b) <=> \A e \in cfg[p] \ {b} : e.host # b.host
  BY <1>3 DEF LastUser, HostPathExists
<1>6. pc'[p] = IF LastUser(cfg[p], b) THEN "unmid" ELSE "flush"
  BY <1>1, WorkTypes DEF RollBack, Goto
<1>7. pc[p] \in {"mid", "master"} => LastUser(cfg[p], b)
  BY <1>1, <1>5 DEF Mounting, Progress
<1>8. Seen(Cid(p), Recorded(p))'
  <2>1. Seen(Cid(p), cfg[p] \ {b}) /\ \A e \in cfg[p] \ {b} : e.path # b.path
    BY <1>1, <1>2 DEF Mounting, Progress, Loadable
  <2>2. Cid(p)' = Cid(p) /\ Recorded(p)' = cfg[p] \ {b}
    BY <1>1, <1>4
  <2>3. \A e \in cfg[p] \ {b} : guest'[Cid(p)][e.path] = guest[Cid(p)][e.path]
    BY <1>1, <2>1, WorkTypes
  <2> HIDE DEF b
  <2> QED
    BY <2>1, <2>2, <2>3 DEF Seen
<1>9. Shared(Cid(p), cfg[p] \ {b}, {b.host})
  BY <1>1 DEF Mounting, Progress, Shared
<1>10. CASE LastUser(cfg[p], b)
  <2>1. Shared(Cid(p), Recorded(p), {cur[p].host})'
    BY <1>1, <1>4, <1>9, WorkTypes DEF Shared
  <2> QED
    BY <1>1, <1>4, <1>5, <1>6, <1>8, <1>10, <2>1 DEF Progress
<1>11. CASE ~ LastUser(cfg[p], b)
  <2>1. pc[p] = "bind" /\ Shared(Cid(p), cfg[p], {}) /\ UNCHANGED <<mid, master>>
    BY <1>1, <1>7, <1>11 DEF Mounting, Progress
  <2>2. Shared(Cid(p), Recorded(p), {})'
    BY <1>1, <1>4, <1>5, <1>11, <2>1, WorkTypes DEF Shared
  <2> QED
    BY <1>1, <1>4, <1>6, <1>8, <1>11, <2>2 DEF Progress
<1> QED
  BY <1>10, <1>11

\* A mount that fails is rolled back.
LEMMA PrepareFailsProgress ==
  ASSUME PathTypeOK, NEW p \in Command, Mounting(p), PrepareFails(p)
  PROVE  Progress(p)'
<1>1. /\ p \in Actor /\ RollBack(p) /\ pc[p] \in {"mid", "master"}
      /\ UNCHANGED <<job, todo, cur, guest>>
  BY ActorTypes DEF PrepareFails
<1>2. \A g \in HostPath \ {cur[p].host} :
        mid'[Cid(p)][g] = mid[Cid(p)][g] /\ master'[Cid(p)][g] = master[Cid(p)][g]
  BY <1>1, WorkTypes DEF PrepareFails
<1>3. slave[Cid(p)] \subseteq slave'[Cid(p)]
  BY <1>1, WorkTypes DEF PrepareFails, Propagate
<1> QED
  BY <1>1, <1>2, <1>3, RollBackProgress

LEMMA AddBindFailsProgress ==
  ASSUME PathTypeOK, NEW p \in Command, Mounting(p), AddBindFails(p)
  PROVE  Progress(p)'
<1>1. /\ p \in Actor /\ RollBack(p) /\ pc[p] = "bind"
      /\ UNCHANGED <<job, todo, cur, mid, master, slave>>
  BY ActorTypes DEF AddBindFails
<1>2. ASSUME NEW q \in CtrPath
      PROVE  IF q = cur[p].path THEN HalfMade(guest[Cid(p)][q]) => HalfMade(guest'[Cid(p)][q])
                                ELSE guest'[Cid(p)][q] = guest[Cid(p)][q]
  <2>1. CASE UNCHANGED guest
    BY <2>1
  <2>2. CASE PushBind(Cid(p), cur[p], TRUE)
    <3> DEFINE x == Source(Cid(p), cur[p].host, TRUE)
    <3>1. /\ guest'[Cid(p)][cur[p].path] = <<x>> \o guest[Cid(p)][cur[p].path]
          /\ q # cur[p].path => guest'[Cid(p)][q] = guest[Cid(p)][q]
      BY <1>1, <2>2, WorkTypes DEF PushBind
    <3>2. x \in Shown /\ x.half /\ guest[Cid(p)][cur[p].path] \in Seq(Shown)
      BY <1>1, WorkTypes DEF Source, Shown
    <3> HIDE DEF x
    <3> QED
      BY <3>1, <3>2, OnTop
  <2> QED
    BY <2>1, <2>2 DEF AddBindFails, Fault
<1> QED
  BY <1>1, <1>2, RollBackProgress

\* RemoveTransferPath takes away the mounts of a directory that no bind uses.
LEMMA ReleaseProgress ==
  ASSUME PathTypeOK, NEW p \in Command, Mounting(p), ReleaseMid(p) \/ ReleaseMaster(p)
  PROVE  Progress(p)'
<1> DEFINE h == cur[p].host
<1>1. p \in Actor /\ Cid(p)' = Cid(p) /\ Recorded(p)' = Recorded(p)
      /\ UNCHANGED <<cur, guest>>
  BY SameWork, ActorTypes DEF ReleaseMid, ReleaseMaster, memVars
<1>2. pc[p] \in {"unmid", "unmaster"}
  BY DEF ReleaseMid, ReleaseMaster
<1>3. /\ Shared(Cid(p), Recorded(p), {h}) /\ Seen(Cid(p), Recorded(p))
      /\ pc[p] = "unmaster" => mid[Cid(p)][h] = "none"
      /\ \A e \in Recorded(p) : e.host # h
  BY <1>2 DEF Mounting, Progress
<1>4. Seen(Cid(p), Recorded(p))'
  BY <1>1, <1>3 DEF Seen
<1>5. CASE ReleaseMid(p)
  <2>1. /\ pc'[p] = "unmaster" /\ UNCHANGED <<master, slave>> /\ mid'[Cid(p)][h] = "none"
        /\ \A g \in HostPath \ {h} : mid'[Cid(p)][g] = mid[Cid(p)][g]
    BY <1>1, <1>5, WorkTypes DEF ReleaseMid, Goto, Released
  <2>2. Shared(Cid(p), Recorded(p), {cur[p].host})'
    BY <1>1, <1>3, <2>1, WorkTypes DEF Shared
  <2> QED
    BY <1>1, <1>3, <1>4, <2>1, <2>2 DEF Progress
<1>6. CASE ReleaseMaster(p)
  <2>1. /\ pc'[p] \in {"flush", "each"} /\ UNCHANGED mid /\ master'[Cid(p)][h] = "none"
        /\ \A g \in HostPath \ {h} : master'[Cid(p)][g] = master[Cid(p)][g]
        /\ slave'[Cid(p)] = slave[Cid(p)] \ {h} /\ mid[Cid(p)][h] = "none"
    BY <1>1, <1>3, <1>6, WorkTypes DEF ReleaseMaster, Goto
  <2>2. \A e \in Recorded(p) : e.host \in HostPath /\ e.host # h
    BY <1>1, <1>3, WorkTypes
  <2>3. \A e \in Recorded(p) : /\ mid'[Cid(p)][e.host] = e.perm /\ master'[Cid(p)][e.host] = e.perm
                               /\ e.host \in slave'[Cid(p)]
    BY <1>3, <2>1, <2>2 DEF Shared
  <2>4. \A g \in HostPath : (\A e \in Recorded(p) : e.host # g) =>
          mid'[Cid(p)][g] = "none" /\ master'[Cid(p)][g] = "none"
    BY <1>3, <2>1 DEF Shared
  <2> HIDE DEF h
  <2>5. Shared(Cid(p), Recorded(p), {})'
    BY <1>1, <2>3, <2>4 DEF Shared
  <2> QED
    BY <1>1, <1>4, <2>1, <2>5 DEF Progress
<1> QED
  BY <1>5, <1>6

\* doRemoveBind takes the one mount at the path away; the directory keeps its
\* two mounts while another bind uses it.
LEMMA RemoveBindProgress ==
  ASSUME PathTypeOK, NEW p \in Command, Mounting(p), RemoveBind(p)
  PROVE  Progress(p)'
<1> DEFINE b == cur[p]
<1>1. p \in Actor /\ Cid(p)' = Cid(p) /\ Recorded(p)' = Recorded(p) /\ Recorded(p) = cfg[p]
  BY SameWork, ActorTypes DEF RemoveBind, memVars, Recorded
<1>2. pc[p] = "unbind" /\ UNCHANGED <<cur, mid, master, slave>>
  BY DEF RemoveBind, memVars
<1>3. /\ Shared(Cid(p), cfg[p] \cup {b}, {}) /\ b \notin cfg[p] /\ Loadable(cfg[p] \cup {b})
      /\ Seen(Cid(p), cfg[p] \cup {b})
  BY <1>1, <1>2 DEF Mounting, Progress
<1>4. \A e \in cfg[p] : ~ SameBind(e, b) /\ e.path # b.path
  BY <1>3 DEF Loadable, SameBind
<1>5. LastUser(cfg[p], b) <=> \A e \in cfg[p] : e.host # b.host
  BY <1>4 DEF LastUser, HostPathExists, Without
<1>6. pc'[p] = IF LastUser(cfg[p], b) THEN "unmid" ELSE "each"
  BY <1>1, WorkTypes DEF RemoveBind, Goto
<1>7. /\ guest'[Cid(p)][b.path] = Tail(guest[Cid(p)][b.path])
      /\ \A q \in CtrPath \ {b.path} : guest'[Cid(p)][q] = guest[Cid(p)][q]
  BY <1>1, WorkTypes DEF RemoveBind
<1>8. Seen(Cid(p), Recorded(p))'
  <2>1. Shows(guest[Cid(p)][b.path], b.host)
    BY <1>3 DEF Seen
  <2>2. HalfMade(guest'[Cid(p)][b.path])
    BY <1>7, <2>1 DEF Shows
  <2>4. \A e \in cfg[p] : Shows(guest'[Cid(p)][e.path], e.host)
    BY <1>1, <1>3, <1>4, <1>7, WorkTypes DEF Seen
  <2>5. \A q \in CtrPath : (\A e \in cfg[p] : e.path # q) => HalfMade(guest'[Cid(p)][q])
    BY <1>3, <1>7, <2>2 DEF Seen
  <2> HIDE DEF b
  <2> QED
    BY <1>1, <2>4, <2>5 DEF Seen
<1>9. Shared(Cid(p), Recorded(p), {b.host})'
  BY <1>1, <1>2, <1>3 DEF Shared
<1>10. CASE LastUser(cfg[p], b)
  BY <1>1, <1>2, <1>5, <1>6, <1>8, <1>9, <1>10 DEF Progress
<1>11. CASE ~ LastUser(cfg[p], b)
  <2>1. Shared(Cid(p), Recorded(p), {})'
    BY <1>1, <1>2, <1>3, <1>5, <1>11 DEF Shared
  <2> QED
    BY <1>1, <1>6, <1>8, <1>11, <2>1 DEF Progress
<1> QED
  BY <1>10, <1>11

\* A bind that could not be unmounted is put back.
LEMMA RemoveBindFailsProgress ==
  ASSUME PathTypeOK, NEW p \in Command, Mounting(p), RemoveBindFails(p)
  PROVE  Progress(p)'
<1>1. p \in Actor /\ Cid(p)' = Cid(p) /\ Recorded(p) = cfg[p] /\ Recorded(p)' = cfg'[p]
  BY ActorTypes DEF RemoveBindFails, Recorded, Cid
<1>2. /\ pc[p] = "unbind" /\ pc'[p] = "each" /\ cfg'[p] = cfg[p] \cup {cur[p]}
      /\ UNCHANGED <<cur, mid, master, slave, guest>>
  BY <1>1, WorkTypes DEF RemoveBindFails, RestoreBind, Record, Goto, mountVars
<1>4. /\ Shared(Cid(p), Recorded(p) \cup {cur[p]}, {})
      /\ Seen(Cid(p), Recorded(p) \cup {cur[p]})
  BY <1>2 DEF Mounting, Progress
<1>5. Cid(p)' = Cid(p) /\ Recorded(p)' = Recorded(p) \cup {cur[p]}
  BY <1>1, <1>2
<1>6. Shared(Cid(p), Recorded(p), {})'
  BY <1>2, <1>4, <1>5 DEF Shared
<1>7. Seen(Cid(p), Recorded(p))'
  BY <1>2, <1>4, <1>5 DEF Seen
<1> QED
  BY <1>2, <1>6, <1>7 DEF Progress

\* AddPath records a bind before it prepares its directory, unless another bind
\* has it prepared.
LEMMA RecordBindProgress ==
  ASSUME PathTypeOK, NEW p \in Command, Mounting(p), Alive(p), NEW b, RecordBind(p, b)
  PROVE  Progress(p)'
<1>1. p \in Actor /\ Cid(p)' = Cid(p) /\ Recorded(p) = cfg[p] /\ Recorded(p)' = cfg'[p]
  BY ActorTypes DEF RecordBind, Recorded, Cid
<1>2. /\ pc[p] = "each" /\ cur'[p] = b /\ cfg'[p] = cfg[p] \cup {b} /\ b \in Bind
      /\ pc'[p] = IF HostPathExists(cfg[p], b) THEN "bind" ELSE "mid"
      /\ ~ Refused(cfg[p], b) /\ UNCHANGED <<mid, master, slave, guest>>
  BY <1>1, WorkTypes DEF RecordBind, Record, Take, Goto, mountVars
<1>3. cfg'[p] \ {b} = cfg[p] /\ b.host \in HostPath
  <2>1. b \notin cfg[p]
    BY <1>2 DEF Refused
  <2>2. cfg'[p] \ {b} = cfg[p]
    BY <1>2, <2>1
  <2> QED
    BY <1>2, <2>2 DEF Bind
<1>4. Shared(Cid(p), cfg[p], {}) /\ Seen(Cid(p), cfg[p])
  BY <1>1, <1>2 DEF Mounting, Progress
<1>5. Seen(Cid(p), Recorded(p) \ {cur[p]})'
  BY <1>1, <1>2, <1>3, <1>4 DEF Seen
<1>6. CASE HostPathExists(cfg[p], b)
  <2>1. PICK e \in cfg[p] : e.host = b.host /\ e.perm = b.perm
    BY <1>2, <1>6 DEF HostPathExists, Refused
  <2>2. Shared(Cid(p), Recorded(p), {})'
    BY <1>1, <1>2, <1>4, <2>1 DEF Shared
  <2> QED
    BY <1>1, <1>2, <1>5, <1>6, <2>2 DEF Progress
<1>7. CASE ~ HostPathExists(cfg[p], b)
  <2>1. Shared(Cid(p), Recorded(p) \ {cur[p]}, {cur[p].host})'
    BY <1>1, <1>2, <1>3, <1>4 DEF Shared
  <2>2. mid'[Cid(p)][b.host] = "none" /\ master'[Cid(p)][b.host] = "none"
    BY <1>2, <1>3, <1>4, <1>7 DEF Shared, HostPathExists
  <2>3. \A e \in cfg[p] : e.host # b.host
    BY <1>7 DEF HostPathExists
  <2> QED
    BY <1>1, <1>2, <1>3, <1>5, <1>7, <2>1, <2>2, <2>3 DEF Progress
<1> QED
  BY <1>6, <1>7

\* RemovePath takes the bind it was asked for, and that one only, out of the
\* configuration before it unmounts it.
LEMMA UnrecordProgress ==
  ASSUME PathTypeOK, NEW p \in Command, Mounting(p), Alive(p), NEW b, Unrecord(p, b)
  PROVE  Progress(p)'
<1>1. p \in Actor /\ Cid(p)' = Cid(p) /\ Recorded(p) = cfg[p] /\ Recorded(p)' = cfg'[p]
  BY ActorTypes DEF Unrecord, Recorded, Cid
<1>2. /\ pc[p] = "each" /\ pc'[p] = "unbind" /\ cfg'[p] = Without(cfg[p], b)
      /\ UNCHANGED <<mid, master, slave, guest>>
      /\ cur'[p] \in GetBindInConfig(cfg[p], b)
  BY <1>1, WorkTypes DEF Unrecord, Record, Goto, mountVars
<1>3. Loadable(cfg[p]) /\ Shared(Cid(p), cfg[p], {}) /\ Seen(Cid(p), cfg[p])
  BY <1>1, <1>2 DEF Mounting, Progress
<1>4. cfg'[p] \cup {cur'[p]} = cfg[p] /\ cur'[p] \notin cfg'[p]
  BY <1>2, <1>3 DEF Without, GetBindInConfig, SameBind, Loadable
<1>5. Shared(Cid(p), Recorded(p) \cup {cur[p]}, {})'
  BY <1>1, <1>2, <1>3, <1>4 DEF Shared
<1>6. Seen(Cid(p), Recorded(p) \cup {cur[p]})'
  BY <1>1, <1>2, <1>3, <1>4 DEF Seen
<1> QED
  BY <1>1, <1>2, <1>4, <1>5, <1>6 DEF Progress

\* The rest of the loops mounts nothing and records nothing.
LEMMA PassProgress ==
  ASSUME PathTypeOK, NEW p \in Command, Mounting(p),
         EachDone(p) \/ \E b \in todo[p] : RefuseBind(p, b) \/ NotConfigured(p, b)
  PROVE  Progress(p)'
<1>1. /\ p \in Actor /\ Cid(p)' = Cid(p) /\ Recorded(p)' = Recorded(p)
      /\ pc[p] = "each" /\ pc'[p] \in {"each", "flush"}
      /\ UNCHANGED <<mid, master, slave, guest>>
  BY WorkTypes, ActorTypes
  DEF EachDone, RefuseBind, NotConfigured, Goto, Recorded, Cid, memVars, mountVars
<1>2. Shared(Cid(p), Recorded(p), {}) /\ Seen(Cid(p), Recorded(p))
  BY <1>1 DEF Mounting, Progress
<1>3. Shared(Cid(p), Recorded(p), {})' /\ Seen(Cid(p), Recorded(p))'
  BY <1>1, <1>2 DEF Shared, Seen
<1> QED
  BY <1>1, <1>3 DEF Progress

\* So every step of a command between the lock and the flush keeps the mounts
\* and the binds it has in memory together.
LEMMA WorkKeepsProgress ==
  ASSUME PathTypeOK, NEW p \in Command, Mounting(p), Alive(p), CommandNext(p),
         ~ LockAndLoad(p), ~ Flush(p)
  PROVE  Progress(p)'
<1> p \in Actor
  BY ActorTypes
<1> QED
  BY PrepareMidProgress, PrepareMasterProgress, AddBindProgress, PrepareFailsProgress,
     AddBindFailsProgress, ReleaseProgress, RemoveBindProgress, RemoveBindFailsProgress,
     RecordBindProgress, UnrecordProgress, PassProgress
  DEF CommandNext, MountStep

-----------------------------------------------------------------------------
(***************************************************************************)
(* Containers do not meet                                                  *)
(***************************************************************************)
\* The mounts of container c, and what iSulad does with it, stay as they are.
Still(c) ==
  /\ mid'[c] = mid[c] /\ master'[c] = master[c]
  /\ base'[c] = base[c] /\ slave'[c] = slave[c] /\ guest'[c] = guest[c]
  /\ file'[c] = file[c] /\ st'[c] = st[c] /\ inc'[c] = inc[c]
  /\ disturbed'[c] = disturbed[c]

\* Nothing makes a disturbance undone.
LEMMA Grows ==
  ASSUME PathTypeOK, NEW a \in Actor, StepOf(a)
  PROVE  \A c \in Container : disturbed[c] => disturbed'[c]
<1>1. disturbed' = disturbed \/ \E c \in Container : \E x : Disturb(c, x)
  <2>1. Cid(a) \in Container
    BY WorkTypes
  <2>2. CASE a \in Command /\ CommandNext(a)
    BY <2>2 DEF CommandNext, LockAndLoad, RefuseBind, RecordBind, NotConfigured, Unrecord,
       RemoveBind, RemoveBindFails, EachDone, Flush, MountStep, PrepareMid, PrepareMaster,
       PrepareFails, AddBind, AddBindFails, ReleaseMid, ReleaseMaster
  <2>3. CASE a \in Container /\ HookNext(a)
    BY <2>1, <2>3 DEF HookNext, ReadConfig, SharePath, HookFails, HookBind, HookSkips,
       HookBindsDone, RemoveMidDir, RemoveSpecDir, AbortStart, HookReturns, MountStep, PrepareMid,
       PrepareMaster, PrepareFails, AddBind, AddBindFails, ReleaseMid, ReleaseMaster
  <2> QED
    BY <2>1, <2>2, <2>3 DEF StepOf, Begin, StartContainer, StopContainer, Crash
<1> QED
  BY <1>1 DEF Disturb, PathTypeOK, ContainersTypeOK

\* A process touches the mounts of its own container only.
LEMMA OthersStill ==
  ASSUME PathTypeOK, NEW a \in Actor, StepOf(a), NEW c \in Container, c # Cid(a)
  PROVE  Still(c)
<1>1. /\ st \in [Container -> {"stopped", "creating", "running", "stopping"}]
      /\ inc \in [Container -> Nat] /\ file \in [Container -> SUBSET Bind]
      /\ disturbed \in [Container -> BOOLEAN]
  BY DEF PathTypeOK, ContainersTypeOK
<1>2. CASE a \in Command /\ CommandNext(a)
  BY <1>1, <1>2, WorkTypes
  DEF Still, CommandNext, LockAndLoad, RefuseBind, RecordBind, NotConfigured, Unrecord,
      RemoveBind, RemoveBindFails, EachDone, Flush, MountStep, PrepareMid, PrepareMaster,
      PrepareFails, AddBind, AddBindFails, ReleaseMid, ReleaseMaster, PushBind, Propagate,
      mountVars, ctrVars, Disturb
<1>3. CASE a \in Container /\ MountStep(a)
  BY <1>1, <1>3, WorkTypes
  DEF Still, MountStep, PrepareMid, PrepareMaster, PrepareFails, AddBind, AddBindFails,
      ReleaseMid, ReleaseMaster, PushBind, Propagate, mountVars, ctrVars, Disturb
<1>4. CASE a \in Container /\ HookNext(a) /\ ~ MountStep(a)
  BY <1>1, <1>4, WorkTypes
  DEF Still, HookNext, ReadConfig, SharePath, HookFails, HookBind, HookSkips, HookBindsDone,
      RemoveMidDir, RemoveSpecDir, AbortStart, HookReturns, NamespaceGone, mountVars, ctrVars,
      Disturb, Cid
<1>5. CASE a \in Container /\ (StartContainer(a) \/ StopContainer(a))
  BY <1>1, <1>5, WorkTypes
  DEF Still, StartContainer, StopContainer, NamespaceGone, mountVars, Disturb, Cid
<1>6. CASE Crash(a) \/ (a \in Command /\ \E r \in Requests : Begin(a, r))
  BY <1>1, <1>6 DEF Still, Crash, Begin, mountVars, ctrVars, Disturb
<1> QED
  BY <1>2, <1>3, <1>4, <1>5, <1>6 DEF StepOf

\* Between the lock and the flush a command touches mounts and its own memory.
LEMMA WorkStays ==
  ASSUME PathTypeOK, NEW p \in Command, CommandNext(p), ~ LockAndLoad(p), ~ Flush(p)
  PROVE  /\ Working(p) /\ Working(p)'
         /\ UNCHANGED <<job, file, flock, st, inc, base, disturbed, lost>>
<1>1. p \in Actor /\ p \notin Container /\ pc \in [Actor -> CommandStep \cup HookStep]
  BY ActorTypes DEF PathTypeOK, StepsTypeOK
<1> DEFINE inside == {"each", "mid", "master", "bind", "unbind", "unmid", "unmaster", "flush"}
<1>2. pc[p] \in inside /\ (UNCHANGED pc \/ \E l \in inside : Goto(p, l))
      /\ UNCHANGED <<job, file, flock, st, inc, base, disturbed, lost>>
  <2>1. CASE \E b \in todo[p] : \/ RefuseBind(p, b) \/ RecordBind(p, b)
                               \/ NotConfigured(p, b) \/ Unrecord(p, b)
    BY <2>1 DEF RefuseBind, RecordBind, NotConfigured, Unrecord, mountVars, ctrVars
  <2>2. CASE RemoveBind(p) \/ RemoveBindFails(p) \/ EachDone(p)
    BY <2>2 DEF RemoveBind, RemoveBindFails, EachDone, mountVars, ctrVars
  <2>3. CASE MountStep(p)
    BY <1>1, <2>3 DEF MountStep, PrepareMid, PrepareMaster, PrepareFails, AddBind,
       AddBindFails, ReleaseMid, ReleaseMaster, RollBack, ctrVars
  <2> QED
    BY <2>1, <2>2, <2>3 DEF CommandNext
<1>3. pc'[p] \in inside
  BY <1>1, <1>2 DEF Goto
<1> QED
  BY <1>2, <1>3 DEF Working

-----------------------------------------------------------------------------
(***************************************************************************)
(* The hooks                                                               *)
(***************************************************************************)
\* A hook works for its container, on what it has gone through.
LEMMA HookWork ==
  ASSUME NEW c \in Container
  PROVE  /\ c \in Actor /\ c \notin Command /\ Cid(c) = c /\ Cid(c)' = c
         /\ Recorded(c) = cfg[c] \ todo[c] /\ Recorded(c)' = cfg'[c] \ todo'[c]
  BY ActorTypes DEF Cid, Recorded

\* The prestart hook gets ready: it reads the configuration, without a lock, and
\* makes /.sharedpath (prepareHookData, SharePath).
LEMMA ReadyStarts ==
  ASSUME PathTypeOK, FilesLoad, NEW c \in Container, st[c] = "creating", Starting(c),
         ReadConfig(c) \/ SharePath(c)
  PROVE  st'[c] = "creating" /\ Starting(c)'
<1>1. /\ Bare(c) /\ Empty(c) /\ UNCHANGED <<st, mid, master, guest, file>>
      /\ pc[c] \in {"read", "share"}
  BY DEF ReadConfig, SharePath, Starting, ctrVars, mountVars
<1>2. (Bare(c) /\ Empty(c))'
  <2>1. slave'[c] = {}
    <3>1. CASE ReadConfig(c)
      BY <1>1, <3>1 DEF ReadConfig, mountVars, Empty
    <3>2. CASE SharePath(c)
      BY <1>1, <3>2, WorkTypes, HookWork DEF SharePath, MountedBelow, Bare, Mounted
    <3> QED
      BY <3>1, <3>2
  <2> QED
    BY <1>1, <2>1 DEF Bare, Empty
<1>3. CASE ReadConfig(c)
  <2>1. pc'[c] = "share" /\ cfg'[c] = file[c] /\ todo'[c] = file[c]
    BY <1>1, <1>3, HookWork, WorkTypes DEF ReadConfig, FilesLoad, Goto
  <2> QED
    BY <1>1, <1>2, <2>1 DEF Starting
<1>4. CASE SharePath(c)
  <2>1. /\ pc'[c] = "each" /\ base'[c] = TRUE /\ UNCHANGED <<cfg, todo>>
        /\ cfg[c] = file[c] /\ todo[c] = cfg[c]
    BY <1>4, HookWork, WorkTypes DEF SharePath, Goto, memVars, Starting
  <2>2. Recorded(c)' = {}
    BY <2>1, HookWork
  <2>3. Shared(c, Recorded(c), {})' /\ Seen(c, Recorded(c))'
    BY <1>2, <2>2, OneMount DEF Shared, Seen, Bare, Empty
  <2>4. Progress(c)'
    BY <2>1, <2>3, HookWork DEF Progress
  <2> QED
    BY <1>1, <2>1, <2>4 DEF Starting
<1> QED
  BY <1>1, <1>3, <1>4

\* AddBinds takes the next bind.  Another bind may have its directory mounted,
\* and then with the same options.
LEMMA NextBindStarts ==
  ASSUME PathTypeOK, FilesLoad, NEW c \in Container, st[c] = "creating", Starting(c),
         NEW b, HookBind(c, b)
  PROVE  st'[c] = "creating" /\ Starting(c)'
<1>1. /\ pc[c] = "each" /\ base[c] /\ Progress(c) /\ cfg[c] = file[c]
      /\ UNCHANGED <<st, mid, master, base, slave, guest, file, cfg>>
  BY DEF HookBind, Starting, ctrVars, mountVars, envVars
<1>2. /\ b \in todo[c] /\ b \in Bind /\ todo'[c] = todo[c] \ {b}
      /\ cur'[c] = b /\ pc'[c] = "mid"
  BY HookWork, WorkTypes DEF HookBind, Take, Goto
<1>3. Shared(c, Recorded(c), {}) /\ Seen(c, Recorded(c))
  BY <1>1, HookWork DEF Progress
<1>4. b \in cfg[c] /\ todo[c] \subseteq cfg[c]
  BY <1>1, <1>2 DEF Starting
<1>5. Recorded(c)' = Recorded(c) \cup {b} /\ b \notin Recorded(c)
  BY <1>1, <1>2, <1>4, HookWork
<1>6. Recorded(c)' \ {b} = Recorded(c) /\ b \in Recorded(c)'
  BY <1>5
<1>7. \A e \in Recorded(c) : e.host = b.host => e.perm = b.perm
  BY <1>4, <1>5, HookWork DEF FilesLoad, Loadable
<1>8. Shared(c, Recorded(c) \ {cur[c]}, {cur[c].host})'
  BY <1>1, <1>2, <1>3, <1>6 DEF Shared
<1>9. /\ mid[c][b.host] = b.perm \/ mid[c][b.host] = "none"
      /\ master[c][b.host] = "none" \/ (master[c][b.host] = b.perm /\ b.host \in slave[c])
  <2>1. b.host \in HostPath
    BY <1>2 DEF Bind
  <2> QED
    BY <1>3, <1>7, <2>1 DEF Shared
<1>10. Seen(c, Recorded(c) \ {cur[c]})'
  BY <1>1, <1>2, <1>3, <1>6 DEF Seen
<1>11. Progress(c)'
  BY <1>1, <1>2, <1>6, <1>8, <1>9, <1>10, HookWork DEF Progress
<1>12. todo'[c] \subseteq cfg'[c]
  BY <1>1, <1>2, <1>4
<1> QED
  BY <1>1, <1>2, <1>11, <1>12 DEF Starting

\* AddBinds mounts it, or the start is disturbed; the release of a directory is
\* not for the prestart hook.
LEMMA MountStarts ==
  ASSUME PathTypeOK, FilesLoad, NEW c \in Container, st[c] = "creating", Starting(c),
         MountStep(c), ~ disturbed'[c]
  PROVE  st'[c] = "creating" /\ Starting(c)'
<1>1. PrepareMid(c) \/ PrepareMaster(c) \/ AddBind(c)
  <2>1. disturbed \in [Container -> BOOLEAN]
    BY DEF PathTypeOK, ContainersTypeOK
  <2>2. ~ Disturb(c, TRUE)
    BY <2>1 DEF Disturb
  <2>3. pc[c] \notin {"unmid", "unmaster"}
    BY DEF Starting
  <2> QED
    BY <2>2, <2>3, HookWork DEF MountStep, PrepareFails, AddBindFails, ReleaseMid, ReleaseMaster
<1>2. pc[c] \in {"mid", "master", "bind"} /\ UNCHANGED <<st, file, base, cfg, todo>>
  BY <1>1 DEF PrepareMid, PrepareMaster, AddBind, memVars, ctrVars
<1>3. pc'[c] \in {"master", "bind", "each"}
  BY <1>1, HookWork, WorkTypes DEF PrepareMid, PrepareMaster, AddBind, Goto
<1>4. base[c] /\ Progress(c) /\ cfg[c] = file[c] /\ todo[c] \subseteq cfg[c]
  BY <1>2 DEF Starting
<1>5. Mounting(c)
  <2>1. Loadable(cfg[c]) /\ Recorded(c) \in SUBSET cfg[c]
    BY HookWork DEF FilesLoad
  <2> QED
    BY <1>2, <1>4, <2>1, PartLoads, HookWork DEF Mounting
<1>6. Progress(c)'
  BY <1>1, <1>5, HookWork, PrepareMidProgress, PrepareMasterProgress, AddBindProgress
<1> QED
  BY <1>2, <1>3, <1>4, <1>6 DEF Starting

\* The start hook is done, and the container runs.
LEMMA DoneStarts ==
  ASSUME PathTypeOK, NEW c \in Container, st[c] = "creating", Starting(c), HookBindsDone(c)
  PROVE  st'[c] = "creating" /\ Starting(c)'
<1>1. /\ pc[c] = "each" /\ todo[c] = {} /\ pc'[c] = "done"
      /\ UNCHANGED <<st, mid, master, base, slave, guest, file, cfg, todo>>
  BY HookWork, WorkTypes DEF HookBindsDone, Goto, ctrVars, memVars, mountVars, envVars
<1>2. base[c] /\ Progress(c) /\ cfg[c] = file[c]
  BY <1>1 DEF Starting
<1>3. Shared(c, Recorded(c), {}) /\ Seen(c, Recorded(c))
  BY <1>1, <1>2, HookWork DEF Progress
<1>4. Recorded(c)' = Recorded(c)
  BY <1>1, HookWork
<1>5. Shared(c, Recorded(c), {})' /\ Seen(c, Recorded(c))'
  BY <1>1, <1>3, <1>4 DEF Shared, Seen
<1>6. Progress(c)'
  BY <1>1, <1>5, HookWork DEF Progress
<1> QED
  BY <1>1, <1>2, <1>6 DEF Starting

\* Nobody works for c.
NoCommand(c) == \A p \in Command : Cid(p) = c => ~ Busy(p)

\* The steps of a hook do not change that.
LEMMA StillNoCommand ==
  ASSUME PathTypeOK, NEW c \in Container, StepOf(c), NoCommand(c)
  PROVE  NoCommand(c)' /\ \A p \in Command : Working(p)' => Cid(p)' # c
<1>1. \A p \in Command : pc'[p] = pc[p] /\ Cid(p)' = Cid(p)
  <2>1. \A p \in Command : Kept(p)
    BY OthersKept, ActorTypes
  <2> QED
    BY <2>1, ActorTypes DEF Kept, Cid
<1> QED
  BY <1>1 DEF NoCommand, Busy, Working

LEMMA ReturnStarts ==
  ASSUME PathTypeOK, NEW c \in Container, st[c] = "creating", Starting(c), HookReturns(c),
         NoCommand(c)
  PROVE  st'[c] = "running" /\ Serving(c)'
<1>1. /\ pc[c] = "done" /\ st'[c] = "running"
      /\ UNCHANGED <<mid, master, base, slave, guest, file>>
  BY HookWork DEF HookReturns, mountVars, envVars, PathTypeOK, ContainersTypeOK
<1>2. base[c] /\ Progress(c) /\ cfg[c] = file[c] /\ todo[c] = {}
  BY <1>1 DEF Starting
<1>3. Recorded(c) = file[c]
  BY <1>2, HookWork
<1>4. Shared(c, file[c], {}) /\ Seen(c, file[c])
  BY <1>1, <1>2, <1>3, HookWork DEF Progress
<1>5. Shared(c, file[c], {})' /\ Seen(c, file[c])'
  BY <1>1, <1>4 DEF Shared, Seen
<1>6. StepOf(c)
  BY HookWork DEF StepOf, HookNext
<1> QED
  BY <1>1, <1>2, <1>5, <1>6, StillNoCommand DEF Serving

\* The prestart hook: nothing in it that does not disturb breaks the invariant.
LEMMA CreatingKept ==
  ASSUME PathTypeOK, FilesLoad, NEW c \in Container, st[c] = "creating", Starting(c),
         HookNext(c), ~ disturbed'[c], NoCommand(c)
  PROVE  MountsOf(c)'
<1>1. ~ Disturb(c, TRUE)
  BY DEF Disturb, PathTypeOK, ContainersTypeOK
<1>2. pc[c] \notin {"rmmid", "rmmaster", "abort"}
  BY DEF Starting
<1>3. \/ ReadConfig(c) \/ SharePath(c) \/ (\E b : HookBind(c, b)) \/ MountStep(c)
      \/ HookBindsDone(c) \/ HookReturns(c)
  BY <1>1, <1>2 DEF HookNext, HookFails, HookSkips, RemoveMidDir, RemoveSpecDir, AbortStart
<1>4. CASE HookReturns(c)
  <2>1. st'[c] = "running" /\ Serving(c)'
    BY <1>4, ReturnStarts
  <2> QED
    BY <2>1 DEF MountsOf
<1>5. CASE ~ HookReturns(c)
  <2>1. st'[c] = "creating" /\ Starting(c)'
    BY <1>3, <1>5, ReadyStarts, NextBindStarts, MountStarts, DoneStarts
  <2> QED
    BY <2>1 DEF MountsOf
<1> QED
  BY <1>4, <1>5

\* The poststop hook: when the binds it read are all gone through, no mount is
\* left, and the removal of the directories deletes nothing.
LEMMA StoppingKept ==
  ASSUME PathTypeOK, FilesLoad, NEW c \in Container, st[c] = "stopping", Stopping(c),
         HookNext(c), ~ disturbed'[c], NoCommand(c)
  PROVE  MountsOf(c)'
<1>1. ~ Disturb(c, TRUE)
  BY DEF Disturb, PathTypeOK, ContainersTypeOK
<1>2. pc[c] \notin {"share", "mid", "master", "bind", "abort"} /\ Empty(c)
  BY DEF Stopping
<1>3. \/ ReadConfig(c) \/ (\E b : HookBind(c, b)) \/ ReleaseMid(c) \/ ReleaseMaster(c)
      \/ HookBindsDone(c) \/ RemoveMidDir(c) \/ RemoveSpecDir(c) \/ HookReturns(c)
  BY <1>1, <1>2 DEF HookNext, HookFails, HookSkips, SharePath, AbortStart, MountStep, PrepareMid,
     PrepareMaster, PrepareFails, AddBind, AddBindFails
<1>4. CASE HookReturns(c)
  <2>1. st'[c] = "stopped" /\ UNCHANGED <<mid, master, slave, guest>> /\ Bare(c)
    BY <1>4, HookWork DEF HookReturns, mountVars, PathTypeOK, ContainersTypeOK, Stopping
  <2>2. StepOf(c)
    BY <1>4, HookWork DEF StepOf, HookNext
  <2>3. Stopped(c)'
    BY <1>2, <2>1, <2>2, StillNoCommand DEF Stopped, Bare, Empty
  <2> QED
    BY <2>1, <2>3 DEF MountsOf
<1>5. CASE ~ HookReturns(c)
  <2>1. UNCHANGED <<st, guest, file>> /\ slave'[c] = {}
    BY <1>2, <1>3, <1>5, HookWork, WorkTypes
    DEF ReadConfig, HookBind, ReleaseMid, ReleaseMaster, HookBindsDone, RemoveMidDir,
        RemoveSpecDir, mountVars, ctrVars, Empty
  <2>2. Empty(c)'
    BY <1>2, <2>1 DEF Empty
  <2>3. CASE ReadConfig(c)
    <3>1. /\ pc[c] = "read" /\ pc'[c] = "each" /\ todo'[c] = file[c]
          /\ UNCHANGED <<mid, master>>
      BY <2>3, HookWork, WorkTypes DEF ReadConfig, FilesLoad, Goto, mountVars
    <3>2. Left(mid[c], todo[c])' /\ Left(master[c], todo[c])'
      BY <3>1 DEF Stopping, Left
    <3> QED
      BY <2>1, <2>2, <3>1, <3>2 DEF MountsOf, Stopping
  <2>4. ASSUME NEW b, HookBind(c, b) PROVE MountsOf(c)'
    <3>1. /\ pc[c] = "each" /\ pc'[c] = "unmid" /\ todo'[c] = todo[c] \ {b} /\ b \in todo[c]
          /\ cur'[c] = b /\ UNCHANGED <<mid, master>>
      BY <2>4, HookWork, WorkTypes DEF HookBind, Take, Goto, mountVars
    <3>2. todo[c] = (todo[c] \cup {cur[c]})'
      BY <3>1
    <3>3. Left(mid[c], todo[c]) /\ Left(master[c], todo[c])
      BY <3>1 DEF Stopping
    <3>4. Left(mid[c], todo[c] \cup {cur[c]})' /\ Left(master[c], todo[c] \cup {cur[c]})'
      BY <3>1, <3>2, <3>3
    <3> QED
      BY <2>1, <2>2, <3>1, <3>4 DEF MountsOf, Stopping
  <2>5. CASE ReleaseMid(c)
    <3>1. /\ pc[c] = "unmid" /\ pc'[c] = "unmaster" /\ UNCHANGED <<master, todo, cur>>
          /\ mid'[c][cur[c].host] = "none"
          /\ \A g \in HostPath \ {cur[c].host} : mid'[c][g] = mid[c][g]
      BY <2>5, HookWork, WorkTypes DEF ReleaseMid, Released, Goto, memVars
    <3>2. Left(mid[c], todo[c])' /\ Left(master[c], todo[c] \cup {cur[c]})'
      BY <3>1 DEF Stopping, Left
    <3> QED
      BY <2>1, <2>2, <3>1, <3>2 DEF MountsOf, Stopping
  <2>6. CASE ReleaseMaster(c)
    <3>1. /\ pc[c] = "unmaster" /\ pc'[c] = "each" /\ UNCHANGED <<mid, todo>>
          /\ master'[c][cur[c].host] = "none"
          /\ \A g \in HostPath \ {cur[c].host} : master'[c][g] = master[c][g]
      BY <2>6, HookWork, WorkTypes DEF ReleaseMaster, Goto, memVars
    <3>2. Left(mid[c], todo[c])' /\ Left(master[c], todo[c])'
      BY <3>1 DEF Stopping, Left
    <3> QED
      BY <2>1, <2>2, <3>1, <3>2 DEF MountsOf, Stopping
  <2>7. CASE HookBindsDone(c)
    <3>1. /\ pc[c] = "each" /\ pc'[c] = "rmmid" /\ todo[c] = {} /\ UNCHANGED <<mid, master>>
      BY <2>7, HookWork, WorkTypes DEF HookBindsDone, Goto, mountVars
    <3>2. Bare(c)'
      BY <3>1 DEF Stopping, Left, Bare
    <3> QED
      BY <2>1, <2>2, <3>1, <3>2 DEF MountsOf, Stopping
  <2>8. CASE RemoveMidDir(c) \/ RemoveSpecDir(c)
    <3>1. Bare(c) /\ pc'[c] \in {"rmmaster", "done"}
      BY <2>8, HookWork, WorkTypes DEF RemoveMidDir, RemoveSpecDir, Goto, Stopping
    <3>2. \A points : (\A h \in HostPath : points[h] = "none") =>
             \A h \in HostPath : RemoveAll(points)[h] = "none"
      BY DEF RemoveAll, Mounted
    <3>3. mid'[c] \in {mid[c], RemoveAll(mid[c])} /\ master'[c] \in {master[c], RemoveAll(master[c])}
      BY <2>8, HookWork, WorkTypes DEF RemoveMidDir, RemoveSpecDir
    <3>4. Bare(c)'
      BY <3>1, <3>2, <3>3 DEF Bare
    <3> QED
      BY <2>1, <2>2, <3>1, <3>4 DEF MountsOf, Stopping
  <2> QED
    BY <1>3, <1>5, <2>3, <2>4, <2>5, <2>6, <2>7, <2>8
<1> QED
  BY <1>4, <1>5

\* A container that is started has no mounts, and one that stops has the mounts
\* of its configuration only, and nothing in a container any more.
LEMMA StartStopKept ==
  ASSUME PathTypeOK, NEW c \in Container, MountsOf(c), StartContainer(c) \/ StopContainer(c),
         flock[c] = NoOne
  PROVE  MountsOf(c)'
<1>1. CASE StartContainer(c)
  <2>1. /\ st[c] = "stopped" /\ st'[c] = "creating" /\ pc'[c] = "read"
        /\ UNCHANGED <<mid, master, slave, guest>> /\ Bare(c) /\ Empty(c)
    BY <1>1, HookWork, WorkTypes
    DEF StartContainer, Goto, mountVars, MountsOf, Stopped, PathTypeOK, ContainersTypeOK
  <2>2. (Bare(c) /\ Empty(c))'
    BY <2>1 DEF Bare, Empty
  <2> QED
    BY <2>1, <2>2 DEF MountsOf, Starting
<1>2. CASE StopContainer(c)
  <2>1. /\ st[c] = "running" /\ st'[c] = "stopping" /\ pc'[c] = "read"
        /\ UNCHANGED <<mid, master, file>> /\ slave'[c] = {}
        /\ guest'[c] = [q \in CtrPath |-> <<>>] /\ Shared(c, file[c], {})
    BY <1>2, HookWork, WorkTypes
    DEF StopContainer, NamespaceGone, Goto, MountsOf, Serving, PathTypeOK, ContainersTypeOK
  <2>2. Empty(c)'
    BY <2>1 DEF Empty
  <2>3. Left(mid[c], file[c])' /\ Left(master[c], file[c])'
    BY <2>1 DEF Left, Shared
  <2> QED
    BY <2>1, <2>2, <2>3 DEF MountsOf, Stopping
<1> QED
  BY <1>1, <1>2

-----------------------------------------------------------------------------
(***************************************************************************)
(* The commands                                                            *)
(***************************************************************************)
\* A command that is at work on a container that has not been disturbed.
Undisturbed(p) == Lives(Cid(p)) /\ Owner(Cid(p)) /\ Apart(Cid(p)) /\ MountsOf(Cid(p))

\* The others are where they were, and on this container only the holder of the
\* lock works.
LEMMA OtherCommands ==
  ASSUME PathTypeOK, NEW p \in Command, StepOf(p), NEW q \in Command, q # p
  PROVE  Kept(q) /\ Cid(q)' = Cid(q) /\ (Working(q)' <=> Working(q))
<1>1. Kept(q)
  BY OthersKept, ActorTypes
<1> QED
  BY <1>1, ActorTypes DEF Kept, Cid, Working

\* Commands on a stopped container do not touch mounts.
LEMMA StoppedKept ==
  ASSUME PathTypeOK, NEW p \in Command, CommandNext(p), Undisturbed(p), st[Cid(p)] = "stopped"
  PROVE  MountsOf(Cid(p))'
<1>1. /\ p \in Actor /\ StepOf(p) /\ Cid(p) \in Container
  BY ActorTypes, WorkTypes DEF StepOf
<1>2. Busy(p)
  BY CommandStaysBusy DEF Flush, Busy
<1>3. ~ Alive(p)
  BY <1>1, <1>2 DEF Undisturbed, Apart, Alive
<1>4. Bare(Cid(p)) /\ Empty(Cid(p)) /\ (Working(p) => pc[p] \in {"each", "flush"})
  BY <1>1 DEF Undisturbed, MountsOf, Stopped
<1>5. \/ LockAndLoad(p) \/ EachDone(p) \/ Flush(p)
      \/ \E b \in todo[p] : \/ RefuseBind(p, b) \/ RecordBind(p, b)
                            \/ NotConfigured(p, b) \/ Unrecord(p, b)
  BY <1>4 DEF CommandNext, RemoveBind, RemoveBindFails, MountStep, PrepareMid, PrepareMaster,
     PrepareFails, AddBind, AddBindFails, ReleaseMid, ReleaseMaster, Working
<1>6. UNCHANGED <<st, mid, master, slave, guest, job>>
  BY <1>5 DEF LockAndLoad, EachDone, Flush, RefuseBind, RecordBind, NotConfigured, Unrecord,
     mountVars, ctrVars
<1>7. pc'[p] \in {"each", "flush", "done"}
  BY <1>1, <1>3, <1>5, WorkTypes DEF LockAndLoad, EachDone, Flush, RefuseBind, RecordBind,
     NotConfigured, Unrecord, Goto
<1>8. Cid(p)' = Cid(p)
  BY <1>1, <1>6, ActorTypes DEF Cid
<1>9. (Bare(Cid(p)) /\ Empty(Cid(p)))'
  BY <1>4, <1>6, <1>8 DEF Bare, Empty
<1>10. \A q \in Command : Working(q)' /\ Cid(q)' = Cid(p)' => pc'[q] \in {"each", "flush"}
  <2>1. \A q \in Command : q # p => Kept(q) /\ Cid(q)' = Cid(q) /\ (Working(q)' <=> Working(q))
    BY <1>1, OtherCommands
  <2>2. \A q \in Command : Working(q) /\ Cid(q) = Cid(p) => pc[q] \in {"each", "flush"}
    BY <1>1 DEF Undisturbed, MountsOf, Stopped
  <2>3. Working(p)' => pc'[p] \in {"each", "flush"}
    BY <1>7 DEF Working
  <2> QED
    BY <1>8, <2>1, <2>2, <2>3 DEF Kept
<1>11. Stopped(Cid(p))'
  BY <1>9, <1>10 DEF Stopped
<1>12. st'[Cid(p)'] = "stopped"
  BY <1>6, <1>8
<1> QED
  BY <1>11, <1>12 DEF MountsOf

\* A command that takes the lock finds the mounts and the file together, and one
\* that gives it up leaves them so.
LEMMA ServingKept ==
  ASSUME PathTypeOK, LoadInv, StoreInv, NEW p \in Command, CommandNext(p),
         Undisturbed(p), st[Cid(p)] = "running"
  PROVE  MountsOf(Cid(p))'
<1>1. /\ p \in Actor /\ StepOf(p) /\ Cid(p) \in Container
  BY ActorTypes, WorkTypes DEF StepOf
<1>2. Busy(p)
  BY CommandStaysBusy DEF Flush, Busy
<1>3. Alive(p)
  <2>1. inc[Cid(p)] \in Nat /\ inc[Cid(p)] > 0 /\ job[p].pid = inc[Cid(p)]
    BY <1>1, <1>2 DEF Undisturbed, Apart, Lives, PathTypeOK, ContainersTypeOK
  <2> QED
    BY <2>1 DEF Alive
<1>4. Serving(Cid(p))
  BY DEF Undisturbed, MountsOf
<1>5. flock \in [Container -> Command \cup {NoOne}] /\ NoOne \notin Command
  BY PathActorsAssumption DEF PathTypeOK, ContainersTypeOK, Actor
<1>6. \A q \in Command : q # p => Kept(q) /\ Cid(q)' = Cid(q) /\ (Working(q)' <=> Working(q))
  BY <1>1, OtherCommands
<1>7. flock[Cid(p)] \in {p, NoOne} =>
        \A q \in Command : q # p /\ Working(q)' => Cid(q)' # Cid(p)
  BY <1>1, <1>5, <1>6 DEF StoreInv, CommandInv, HoldsLock
<1>8. CASE LockAndLoad(p)
  <2>1. /\ UNCHANGED <<job, st, mid, master, base, slave, guest, file>>
        /\ flock[Cid(p)] = NoOne /\ Cid(p)' = Cid(p)
    BY <1>1, <1>8, ActorTypes DEF LockAndLoad, CanLock, ctrVars, mountVars, envVars, Cid
  <2>2. Shared(Cid(p), file[Cid(p)], {}) /\ Seen(Cid(p), file[Cid(p)])
    BY <1>4, <2>1 DEF Serving
  <2>3. CASE pc'[p] = "done"
    <3>1. ~ Working(p)'
      BY <2>3 DEF Working
    <3>2. \A q \in Command : Working(q)' => Cid(q)' # Cid(p)
      BY <1>7, <2>1, <3>1
    <3>3. Shared(Cid(p), file[Cid(p)], {})' /\ Seen(Cid(p), file[Cid(p)])'
      BY <2>1, <2>2 DEF Shared, Seen
    <3>4. Serving(Cid(p))'
      BY <1>4, <2>1, <3>2, <3>3 DEF Serving
    <3>5. st'[Cid(p)'] = "running"
      BY <2>1
    <3> QED
      BY <3>4, <3>5 DEF MountsOf
  <2>4. CASE pc'[p] # "done"
    <3>1. pc'[p] = "each" /\ flock'[Cid(p)] = p /\ cfg'[p] = file[Cid(p)]
      BY <1>1, <1>5, <1>8, <2>4, WorkTypes DEF LockAndLoad, Goto
    <3>2. Recorded(p)' = file[Cid(p)]
      BY <3>1 DEF Recorded
    <3>3. Shared(Cid(p), Recorded(p), {})' /\ Seen(Cid(p), Recorded(p))'
      BY <2>1, <2>2, <3>2 DEF Shared, Seen
    <3>4. Progress(p)'
      BY <3>1, <3>3 DEF Progress
    <3>5. \A q \in Command : Working(q)' /\ Cid(q)' = Cid(p)' => Progress(q)'
      BY <1>7, <2>1, <3>4
    <3>6. flock'[Cid(p)'] # NoOne
      BY <1>5, <2>1, <3>1
    <3>7. Serving(Cid(p))'
      BY <1>4, <2>1, <3>5, <3>6 DEF Serving
    <3>8. st'[Cid(p)'] = "running"
      BY <2>1
    <3> QED
      BY <3>7, <3>8 DEF MountsOf
  <2> QED
    BY <2>3, <2>4
<1>9. CASE ~ LockAndLoad(p)
  <2>1. Working(p) /\ flock[Cid(p)] = p
    BY <1>9, WorkStays DEF Flush, Working, StoreInv, CommandInv, HoldsLock
  <2>2. Progress(p)
    BY <1>4, <2>1 DEF Serving
  <2>3. Recorded(p) = cfg[p]
    BY DEF Recorded
  <2>4. CASE Flush(p)
    <3>1. /\ UNCHANGED <<job, st, mid, master, base, slave, guest>>
          /\ pc[p] = "flush" /\ pc'[p] = "done" /\ flock'[Cid(p)] = NoOne /\ Cid(p)' = Cid(p)
      BY <1>1, <1>5, <2>4, ActorTypes, WorkTypes
      DEF Flush, Unlocked, Goto, ctrVars, mountVars, envVars, Cid
    <3>2. file'[Cid(p)] = cfg[p]
      BY <1>1, <2>1, <2>4 DEF Flush, StoreInv, CommandInv, Untouched, PathTypeOK, ContainersTypeOK
    <3>3. Shared(Cid(p), cfg[p], {}) /\ Seen(Cid(p), cfg[p])
      BY <2>2, <2>3, <3>1 DEF Progress
    <3>4. Shared(Cid(p), file[Cid(p)], {})' /\ Seen(Cid(p), file[Cid(p)])'
      BY <3>1, <3>2, <3>3 DEF Shared, Seen
    <3>5. \A q \in Command : Working(q)' => Cid(q)' # Cid(p)'
      BY <1>7, <2>1, <3>1 DEF Working
    <3>6. Serving(Cid(p))'
      BY <1>4, <3>1, <3>4, <3>5 DEF Serving
    <3>7. st'[Cid(p)'] = "running"
      BY <3>1
    <3> QED
      BY <3>6, <3>7 DEF MountsOf
  <2>5. CASE ~ Flush(p)
    <3>1. UNCHANGED <<job, st, base, flock>> /\ Cid(p)' = Cid(p)
      BY <1>9, <2>5, WorkStays, ActorTypes DEF Cid
    <3>2. Mounting(p)
      BY <1>1, <1>4, <2>2, <2>3 DEF Mounting, Serving, LoadInv, FilesLoad
    <3>3. Progress(p)'
      BY <1>3, <1>9, <2>5, <3>2, WorkKeepsProgress
    <3>4. \A q \in Command : Working(q)' /\ Cid(q)' = Cid(p)' => Progress(q)'
      BY <1>7, <2>1, <3>1, <3>3
    <3>5. flock'[Cid(p)'] # NoOne
      BY <1>5, <2>1, <3>1
    <3>6. Serving(Cid(p))'
      BY <1>4, <3>1, <3>4, <3>5 DEF Serving
    <3>7. st'[Cid(p)'] = "running"
      BY <3>1
    <3> QED
      BY <3>6, <3>7 DEF MountsOf
  <2> QED
    BY <2>4, <2>5
<1> QED
  BY <1>8, <1>9

-----------------------------------------------------------------------------
(***************************************************************************)
(* The invariant                                                           *)
(***************************************************************************)
\* A command does not start or stop containers.
LEMMA CommandLeavesLife ==
  ASSUME PathTypeOK, NEW p \in Command, StepOf(p)
  PROVE  UNCHANGED <<st, inc>> /\ (~ Crash(p) => UNCHANGED disturbed)
<1>1. p \notin Container
  BY ActorTypes
<1>2. CASE CommandNext(p)
  BY <1>2, WorkStays DEF LockAndLoad, Flush, ctrVars
<1> QED
  BY <1>1, <1>2 DEF StepOf, Begin, Crash, ctrVars

\* A hook runs exactly while its container is started or stopped.
LEMMA LivesKept ==
  ASSUME PathTypeOK, NEW a \in Actor, StepOf(a), NEW c \in Container, Lives(c)
  PROVE  Lives(c)'
<1>1. /\ st \in [Container -> {"stopped", "creating", "running", "stopping"}]
      /\ inc \in [Container -> Nat] /\ c \in Actor
      /\ pc \in [Actor -> CommandStep \cup HookStep]
  BY ActorTypes DEF PathTypeOK, ContainersTypeOK, StepsTypeOK
<1>2. CASE a # c
  <2>1. pc'[c] = pc[c]
    BY <1>1, <1>2, OthersKept DEF Kept
  <2>2. st'[c] = st[c] /\ inc'[c] = inc[c]
    BY <1>2, CommandLeavesLife, OthersStill, HookWork DEF Still, Actor
  <2> QED
    BY <2>1, <2>2 DEF Lives
<1>3. CASE a = c
  <2>1. CASE StartContainer(c) \/ StopContainer(c)
    BY <1>1, <2>1 DEF StartContainer, StopContainer, Goto, Lives
  <2>2. CASE AbortStart(c) \/ HookReturns(c)
    BY <1>1, <2>2 DEF AbortStart, HookReturns, Goto, Lives
  <2>3. CASE Crash(c)
    BY <1>1, <2>3, HookWork DEF Crash, Goto, Lives, ctrVars
  <2>4. CASE HookNext(c) /\ ~ AbortStart(c) /\ ~ HookReturns(c)
    <3>1. /\ UNCHANGED <<st, inc>> /\ pc[c] # "idle"
          /\ UNCHANGED pc \/ \E l \in HookStep \ {"idle"} : Goto(c, l)
      <4>1. CASE MountStep(c)
        BY <4>1, HookWork DEF MountStep, PrepareMid, PrepareMaster, PrepareFails, AddBind,
           AddBindFails, ReleaseMid, ReleaseMaster, ctrVars, HookStep
      <4>2. CASE ~ MountStep(c)
        BY <2>4, <4>2 DEF HookNext, ReadConfig, SharePath, HookFails, HookBind, HookSkips,
           HookBindsDone, RemoveMidDir, RemoveSpecDir, ctrVars, HookStep
      <4> QED
        BY <4>1, <4>2
    <3>2. pc'[c] # "idle"
      BY <1>1, <3>1 DEF Goto
    <3> QED
      BY <3>1, <3>2 DEF Lives
  <2> QED
    BY <1>3, <2>1, <2>2, <2>3, <2>4, HookWork DEF StepOf
<1> QED
  BY <1>2, <1>3

\* The lock of a container belongs to a command at work on it.
LEMMA OwnerKept ==
  ASSUME PathTypeOK, \A d \in Container : Owner(d), NEW a \in Actor, StepOf(a),
         NEW c \in Container
  PROVE  Owner(c)'
<1>1. /\ flock \in [Container -> Command \cup {NoOne}] /\ NoOne \notin Actor
      /\ pc \in [Actor -> CommandStep \cup HookStep]
  BY PathActorsAssumption DEF PathTypeOK, ContainersTypeOK, StepsTypeOK
<1> SUFFICES ASSUME NEW p \in Command, flock'[c] = p PROVE (Working(p) /\ Cid(p) = c)'
  BY DEF Owner
<1>2. p \in Actor /\ p \notin Container
  BY ActorTypes
<1>3. CASE a # p
  <2>1. flock[c] = p
    <3>1. CASE a \in Command /\ CommandNext(a)
      BY <1>1, <1>2, <1>3, <3>1, WorkStays DEF LockAndLoad, Flush, Unlocked
    <3>2. CASE a \in Container /\ HookNext(a)
      BY <3>2 DEF HookNext, ReadConfig, SharePath, HookFails, HookBind, HookSkips, HookBindsDone,
         RemoveMidDir, RemoveSpecDir, AbortStart, HookReturns, MountStep, PrepareMid,
         PrepareMaster, PrepareFails, AddBind, AddBindFails, ReleaseMid, ReleaseMaster
    <3>3. CASE Crash(a)
      BY <1>1, <1>2, <3>3 DEF Crash
    <3> QED
      BY <3>1, <3>2, <3>3 DEF StepOf, Begin, StartContainer, StopContainer
  <2>2. Kept(p)
    BY <1>2, <1>3, OthersKept
  <2> QED
    BY <1>2, <2>1, <2>2 DEF Owner, Kept, Working, Cid
<1>4. CASE a = p
  <2>1. flock[c] = p => Working(p) /\ Cid(p) = c
    BY DEF Owner
  <2>2. CASE LockAndLoad(p)
    <3>1. flock[c] # p /\ Cid(p)' = Cid(p) /\ Cid(p) \in Container
      BY <1>2, <2>1, <2>2, WorkTypes DEF LockAndLoad, Working, Cid
    <3>2. c = Cid(p) /\ pc'[p] = "each"
      BY <1>1, <1>2, <2>2, <3>1 DEF LockAndLoad, Goto
    <3> QED
      BY <3>1, <3>2 DEF Working
  <2>3. CASE Flush(p)
    <3>1. flock[c] = p /\ Cid(p) # c
      BY <1>1, <1>2, <2>3, WorkTypes DEF Flush, Unlocked
    <3> QED
      BY <2>1, <3>1
  <2>4. CASE CommandNext(p) /\ ~ LockAndLoad(p) /\ ~ Flush(p)
    BY <1>2, <2>1, <2>4, WorkStays DEF Cid
  <2>5. CASE Crash(p)
    BY <1>1, <1>2, <2>5 DEF Crash
  <2>6. CASE \E r \in Requests : Begin(p, r)
    BY <2>1, <2>6 DEF Begin, Working
  <2> QED
    BY <1>2, <1>4, <2>2, <2>3, <2>4, <2>5, <2>6 DEF StepOf
<1> QED
  BY <1>3, <1>4

\* Commands do not begin while a hook runs, and keep the pid of the container
\* they looked at, unless a start or a stop overtakes them.
LEMMA ApartKept ==
  ASSUME PathTypeOK, NEW a \in Actor, StepOf(a), NEW c \in Container, Lives(c), Apart(c),
         ~ disturbed'[c]
  PROVE  Apart(c)'
<1>1. /\ st \in [Container -> {"stopped", "creating", "running", "stopping"}]
      /\ inc \in [Container -> Nat] /\ c \in Actor
      /\ pc \in [Actor -> CommandStep \cup HookStep]
      /\ job \in [Command -> [req: Request, pid: Nat]]
      /\ disturbed \in [Container -> BOOLEAN]
  BY ActorTypes DEF PathTypeOK, ContainersTypeOK, StepsTypeOK, ProcessesTypeOK
<1>2. CASE a = c
  <2>1. NoCommand(c)
    <3>1. CASE StartContainer(c) \/ StopContainer(c)
      BY <1>1, <3>1 DEF StartContainer, StopContainer, Disturb, BusyOn, NoCommand
    <3>2. CASE pc[c] # "idle"
      BY <3>2 DEF Apart, NoCommand
    <3>3. StartContainer(c) \/ StopContainer(c) \/ pc[c] # "idle"
      BY <1>2, HookWork
      DEF StepOf, HookNext, ReadConfig, SharePath, HookFails, HookBind, HookSkips, HookBindsDone,
          RemoveMidDir, RemoveSpecDir, AbortStart, HookReturns, MountStep, PrepareMid,
          PrepareMaster, PrepareFails, AddBind, AddBindFails, ReleaseMid, ReleaseMaster, Crash
    <3> QED
      BY <3>1, <3>2, <3>3
  <2> QED
    BY <1>2, <2>1, StillNoCommand DEF NoCommand, Apart
<1>3. CASE a # c
  <2>1. pc'[c] = pc[c] /\ st'[c] = st[c] /\ inc'[c] = inc[c]
    <3>1. pc'[c] = pc[c]
      BY <1>1, <1>3, OthersKept DEF Kept
    <3> QED
      BY <1>3, <3>1, CommandLeavesLife, OthersStill, HookWork DEF Still, Actor
  <2> SUFFICES ASSUME NEW q \in Command, (Busy(q) /\ Cid(q) = c)'
               PROVE  /\ pc[c] = "idle"
                      /\ job'[q].pid = (IF st[c] = "running" THEN inc[c] ELSE 0)
    BY <2>1 DEF Apart
  <2>2. q \in Actor /\ q \notin Container
    BY ActorTypes
  <2>3. CASE q # a
    <3>1. Kept(q)
      BY <2>2, <2>3, OthersKept
    <3> QED
      BY <2>2, <3>1 DEF Kept, Busy, Cid, Apart
  <2>4. CASE q = a /\ CommandNext(q)
    <3>1. Busy(q) /\ UNCHANGED job
      BY <2>4, CommandStaysBusy DEF Flush, Busy
    <3> QED
      BY <2>2, <3>1 DEF Cid, Apart
  <2>5. CASE q = a /\ Crash(q)
    BY <1>1, <2>2, <2>5 DEF Crash, Goto, Busy
  <2>6. ASSUME q = a, NEW r \in Requests, Begin(q, r)
        PROVE  /\ pc[c] = "idle"
               /\ job'[q].pid = (IF st[c] = "running" THEN inc[c] ELSE 0)
    <3>1. job'[q] = [req |-> r, pid |-> IF st[r.cid] = "running" THEN inc[r.cid] ELSE 0]
      BY <1>1, <2>6 DEF Begin
    <3>2. r.cid = c
      BY <2>2, <3>1 DEF Cid
    <3> QED
      BY <2>6, <3>1, <3>2 DEF Begin, Inspectable, Lives
  <2> QED
    BY <2>2, <2>3, <2>4, <2>5, <2>6 DEF StepOf
<1> QED
  BY <1>2, <1>3

\* A process that is where it was, in a container whose mounts are what they
\* were, is as far as it was.
LEMMA ProgressStays ==
  ASSUME NEW a \in Actor, NEW c \in Container, Cid(a) = c, Cid(a)' = c,
         Progress(a), Kept(a), Still(c)
  PROVE  Progress(a)'
<1>1. Recorded(a)' = Recorded(a) /\ cur'[a] = cur[a] /\ pc'[a] = pc[a]
  BY DEF Kept, Recorded
<1>2. \A binds, but : Shared(c, binds, but) =>
        /\ \A b \in binds : b.host \notin but =>
              mid'[c][b.host] = b.perm /\ master'[c][b.host] = b.perm /\ b.host \in slave'[c]
        /\ \A h \in HostPath \ but : (\A b \in binds : b.host # h) =>
              mid'[c][h] = "none" /\ master'[c][h] = "none"
  BY DEF Shared, Still
<1>3. \A binds : Seen(c, binds) =>
        /\ \A b \in binds : Shows(guest'[c][b.path], b.host)
        /\ \A q \in CtrPath : (\A b \in binds : b.path # q) => HalfMade(guest'[c][q])
  BY DEF Seen, Still
<1> QED
  BY <1>1, <1>2, <1>3 DEF Progress, Shared, Seen, Still

\* The same for all mounts of a container.
LEMMA MountsFrame ==
  ASSUME PathTypeOK, NEW c \in Container, Kept(c), Still(c), MountsOf(c),
         flock'[c] = NoOne => flock[c] = NoOne,
         \A p \in Command : (Working(p) /\ Cid(p) = c)' => Kept(p) /\ Working(p) /\ Cid(p) = c
  PROVE  MountsOf(c)'
<1> c \in Actor
  BY HookWork
<1>1. st'[c] = st[c]
  BY DEF Still
<1>2. CASE st[c] = "stopped"
  <2>1. Stopped(c)'
    BY <1>2 DEF MountsOf, Stopped, Still, Kept, Bare, Empty
  <2> QED
    BY <1>1, <1>2, <2>1 DEF MountsOf
<1>3. CASE st[c] = "creating"
  <2>1. pc[c] \notin {"read", "share"} => Progress(c)'
    BY <1>3, ProgressStays, HookWork DEF MountsOf, Starting
  <2>2. Starting(c)'
    BY <1>3, <2>1 DEF MountsOf, Starting, Still, Kept, Bare, Empty
  <2> QED
    BY <1>1, <1>3, <2>2 DEF MountsOf
<1>4. CASE st[c] = "running"
  <2>1. Serving(c)
    BY <1>4 DEF MountsOf
  <2>2. \A p \in Command : (Working(p) /\ Cid(p) = c)' => Progress(p)'
    BY <2>1, ProgressStays, ActorTypes DEF Serving
  <2>3. flock'[c] = NoOne => Shared(c, file[c], {}) /\ Seen(c, file[c])
    BY <2>1 DEF Serving
  <2>4. flock'[c] = NoOne => Shared(c, file[c], {})' /\ Seen(c, file[c])'
    BY <2>3 DEF Shared, Seen, Still
  <2>5. Serving(c)'
    BY <2>1, <2>2, <2>4 DEF Serving, Still
  <2> QED
    BY <1>1, <1>4, <2>5 DEF MountsOf
<1>5. CASE st[c] = "stopping"
  <2>1. Stopping(c)'
    BY <1>5 DEF MountsOf, Stopping, Still, Kept, Bare, Empty, Left
  <2> QED
    BY <1>1, <1>5, <2>1 DEF MountsOf
<1>6. st[c] \in {"stopped", "creating", "running", "stopping"}
  BY DEF PathTypeOK, ContainersTypeOK
<1> QED
  BY <1>2, <1>3, <1>4, <1>5, <1>6

\* A step elsewhere, or one that only begins a command.
LEMMA MountsStay ==
  ASSUME PathTypeOK, NEW a \in Actor, StepOf(a), NEW c \in Container, a # c, Still(c), MountsOf(c),
         flock'[c] = NoOne => flock[c] = NoOne,
         a \in Command => ~ (Working(a) /\ Cid(a) = c)'
  PROVE  MountsOf(c)'
<1>1. Kept(c) /\ c \in Actor
  BY OthersKept, HookWork
<1>2. \A p \in Command : (Working(p) /\ Cid(p) = c)' => Kept(p) /\ Working(p) /\ Cid(p) = c
  <2> SUFFICES ASSUME NEW p \in Command, (Working(p) /\ Cid(p) = c)'
               PROVE  Kept(p) /\ Working(p) /\ Cid(p) = c
    OBVIOUS
  <2>1. Kept(p)
    BY OthersKept, ActorTypes
  <2> QED
    BY <2>1, ActorTypes DEF Kept, Working, Cid
<1> QED
  BY <1>1, <1>2, MountsFrame

\* What the hook of a container does keeps its mounts in order.
LEMMA HookMountsKept ==
  ASSUME PathTypeOK, FilesLoad, NEW c \in Container, StepOf(c), Lives(c), Owner(c), Apart(c),
         MountsOf(c), ~ disturbed'[c]
  PROVE  MountsOf(c)'
<1>1. ~ Crash(c) /\ disturbed \in [Container -> BOOLEAN]
  BY HookWork DEF Crash, Disturb, PathTypeOK, ContainersTypeOK
<1>2. CASE StartContainer(c) \/ StopContainer(c)
  <2>1. NoCommand(c)
    BY <1>1, <1>2 DEF StartContainer, StopContainer, Disturb, BusyOn, NoCommand
  <2>2. flock[c] = NoOne
    BY <2>1 DEF Owner, NoCommand, Working, Busy, PathTypeOK, ContainersTypeOK
  <2> QED
    BY <1>2, <2>2, StartStopKept
<1>3. CASE HookNext(c)
  <2>1. pc[c] # "idle"
    BY <1>3, HookWork
    DEF HookNext, ReadConfig, SharePath, HookFails, HookBind, HookSkips, HookBindsDone,
        RemoveMidDir, RemoveSpecDir, AbortStart, HookReturns, MountStep, PrepareMid,
        PrepareMaster, PrepareFails, AddBind, AddBindFails, ReleaseMid, ReleaseMaster
  <2>2. NoCommand(c)
    BY <2>1 DEF Apart, NoCommand
  <2>3. st[c] \in {"creating", "stopping"}
    BY <2>1 DEF Lives, PathTypeOK, ContainersTypeOK
  <2> QED
    BY <1>3, <2>2, <2>3, CreatingKept, StoppingKept DEF MountsOf
<1> QED
  BY <1>1, <1>2, <1>3, HookWork DEF StepOf

\* So does what anybody does.
LEMMA MountsKept ==
  ASSUME PathTypeOK, LoadInv, StoreInv, MountInv, NEW a \in Actor, StepOf(a),
         NEW c \in Container, ~ disturbed'[c]
  PROVE  MountsOf(c)'
<1>1. ~ disturbed[c] /\ Lives(c) /\ Owner(c) /\ Apart(c) /\ MountsOf(c) /\ FilesLoad
  BY Grows DEF MountInv, LoadInv
<1>2. /\ flock \in [Container -> Command \cup {NoOne}] /\ Cid(a) \in Container
      /\ disturbed \in [Container -> BOOLEAN]
  BY WorkTypes DEF PathTypeOK, ContainersTypeOK
<1>3. CASE a = c
  BY <1>1, <1>3, HookMountsKept
<1>4. CASE a \in Command /\ CommandNext(a) /\ Cid(a) = c
  <2>1. Busy(a)
    BY <1>4, CommandStaysBusy DEF Flush, Busy
  <2>2. st[c] \in {"stopped", "running"}
    BY <1>1, <1>4, <2>1 DEF Apart, Lives
  <2>3. UNCHANGED job /\ Cid(a)' = Cid(a)
    BY <1>4, CommandStaysBusy, ActorTypes DEF Flush, Cid
  <2>4. MountsOf(Cid(a))'
    BY <1>1, <1>4, <2>2, StoppedKept, ServingKept DEF Undisturbed
  <2> QED
    BY <1>4, <2>3, <2>4
<1>5. CASE a \in Command /\ \E r \in Requests : Begin(a, r)
  <2>1. Still(c) /\ flock' = flock
    BY <1>5 DEF Begin, Still, mountVars, ctrVars
  <2>2. ~ Working(a)'
    BY <1>5, WorkTypes DEF Begin, Goto, Working
  <2>3. a # c
    BY <1>5, ActorTypes
  <2> QED
    BY <1>1, <2>1, <2>2, <2>3, MountsStay
<1>6. CASE Crash(a) /\ Cid(a) = c
  BY <1>2, <1>6 DEF Crash, Disturb
<1>7. CASE Cid(a) # c /\ ~ (a \in Command /\ \E r \in Requests : Begin(a, r))
  <2>1. Still(c) /\ a # c
    BY <1>7, OthersStill, HookWork
  <2>2. flock'[c] = NoOne => flock[c] = NoOne
    <3>1. CASE a \in Command /\ CommandNext(a)
      BY <1>2, <1>7, <3>1, WorkStays DEF LockAndLoad, Flush, Unlocked
    <3>2. CASE a \in Container /\ HookNext(a)
      BY <3>2 DEF HookNext, ReadConfig, SharePath, HookFails, HookBind, HookSkips, HookBindsDone,
         RemoveMidDir, RemoveSpecDir, AbortStart, HookReturns, MountStep, PrepareMid,
         PrepareMaster, PrepareFails, AddBind, AddBindFails, ReleaseMid, ReleaseMaster
    <3>3. CASE Crash(a)
      <4>1. flock[c] # a
        <5>1. a \in Command => flock[c] # a
          BY <1>1, <1>7 DEF Owner
        <5> QED
          BY <1>2, <5>1, PathActorsAssumption DEF Actor
      <4> QED
        BY <1>2, <3>3, <4>1 DEF Crash
    <3> QED
      BY <1>7, <3>1, <3>2, <3>3 DEF StepOf, StartContainer, StopContainer
  <2>3. a \in Command => Cid(a)' = Cid(a)
    <3>1. ASSUME a \in Command PROVE UNCHANGED job
      BY <1>7, <3>1, CommandStaysBusy, ActorTypes DEF StepOf, Crash, Flush
    <3> QED
      BY <3>1, ActorTypes DEF Cid
  <2> QED
    BY <1>1, <1>7, <2>1, <2>2, <2>3, MountsStay
<1> QED
  BY <1>3, <1>4, <1>5, <1>6, <1>7, HookWork DEF StepOf, Actor

\* Every step keeps the invariant.
LEMMA MountInvKept ==
  ASSUME PathTypeOK, LoadInv, StoreInv, MountInv, Next
  PROVE  MountInv'
<1>1. PICK a \in Actor : StepOf(a)
  BY NextIsStep
<1>2. \A c \in Container : Lives(c)' /\ Owner(c)'
  BY <1>1, LivesKept, OwnerKept DEF MountInv
<1>3. ASSUME NEW c \in Container, ~ disturbed'[c]
      PROVE  Apart(c)' /\ MountsOf(c)'
  BY <1>1, <1>3, Grows, ApartKept, MountsKept DEF MountInv
<1> QED
  BY <1>2, <1>3 DEF MountInv

\* A container that runs at first has exactly its configuration mounted.
LEMMA FirstShared ==
  ASSUME NEW binds \in SUBSET Bind, Loadable(binds)
  PROVE  /\ \A b \in binds : Mounts(binds)[b.host] = b.perm
         /\ \A h \in HostPath : (\A b \in binds : b.host # h) => Mounts(binds)[h] = "none"
         /\ \A b \in binds : Binds(binds)[b.path] = <<Made(b.host)>>
         /\ \A q \in CtrPath : (\A b \in binds : b.path # q) => Binds(binds)[q] = <<>>
<1>1. ASSUME NEW b \in binds
      PROVE  Mounts(binds)[b.host] = b.perm
  <2>1. (CHOOSE e \in binds : e.host = b.host) \in binds
        /\ (CHOOSE e \in binds : e.host = b.host).host = b.host
    BY <1>1
  <2>2. (CHOOSE e \in binds : e.host = b.host).perm = b.perm
    BY <2>1 DEF Loadable
  <2> QED
    BY <2>2 DEF Mounts, Bind
<1>2. ASSUME NEW b \in binds
      PROVE  Binds(binds)[b.path] = <<Made(b.host)>>
  <2>1. (CHOOSE e \in binds : e.path = b.path) \in binds
        /\ (CHOOSE e \in binds : e.path = b.path).path = b.path
    BY <1>2
  <2>2. (CHOOSE e \in binds : e.path = b.path) = b
    BY <2>1 DEF Loadable
  <2> QED
    BY <2>2 DEF Binds, Bind
<1> QED
  BY <1>1, <1>2 DEF Mounts, Binds

LEMMA InitMountInv == Init => MountInv
<1> SUFFICES ASSUME Init PROVE MountInv
  OBVIOUS
<1>1. \A p \in Command : ~ Working(p) /\ ~ Busy(p)
  BY ActorTypes DEF Init, Working, Busy
<1>2. ASSUME NEW c \in Container PROVE Lives(c) /\ Owner(c) /\ Apart(c)
  <2>1. st[c] \in {"stopped", "running"} /\ pc[c] = "idle"
    BY PathsAssumption, ActorTypes DEF Init
  <2>2. inc[c] = (IF st[c] = "running" THEN 1 ELSE 0) /\ flock[c] = NoOne
    BY DEF Init
  <2> QED
    BY <1>1, <2>1, <2>2, ActorTypes, PathActorsAssumption DEF Lives, Owner, Apart
<1>3. ASSUME NEW c \in Container PROVE MountsOf(c)
  <2>1. st[c] \in {"stopped", "running"} /\ file[c] \in SUBSET Bind /\ Loadable(file[c])
    BY PathsAssumption DEF Init
  <2>2. CASE st[c] = "running"
    <3>1. /\ mid[c] = Mounts(file[c]) /\ master[c] = Mounts(file[c]) /\ base[c]
          /\ slave[c] = {b.host : b \in file[c]} /\ guest[c] = Binds(file[c])
      BY <2>2 DEF Init
    <3>2. Shared(c, file[c], {})
      BY <2>1, <3>1, FirstShared DEF Shared
    <3>3. Seen(c, file[c])
      <4>1. /\ \A b \in file[c] : Binds(file[c])[b.path] = <<Made(b.host)>>
            /\ \A q \in CtrPath : (\A b \in file[c] : b.path # q) => Binds(file[c])[q] = <<>>
        BY <2>1, FirstShared
      <4>2. /\ \A b \in file[c] : Shows(Binds(file[c])[b.path], b.host)
            /\ \A q \in CtrPath : (\A b \in file[c] : b.path # q) => HalfMade(Binds(file[c])[q])
        BY <4>1, OneMount
      <4> QED
        BY <3>1, <4>2 DEF Seen
    <3> QED
      BY <1>1, <2>2, <3>1, <3>2, <3>3 DEF MountsOf, Serving
  <2>3. CASE st[c] = "stopped"
    <3>1. /\ mid[c] = Mounts({}) /\ master[c] = Mounts({}) /\ guest[c] = Binds({})
          /\ slave[c] = {b.host : b \in {}}
      BY <2>3 DEF Init
    <3>2. Bare(c) /\ Empty(c)
      BY <3>1 DEF Mounts, Binds, Bare, Empty
    <3> QED
      BY <1>1, <2>3, <3>2 DEF MountsOf, Stopped
  <2> QED
    BY <2>1, <2>2, <2>3
<1> QED
  BY <1>2, <1>3 DEF MountInv

-----------------------------------------------------------------------------
(***************************************************************************)
(* The properties                                                          *)
(***************************************************************************)
\* MountInv always holds.
LEMMA AlwaysMountInv == Spec => []MountInv
<1>1. PathTypeOK /\ LoadInv /\ StoreInv /\ MountInv /\ [Next]_vars => MountInv'
  <2>1. ASSUME PathTypeOK, LoadInv, StoreInv, MountInv, Next PROVE MountInv'
    BY <2>1, MountInvKept
  <2>2. ASSUME PathTypeOK, MountInv, UNCHANGED vars PROVE MountInv'
    <3>1. UNCHANGED <<file, flock, st, inc, mid, master, base, slave, guest, pc, job, todo, cur,
                      cfg, dirty, disturbed>>
      BY <2>2 DEF vars, ctrVars, mountVars, memVars, envVars
    <3>2. \A c \in Container : Still(c)
      BY <3>1 DEF Still
    <3>3. \A a \in Actor : Kept(a) /\ (Working(a)' <=> Working(a)) /\ Cid(a)' = Cid(a)
      BY <2>2, <3>1 DEF Kept, Working, Cid, vars, memVars
    <3>4. \A c \in Container : MountsOf(c) => MountsOf(c)'
      BY <2>2, <3>1, <3>2, <3>3, ActorTypes, MountsFrame
    <3>5. \A c \in Container : Lives(c)' = Lives(c) /\ Owner(c)' = Owner(c) /\ Apart(c)' = Apart(c)
      BY <3>1 DEF Lives, Owner, Apart, Working, Busy, Cid
    <3> QED
      BY <2>2, <3>1, <3>4, <3>5 DEF MountInv
  <2> QED
    BY <2>1, <2>2
<1> QED
  BY <1>1, InitMountInv, PathTypesCorrect, AlwaysLoadInv, AlwaysStoreInv, PTL DEF Spec

\* The free lock of a container that nobody works on.
LEMMA QuietUnlocked ==
  ASSUME PathTypeOK, MountInv, NEW c \in Container, Quiet(c)
  PROVE  flock[c] = NoOne
  BY DEF MountInv, Owner, Quiet, BusyOn, Working, Busy, PathTypeOK, ContainersTypeOK

\* A host directory is mounted for as long as a bind in the configuration uses
\* it, at every step of every command on the container: the use counts of
\* UpdateBind, the roll back of AddPath and the release in RemovePath never take
\* it from another bind.
THEOREM UsedPathsStayShared == Spec => []SharedWhileUsed
<1>1. PathTypeOK /\ MountInv => SharedWhileUsed
  <2> SUFFICES ASSUME PathTypeOK, MountInv,
                      NEW c \in Container, st[c] = "running", ~ disturbed[c], NEW b \in file[c],
                      \A p \in Command : flock[c] = p => b \in cfg[p] \ {cur[p]}
               PROVE  Mounted(mid[c][b.host]) /\ Mounted(master[c][b.host]) /\ b.host \in slave[c]
    BY DEF SharedWhileUsed
  <2>1. Serving(c) /\ Owner(c) /\ b \in Bind /\ flock[c] \in Command \cup {NoOne}
    BY DEF MountInv, MountsOf, PathTypeOK, ContainersTypeOK
  <2>2. ASSUME NEW p \in Command, flock[c] = p
        PROVE  \E binds, but : Shared(c, binds, but) /\ b \in binds /\ b.host \notin but
    <3>1. Working(p) /\ Cid(p) = c /\ Progress(p) /\ Recorded(p) = cfg[p]
          /\ b \in cfg[p] /\ b # cur[p]
      BY <2>1, <2>2 DEF Owner, Serving, Recorded
    <3>2. CASE pc[p] \in {"each", "bind", "flush"}
      BY <3>1, <3>2 DEF Progress
    <3>3. CASE pc[p] \in {"mid", "master"}
      <4>1. /\ Shared(c, cfg[p] \ {cur[p]}, {cur[p].host}) /\ b \in cfg[p] \ {cur[p]}
            /\ b.host \notin {cur[p].host}
        BY <3>1, <3>3 DEF Progress
      <4> QED
        BY <4>1
    <3>4. CASE pc[p] = "unbind"
      <4>1. Shared(c, cfg[p] \cup {cur[p]}, {}) /\ b \in cfg[p] \cup {cur[p]}
        BY <3>1, <3>4 DEF Progress
      <4> QED
        BY <4>1
    <3>5. CASE pc[p] \in {"unmid", "unmaster"}
      <4>1. Shared(c, cfg[p], {cur[p].host}) /\ b.host \notin {cur[p].host}
        BY <3>1, <3>5 DEF Progress
      <4> QED
        BY <3>1, <4>1
    <3> QED
      BY <3>1, <3>2, <3>3, <3>4, <3>5 DEF Working
  <2>3. \E binds, but : Shared(c, binds, but) /\ b \in binds /\ b.host \notin but
    BY <2>1, <2>2 DEF Serving
  <2> QED
    BY <2>1, <2>3 DEF Shared, Mounted, Bind
<1> QED
  BY <1>1, AlwaysMountInv, PathTypesCorrect, PTL

\* After the stop hook no mount of the container is left (RemoveSharedPath).
THEOREM StopRemovesSharedPaths == Spec => []SharedPathsRemoved
<1>1. MountInv => SharedPathsRemoved
  BY DEF MountInv, MountsOf, Stopped, Bare, SharedPathsRemoved
<1> QED
  BY <1>1, AlwaysMountInv, PTL

\* Whenever nobody is at work, the host has the two mounts of each directory in
\* use and no other, each configured path of a running container shows its host
\* directory, once, and nothing else is mounted but what a failed doAddBind has
\* half made, whatever else has failed before.
THEOREM MountsAgree == Spec => []PathsAgree
<1>1. PathTypeOK /\ LoadInv /\ MountInv => PathsAgree
  <2> SUFFICES ASSUME PathTypeOK, LoadInv, MountInv,
                      NEW c \in Container, st[c] = "running", Quiet(c), ~ disturbed[c]
               PROVE  /\ \A b \in file[c] : mid[c][b.host] = b.perm /\ master[c][b.host] = b.perm
                      /\ \A h \in HostPath \ Used(c) : mid[c][h] = "none" /\ master[c][h] = "none"
                      /\ \A b \in file[c] : Shows(guest[c][b.path], b.host)
                      /\ \A q \in CtrPath : (\A b \in file[c] : b.path # q) => HalfMade(guest[c][q])
    BY DEF PathsAgree
  <2>1. Shared(c, file[c], {}) /\ Seen(c, file[c]) /\ Loadable(file[c])
    BY QuietUnlocked DEF MountInv, MountsOf, Serving, LoadInv, FilesLoad
  <2>2. \A b \in file[c] : mid[c][b.host] = b.perm /\ master[c][b.host] = b.perm
    BY <2>1 DEF Shared
  <2>3. \A h \in HostPath \ Used(c) : mid[c][h] = "none" /\ master[c][h] = "none"
    BY <2>1 DEF Shared, Used
  <2> QED
    BY <2>1, <2>2, <2>3 DEF Seen
<1> QED
  BY <1>1, AlwaysMountInv, AlwaysLoadInv, PathTypesCorrect, PTL

\* RemoveContainerSpecPath, os.RemoveAll over directories that have been mount
\* points, never runs over a mount: nothing that a user has shared is deleted.
THEOREM SharedDataSurvives == Spec => []HostDataKept
<1>1. Init => HostDataKept
  BY DEF Init, HostDataKept
<1>2. PathTypeOK /\ MountInv /\ HostDataKept /\ [Next]_vars => HostDataKept'
  <2>1. ASSUME PathTypeOK, MountInv, HostDataKept, Next, \A c \in Container : ~ disturbed'[c]
        PROVE  lost' = {}
    <3>1. PICK a \in Actor : StepOf(a)
      BY <2>1, NextIsStep
    <3>2. lost = {} /\ \A c \in Container : ~ disturbed[c] /\ Lives(c) /\ MountsOf(c)
      BY <2>1, <3>1, Grows DEF HostDataKept, MountInv
    <3>3. CASE a \in Container /\ (RemoveMidDir(a) \/ RemoveSpecDir(a))
      <4>1. pc[a] \in {"rmmid", "rmmaster"} /\ st[a] \in {"creating", "stopping"}
        BY <2>1, <3>2, <3>3
        DEF RemoveMidDir, RemoveSpecDir, Lives, PathTypeOK, ContainersTypeOK
      <4>2. Bare(a)
        BY <3>2, <3>3, <4>1 DEF MountsOf, Starting, Stopping
      <4>3. DeletedThrough(mid[a]) = {} /\ DeletedThrough(master[a]) = {}
        BY <4>2, PathsAssumption, PermsAssumption DEF Bare, DeletedThrough
      <4> QED
        BY <3>2, <3>3, <4>3 DEF RemoveMidDir, RemoveSpecDir
    <3>4. CASE a \in Container /\ HookNext(a) /\ ~ RemoveMidDir(a) /\ ~ RemoveSpecDir(a)
      <4>1. UNCHANGED lost
        BY <3>4 DEF HookNext, ReadConfig, SharePath, HookFails, HookBind, HookSkips, HookBindsDone,
           AbortStart, HookReturns, NamespaceGone, MountStep, PrepareMid, PrepareMaster,
           PrepareFails, AddBind, AddBindFails, ReleaseMid, ReleaseMaster, mountVars
      <4> QED
        BY <3>2, <4>1
    <3>5. CASE a \in Command /\ CommandNext(a)
      <4>1. UNCHANGED lost
        BY <2>1, <3>5, WorkStays DEF LockAndLoad, Flush, mountVars
      <4> QED
        BY <3>2, <4>1
    <3> QED
      BY <3>1, <3>2, <3>3, <3>4, <3>5
      DEF StepOf, Begin, StartContainer, StopContainer, NamespaceGone, Crash, mountVars
  <2>2. ASSUME HostDataKept, UNCHANGED vars PROVE HostDataKept'
    BY <2>2 DEF HostDataKept, vars, mountVars
  <2> QED
    BY <2>1, <2>2 DEF HostDataKept
<1> QED
  BY <1>1, <1>2, AlwaysMountInv, PathTypesCorrect, PTL DEF Spec

=============================================================================

-------------------------- MODULE DeviceToolsMappings --------------------------
(***************************************************************************)
(* The safety of DeviceTools, for any number of containers, commands and   *)
(* devices.                                                                *)
(*                                                                         *)
(* First, what its two locks guarantee: a lock belongs to the process that *)
(* is between taking and releasing it, whatever fails and whoever is       *)
(* killed, and hence no one but the holder of a lock ever comes across a   *)
(* half written file, or loses the rules of a container he does not serve. *)
(*                                                                         *)
(* Then the configuration: it stays a one to one mapping between host      *)
(* devices and paths, in the file and in the memory of every process,      *)
(* through every roll back, every renumbering by the start hook, every     *)
(* lost update and every kill.                                             *)
(*                                                                         *)
(* Last, what the hooks owe to this configuration: the start hook brings   *)
(* back every device it has loaded, and the stop hook withdraws the rules. *)
(***************************************************************************)
EXTENDS DeviceToolsTypes

-----------------------------------------------------------------------------
(***************************************************************************)
(* The locks                                                               *)
(***************************************************************************)
\* A hook runs exactly while iSulad starts or stops its container.
HookBusy ==
  \A c \in Container : pc[c] = "idle" <=> st[c] \in {"stopped", "running"}

LockInv == TypeInv /\ HookBusy /\ LocksHeld

-----------------------------------------------------------------------------
\* The processes that a step of a leaves alone are where they were.
Others(a) == \A b \in Actor \ {a} : pc'[b] = pc[b]

\* Goto moves one process.
LEMMA OthersStay ==
  ASSUME TypeInv, NEW a \in Actor, NEW l, Goto(a, l)
  PROVE  pc'[a] = l /\ Others(a)
  BY DEF TypeInv, TypeOK, StepsTypeOK, Goto, Others

\* A step that takes and releases no lock, of a process that stays on the same
\* side of its Lock and Unlock calls, keeps the owners right.
LEMMA LocksKept ==
  ASSUME LockInv, NEW a \in Actor, UNCHANGED <<flock, udevLock, job>>, Others(a),
         HoldsConfig(a)' <=> HoldsConfig(a), HoldsRules(a)' <=> HoldsRules(a)
  PROVE  LocksHeld'
<1>1. \A b \in Actor : /\ HoldsConfig(b)' <=> HoldsConfig(b)
                       /\ HoldsRules(b)' <=> HoldsRules(b)
                       /\ Cid(b)' = Cid(b)
  BY DEF Others, HoldsConfig, HoldsRules, Cid, Op
<1> QED
  BY <1>1 DEF LockInv, LocksHeld

\* A command that gives up does so without having taken a lock (the early
\* returns before c.Lock and of the first critical section of setDevicesPath).
LEMMA GiveUpLocks ==
  ASSUME LockInv, NEW p \in Command, GiveUp(p), pc[p] \in {"resolve", "lock"}
  PROVE  LocksHeld'
<1>1. p \in Actor /\ pc'[p] = "done" /\ Others(p)
  BY OthersStay DEF GiveUp, LockInv, Actor
<1> QED
  BY <1>1, LocksKept, ActorsAssumption DEF GiveUp, lockVars, HoldsConfig, HoldsRules, Actor

\* ToDisk and Flush are inside their critical sections, and each deferred Unlock
\* ends one of them, for commands and hooks alike.
LEMMA WriteLocks ==
  ASSUME LockInv, NEW a \in Actor, WriteStep(a)
  PROVE  LocksHeld'
<1>1. Cid(a) \in Container /\ NoOne \notin Actor /\ Command \cap Container = {}
  BY CidType, ActorsAssumption DEF LockInv
<1>2. CASE TruncateRules(a) \/ TruncateConfig(a)
  BY <1>1, <1>2, OthersStay, LocksKept
  DEF TruncateRules, TruncateConfig, LockInv, lockVars, HoldsConfig, HoldsRules, Op
<1>3. CASE UnlockUdev(a)
  <2>1. /\ pc[a] \in {"rwrite", "save"} /\ pc'[a] = AfterRules(a) /\ udevLock' = NoOne
        /\ Others(a) /\ UNCHANGED <<flock, job>>
    BY <1>3, OthersStay DEF UnlockUdev, RulesUnlocked, LockInv
  <2>2. HoldsRules(a) /\ ~ HoldsRules(a)' /\ (HoldsConfig(a)' <=> HoldsConfig(a))
    BY <1>1, <2>1 DEF HoldsRules, HoldsConfig, AfterRules, Op, Actor
  <2>3. \A b \in Actor \ {a} : /\ HoldsConfig(b)' <=> HoldsConfig(b)
                               /\ HoldsRules(b)' <=> HoldsRules(b)
    BY <2>1 DEF Others, HoldsConfig, HoldsRules, Op
  <2>4. \A b \in Actor : Cid(b)' = Cid(b)
    BY <2>1 DEF Cid
  <2> QED
    BY <1>1, <2>1, <2>2, <2>3, <2>4 DEF LockInv, LocksHeld
<1>4. CASE UnlockConfig(a)
  <2>1. /\ pc[a] \in {"fwrite", "flush"} /\ pc'[a] = "done"
        /\ flock' = [flock EXCEPT ![Cid(a)] = NoOne]
        /\ Others(a) /\ UNCHANGED <<udevLock, job>>
    BY <1>4, OthersStay DEF UnlockConfig, Unlocked, LockInv
  <2>2. HoldsConfig(a) /\ ~ HoldsConfig(a)' /\ ~ HoldsRules(a)' /\ ~ HoldsRules(a)
    BY <1>1, <2>1 DEF HoldsRules, HoldsConfig, Actor
  <2>3. \A b \in Actor \ {a} : /\ HoldsConfig(b)' <=> HoldsConfig(b)
                               /\ HoldsRules(b)' <=> HoldsRules(b)
    BY <2>1 DEF Others, HoldsConfig, HoldsRules, Op
  <2>4. \A b \in Actor : Cid(b)' = Cid(b)
    BY <2>1 DEF Cid
  <2>5. flock \in [Container -> Actor \cup {NoOne}]
    BY DEF LockInv, TypeInv, TypeOK, FilesTypeOK
  <2> QED
    BY <1>1, <2>1, <2>2, <2>3, <2>4, <2>5 DEF LockInv, LocksHeld
<1> QED
  BY <1>2, <1>3, <1>4 DEF WriteStep

\* Every step of a command keeps the owners right: c.Lock and its deferred
\* Unlock, udevdCtrl.Lock and its deferred Unlock, and all that is between.
LEMMA CommandLocks ==
  ASSUME LockInv, NEW p \in Command, CommandNext(p)
  PROVE  LocksHeld'
<1>1. p \in Actor /\ p \notin Container /\ Cid(p) \in Container
  BY CidType, ActorsAssumption DEF LockInv, Actor
<1>2. CASE ResolvePaths(p)
  <2>1. CASE GiveUp(p)
    BY <1>2, <2>1, GiveUpLocks DEF ResolvePaths
  <2>2. CASE ~ GiveUp(p)
    BY <1>1, <1>2, <2>2, OthersStay, LocksKept
    DEF ResolvePaths, LockInv, lockVars, HoldsConfig, HoldsRules, Op
  <2> QED
    BY <2>1, <2>2
<1>3. CASE Inspect(p)
  BY <1>1, <1>3, OthersStay, LocksKept
  DEF Inspect, LockInv, lockVars, Others,
      HoldsConfig, HoldsRules, Op
<1>4. CASE LockAndLoad(p)
  <2>1. CASE GiveUp(p)
    BY <1>4, <2>1, GiveUpLocks DEF LockAndLoad
  <2>2. CASE ~ GiveUp(p)
    <3>1. /\ flock[Cid(p)] = NoOne /\ flock' = [flock EXCEPT ![Cid(p)] = p]
          /\ pc[p] = "lock" /\ pc'[p] = IF Op(p) = "update" THEN "quota" ELSE "udev"
          /\ Others(p) /\ UNCHANGED <<udevLock, job>>
      BY <1>1, <1>4, <2>2, OthersStay DEF LockAndLoad, CanLock, LockInv
    <3>2. \A b \in Actor \ {p} : /\ HoldsConfig(b)' <=> HoldsConfig(b)
                                 /\ HoldsRules(b)' <=> HoldsRules(b)
      BY <3>1 DEF Others, HoldsConfig, HoldsRules, Op
    <3>3. ~ HoldsConfig(p) /\ HoldsConfig(p)' /\ ~ HoldsRules(p) /\ ~ HoldsRules(p)'
      BY <1>1, <3>1 DEF HoldsConfig, HoldsRules, Op
    <3>4. \A b \in Actor : Cid(b)' = Cid(b)
      BY <3>1 DEF Cid
    <3>5. flock \in [Container -> Actor \cup {NoOne}] /\ NoOne \notin Actor
      BY ActorsAssumption DEF LockInv, TypeInv, TypeOK, FilesTypeOK
    <3>6. \A b \in Actor \ {p}, c \in Container : flock'[c] = b <=> flock[c] = b
      BY <1>1, <3>1, <3>5
    <3>7. \A c \in Container : flock'[c] = p <=> c = Cid(p)
      BY <1>1, <3>1, <3>3, <3>5 DEF LockInv, LocksHeld
    <3>8. \A b \in Actor, c \in Container : flock'[c] = b <=> HoldsConfig(b)' /\ Cid(b)' = c
      BY <3>2, <3>3, <3>4, <3>6, <3>7 DEF LockInv, LocksHeld
    <3>9. \A b \in Actor : udevLock' = b <=> HoldsRules(b)'
      BY <3>1, <3>2, <3>3 DEF LockInv, LocksHeld
    <3> QED
      BY <3>8, <3>9 DEF LocksHeld
  <2> QED
    BY <2>1, <2>2
<1>5. CASE LockUdev(p)
  <2>1. /\ udevLock = NoOne /\ udevLock' = p /\ pc[p] = "udev" /\ pc'[p] = "each"
        /\ Others(p) /\ UNCHANGED <<flock, job>>
    BY <1>1, <1>5, OthersStay DEF LockUdev, CanLockRules, LockInv
  <2> QED
    BY <1>1, <2>1, ActorsAssumption
    DEF LockInv, LocksHeld, Others, HoldsConfig, HoldsRules, Op, Cid
<1>6. CASE EachDone(p)
  BY <1>1, <1>6, OthersStay, LocksKept
  DEF EachDone, LockInv, lockVars, Others,
      HoldsConfig, HoldsRules, Op
<1>7. CASE AddStep(p)
  <2>1. CASE \E d \in todo[p] : RefuseConflict(p, d) \/ RefuseUnknown(p, d)
    BY <1>1, <2>1, LocksKept
    DEF RefuseConflict, RefuseUnknown, lockVars, Others, HoldsConfig, HoldsRules, Op
  <2>2. CASE \E d \in todo[p] : RecordDevice(p, d)
    BY <1>1, <2>2, OthersStay, LocksKept
    DEF RecordDevice, LockInv, lockVars, Others, HoldsConfig, HoldsRules, Op
  <2>3. CASE Mknod(p) \/ Allow(p)
    BY <1>1, <2>3, OthersStay, LocksKept
    DEF Mknod, Allow, LockInv, lockVars, HoldsConfig, HoldsRules, Op
  <2>4. CASE MknodFails(p) \/ AllowFails(p)
    BY <1>1, <2>4, OthersStay, LocksKept
    DEF MknodFails, AllowFails, RollBack, LockInv, lockVars, HoldsConfig, HoldsRules, Op
  <2> QED
    BY <1>7, <2>1, <2>2, <2>3, <2>4 DEF AddStep
<1>8. CASE RemoveStep(p)
  <2>1. CASE \E d \in todo[p] : Unrecord(p, d)
    BY <1>1, <2>1, OthersStay, LocksKept
    DEF Unrecord, LockInv, lockVars, HoldsConfig, HoldsRules, Op
  <2>2. CASE Unlink(p) \/ UnlinkFails(p) \/ Deny(p)
    BY <1>1, <2>2, OthersStay, LocksKept
    DEF Unlink, UnlinkFails, Deny, LockInv, lockVars, HoldsConfig, HoldsRules, Op
  <2>3. CASE DenyFails(p) \/ ClearLimits(p) \/ ClearFails(p)
    BY <1>1, <2>3, OthersStay, LocksKept
    DEF DenyFails, ClearLimits, ClearFails, LockInv, lockVars, HoldsConfig, HoldsRules, Op
  <2> QED
    BY <1>8, <2>1, <2>2, <2>3 DEF RemoveStep
<1>9. CASE LimitStep(p)
  <2>1. CASE \E q \in quota[p] : SetLimit(p, q)
    BY <1>1, <2>1, LocksKept
    DEF SetLimit, lockVars, Others, HoldsConfig, HoldsRules, Op
  <2>2. CASE SetLimitFails(p) \/ LimitsDone(p)
    BY <1>1, <2>2, OthersStay, LocksKept
    DEF SetLimitFails, LimitsDone, AfterQuota, LockInv, lockVars, HoldsConfig, HoldsRules, Op
  <2> QED
    BY <1>9, <2>1, <2>2 DEF LimitStep
<1>10. CASE WriteStep(p)
  BY <1>1, <1>10, WriteLocks
<1> QED
  BY <1>2, <1>3, <1>4, <1>5, <1>6, <1>7, <1>8, <1>9, <1>10 DEF CommandNext

\* Every step of a hook does: it takes the lock of the rules for the devices
\* and the container lock only to write (updateHookData).
LEMMA HookLocks ==
  ASSUME LockInv, NEW c \in Container, HookNext(c)
  PROVE  LocksHeld'
<1>1. c \in Actor /\ c \notin Command /\ Cid(c) = c /\ NoOne \notin Actor
  BY ActorsAssumption DEF Cid, Actor
<1>2. CASE ReadConfig(c) \/ PrepareFails(c) \/ HookDevicesDone(c)
  BY <1>1, <1>2, OthersStay, LocksKept
  DEF ReadConfig, PrepareFails, HookDevicesDone, LockInv, lockVars, HoldsConfig, HoldsRules
<1>3. CASE HookLockUdev(c)
  <2>1. /\ udevLock = NoOne /\ udevLock' = c /\ pc[c] = "udev"
        /\ pc'[c] \in {"install", "withdraw"}
        /\ Others(c) /\ UNCHANGED <<flock, job>>
    BY <1>1, <1>3, OthersStay DEF HookLockUdev, CanLockRules, LockInv
  <2>2. \A b \in Actor \ {c} : /\ HoldsConfig(b)' <=> HoldsConfig(b)
                               /\ HoldsRules(b)' <=> HoldsRules(b)
    BY <2>1 DEF Others, HoldsConfig, HoldsRules, Op
  <2>3. ~ HoldsRules(c) /\ HoldsRules(c)' /\ ~ HoldsConfig(c) /\ ~ HoldsConfig(c)'
    BY <1>1, <2>1 DEF HoldsConfig, HoldsRules
  <2>4. \A b \in Actor : Cid(b)' = Cid(b)
    BY <2>1 DEF Cid
  <2> QED
    BY <1>1, <2>1, <2>2, <2>3, <2>4 DEF LockInv, LocksHeld
<1>4. CASE \E d \in todo[c] : Install(c, d) \/ WithdrawRule(c, d)
  BY <1>1, <1>4, LocksKept
  DEF Install, WithdrawRule, lockVars, Others, HoldsConfig, HoldsRules
<1>5. CASE \E d \in todo[c] : InstallFails(c, d) \/ WithdrawFails(c, d)
  BY <1>1, <1>5, OthersStay, LocksKept
  DEF InstallFails, WithdrawFails, LockInv, lockVars, HoldsConfig, HoldsRules
<1>6. CASE HookLimits(c) \/ HookLimitsFail(c)
  BY <1>1, <1>6, OthersStay, LocksKept
  DEF HookLimits, HookLimitsFail, LockInv, lockVars, HoldsConfig, HoldsRules
<1>7. CASE HookLock(c)
  <2>1. /\ flock[c] = NoOne /\ flock' = [flock EXCEPT ![c] = c]
        /\ pc[c] = "hlock" /\ pc'[c] = "flush"
        /\ Others(c) /\ UNCHANGED <<udevLock, job>>
    BY <1>1, <1>7, OthersStay DEF HookLock, CanLock, LockInv
  <2>2. \A b \in Actor \ {c} : /\ HoldsConfig(b)' <=> HoldsConfig(b)
                               /\ HoldsRules(b)' <=> HoldsRules(b)
    BY <2>1 DEF Others, HoldsConfig, HoldsRules, Op
  <2>3. ~ HoldsRules(c) /\ ~ HoldsRules(c)' /\ ~ HoldsConfig(c) /\ HoldsConfig(c)'
    BY <1>1, <2>1 DEF HoldsConfig, HoldsRules
  <2>4. \A b \in Actor : Cid(b)' = Cid(b)
    BY <2>1 DEF Cid
  <2>5. flock \in [Container -> Actor \cup {NoOne}]
    BY DEF LockInv, TypeInv, TypeOK, FilesTypeOK
  <2> QED
    BY <1>1, <2>1, <2>2, <2>3, <2>4, <2>5 DEF LockInv, LocksHeld
<1>8. CASE AbortStart(c) \/ HookReturns(c)
  BY <1>1, <1>8, OthersStay, LocksKept
  DEF AbortStart, HookReturns, LockInv, lockVars, HoldsConfig, HoldsRules
<1>9. CASE WriteStep(c)
  BY <1>1, <1>9, WriteLocks
<1> QED
  BY <1>2, <1>3, <1>4, <1>5, <1>6, <1>7, <1>8, <1>9 DEF HookNext

\* So does the environment: a new process has no lock, a hook starts only when
\* the one before it has returned, and the kernel releases the locks of a dead
\* process.
LEMMA EnvironmentLocks ==
  ASSUME LockInv, Environment
  PROVE  LocksHeld'
<1>1. ASSUME NEW p \in Command, NEW r \in Requests, Begin(p, r) PROVE LocksHeld'
  <2>1. p \in Actor /\ p \notin Container
    BY ActorsAssumption DEF Actor
  <2>2. /\ pc[p] = "idle" /\ pc'[p] \in {"inspect", "resolve"} /\ Others(p)
        /\ UNCHANGED <<flock, udevLock>>
        /\ \A b \in Command \ {p} : job'[b] = job[b]
    BY <1>1, <2>1, OthersStay DEF Begin, lockVars, LockInv, TypeInv, TypeOK, ProcessesTypeOK
  <2>3. \A b \in Actor \ {p} : /\ HoldsConfig(b)' <=> HoldsConfig(b)
                               /\ HoldsRules(b)' <=> HoldsRules(b)
                               /\ Cid(b)' = Cid(b)
    BY <2>2 DEF Others, HoldsConfig, HoldsRules, Op, Cid, Actor
  <2>4. ~ HoldsConfig(p) /\ ~ HoldsConfig(p)' /\ ~ HoldsRules(p) /\ ~ HoldsRules(p)'
    BY <2>1, <2>2 DEF HoldsConfig, HoldsRules
  <2> QED
    BY <2>2, <2>3, <2>4 DEF LockInv, LocksHeld
<1>2. ASSUME NEW c \in Container, StartContainer(c) \/ StopContainer(c) PROVE LocksHeld'
  <2>1. c \in Actor /\ c \notin Command /\ pc[c] = "idle"
    BY <1>2, ActorsAssumption DEF Actor, StartContainer, StopContainer, LockInv, HookBusy
  <2> QED
    BY <1>2, <2>1, OthersStay, LocksKept
    DEF StartContainer, StopContainer, LockInv, lockVars, HoldsConfig, HoldsRules
<1>3. ASSUME NEW a \in Actor, Crash(a) PROVE LocksHeld'
  <2>1. /\ pc'[a] \in {"abort", "done"} /\ Others(a) /\ UNCHANGED job
        /\ LocksReleased(a)
    BY <1>3, OthersStay DEF Crash, LockInv
  <2>2. \A b \in Actor \ {a} : /\ HoldsConfig(b)' <=> HoldsConfig(b)
                               /\ HoldsRules(b)' <=> HoldsRules(b)
    BY <2>1 DEF Others, HoldsConfig, HoldsRules, Op
  <2>3. ~ HoldsConfig(a)' /\ ~ HoldsRules(a)'
    BY <2>1 DEF HoldsConfig, HoldsRules
  <2>4. \A b \in Actor : Cid(b)' = Cid(b)
    BY <2>1 DEF Cid
  <2> QED
    BY <2>1, <2>2, <2>3, <2>4, ActorsAssumption DEF LocksReleased, LockInv, LocksHeld
<1>4. ASSUME NEW h \in HostDev, NEW n \in Numbers \cup {0}, Plug(h, n) PROVE LocksHeld'
  BY <1>4 DEF Plug, procVars, lockVars, LockInv, LocksHeld, HoldsConfig, HoldsRules, Op, Cid
<1> QED
  BY <1>1, <1>2, <1>3, <1>4 DEF Environment

\* Only StartContainer, StopContainer, AbortStart and HookReturns change what
\* iSulad is doing, each with its hook.
LEMMA HookBusyKept ==
  ASSUME LockInv, Next
  PROVE  HookBusy'
<1> USE DEF LockInv, HookBusy
<1>1. \A c \in Container : c \in Actor /\ c \notin Command
  BY ActorsAssumption DEF Actor
<1>2. \A p \in Command : p \in Actor /\ p \notin Container
  BY ActorsAssumption DEF Actor
<1>3. ASSUME NEW a \in Actor, Others(a), UNCHANGED st,
             (pc[a] # "idle" /\ pc'[a] # "idle") \/ a \in Command
      PROVE  HookBusy'
  BY <1>1, <1>3 DEF Others
<1>4. ASSUME NEW a \in Actor, WriteStep(a) PROVE HookBusy'
  <2>1. Others(a) /\ UNCHANGED st /\ pc[a] # "idle" /\ pc'[a] # "idle"
    BY <1>4, OthersStay DEF WriteStep, TruncateRules, UnlockUdev, TruncateConfig, UnlockConfig,
       AfterRules, ctrVars
  <2> QED
    BY <1>3, <2>1
<1>5. ASSUME NEW p \in Command, CommandNext(p) PROVE HookBusy'
  <2>1. Others(p) /\ UNCHANGED st
    BY <1>2, <1>5, OthersStay
    DEF CommandNext, ResolvePaths, Inspect, LockAndLoad, LockUdev, GiveUp, AddStep, RemoveStep,
        EachDone, LimitStep, WriteStep, RefuseConflict, RefuseUnknown, RecordDevice, Mknod,
        MknodFails, Allow, AllowFails, RollBack, Unrecord, Unlink, UnlinkFails, Deny, DenyFails,
        ClearLimits, ClearFails, SetLimit, SetLimitFails, LimitsDone, TruncateRules, UnlockUdev,
        TruncateConfig, UnlockConfig, ctrVars, Others
  <2> QED
    BY <1>2, <1>3, <2>1
<1>6. ASSUME NEW c \in Container, HookNext(c) PROVE HookBusy'
  <2>1. CASE AbortStart(c) \/ HookReturns(c)
    <3>1. /\ Others(c) /\ pc[c] # "idle" /\ \A b \in Container \ {c} : st'[b] = st[b]
          /\ pc'[c] = "idle" <=> st'[c] \in {"stopped", "running"}
      BY <1>1, <2>1, OthersStay DEF AbortStart, HookReturns, TypeInv, TypeOK, ContainersTypeOK
    <3> QED
      BY <1>1, <3>1 DEF Others
  <2>2. CASE WriteStep(c)
    BY <1>1, <1>4, <2>2
  <2>3. CASE ~ (AbortStart(c) \/ HookReturns(c) \/ WriteStep(c))
    <3>1. Others(c) /\ UNCHANGED st /\ pc[c] # "idle" /\ pc'[c] # "idle"
      <4>1. CASE \E d \in todo[c] : \/ Install(c, d) \/ InstallFails(c, d)
                                    \/ WithdrawRule(c, d) \/ WithdrawFails(c, d)
        BY <1>1, <4>1, OthersStay
        DEF Install, InstallFails, WithdrawRule, WithdrawFails, ctrVars, Others
      <4>2. CASE \/ ReadConfig(c) \/ PrepareFails(c) \/ HookLockUdev(c) \/ HookDevicesDone(c)
                 \/ HookLimits(c) \/ HookLimitsFail(c) \/ HookLock(c)
        BY <1>1, <4>2, OthersStay
        DEF ReadConfig, PrepareFails, HookLockUdev, HookDevicesDone, HookLimits, HookLimitsFail,
            HookLock, ctrVars, Others
      <4> QED
        BY <1>6, <2>3, <4>1, <4>2 DEF HookNext
    <3> QED
      BY <1>1, <1>3, <3>1
  <2> QED
    BY <2>1, <2>2, <2>3
<1>7. CASE Environment
  <2>1. ASSUME NEW p \in Command, NEW r \in Requests, Begin(p, r) PROVE HookBusy'
    BY <1>2, <1>3, <2>1, OthersStay DEF Begin, ctrVars
  <2>2. ASSUME NEW c \in Container, StartContainer(c) \/ StopContainer(c) PROVE HookBusy'
    <3>1. /\ Others(c) /\ \A b \in Container \ {c} : st'[b] = st[b]
          /\ pc'[c] = "read" /\ st'[c] \in {"creating", "stopping"}
      BY <1>1, <2>2, OthersStay
      DEF StartContainer, StopContainer, TypeInv, TypeOK, ContainersTypeOK
    <3> QED
      BY <1>1, <3>1 DEF Others
  <2>3. ASSUME NEW a \in Actor, Crash(a) PROVE HookBusy'
    BY <1>3, <2>3, OthersStay DEF Crash, ctrVars
  <2>4. ASSUME NEW h \in HostDev, NEW n \in Numbers \cup {0}, Plug(h, n) PROVE HookBusy'
    BY <2>4 DEF Plug, ctrVars, procVars
  <2> QED
    BY <1>7, <2>1, <2>2, <2>3, <2>4 DEF Environment
<1> QED
  BY <1>5, <1>6, <1>7 DEF Next

\* At first no process runs and no lock is taken.
LEMMA InitLocks == Init => LockInv
<1> SUFFICES ASSUME Init PROVE LockInv
  OBVIOUS
<1>1. HookBusy
  BY EnvironmentAssumption DEF Init, HookBusy, Actor
<1>2. LocksHeld
  BY ActorsAssumption DEF Init, LocksHeld, HoldsConfig, HoldsRules
<1> QED
  BY <1>1, <1>2, InitType DEF LockInv

\* The invariant of the locks is inductive.
LEMMA LockInvKept ==
  ASSUME LockInv, [Next]_vars
  PROVE  LockInv'
<1>1. TypeInv'
  BY TypeKept DEF LockInv
<1>2. CASE Next
  BY <1>1, <1>2, CommandLocks, HookLocks, EnvironmentLocks, HookBusyKept DEF Next, LockInv
<1>3. CASE UNCHANGED vars
  BY <1>1, <1>3 DEF LockInv, HookBusy, LocksHeld, HoldsConfig, HoldsRules, Cid, Op,
     vars, lockVars, ctrVars, procVars
<1> QED
  BY <1>2, <1>3

\* A lock belongs to the process between its Lock and its Unlock and to no
\* other: mutual exclusion, and no lock that outlives its owner.
THEOREM LocksAreHeld == Spec => []LocksHeld
<1>1. LockInv => LocksHeld
  BY DEF LockInv
<1> QED
  BY InitLocks, LockInvKept, <1>1, PTL DEF Spec

-----------------------------------------------------------------------------
\* Only the write of a file and the death of a process touch what is half
\* written: all other steps leave the files, and whoever writes one, alone.
LEMMA OthersDoNotWrite ==
  ASSUME LockInv, Next, \A a \in Actor : ~ WriteStep(a) /\ ~ Crash(a)
  PROVE  /\ UNCHANGED <<file, torn, rules, rulesTorn, crashes>>
         /\ \A a \in Actor : pc[a] \in {"rwrite", "fwrite"} =>
               pc'[a] = pc[a] /\ Cid(a)' = Cid(a)
<1> USE DEF LockInv
<1> DEFINE Writing(a) == pc[a] \in {"rwrite", "fwrite"}
<1>1. \A p \in Command : p \in Actor /\ p \notin Container
  BY ActorsAssumption DEF Actor
<1>2. \A c \in Container : c \in Actor /\ c \notin Command
  BY ActorsAssumption DEF Actor
<1>3. ASSUME NEW a \in Actor, Others(a), ~ Writing(a), UNCHANGED job
      PROVE  \A b \in Actor : Writing(b) => pc'[b] = pc[b] /\ Cid(b)' = Cid(b)
  BY <1>3 DEF Others, Cid
<1>4. ASSUME NEW p \in Command, CommandNext(p)
      PROVE  UNCHANGED <<fileVars, ruleVars, crashes, job>>
  BY <1>1, <1>4
  DEF CommandNext, ResolvePaths, Inspect, LockAndLoad, LockUdev, GiveUp, AddStep, RemoveStep,
      EachDone, LimitStep, RefuseConflict, RefuseUnknown, RecordDevice, Mknod,
      MknodFails, Allow, AllowFails, Unrecord, Unlink, UnlinkFails, Deny, DenyFails,
      ClearLimits, ClearFails, SetLimit, SetLimitFails, LimitsDone, envVars
<1>5. ASSUME NEW p \in Command, CommandNext(p) PROVE Others(p) /\ ~ Writing(p)
  BY <1>1, <1>5, OthersStay
  DEF CommandNext, ResolvePaths, Inspect, LockAndLoad, LockUdev, GiveUp, AddStep, RemoveStep,
      EachDone, LimitStep, RefuseConflict, RefuseUnknown, RecordDevice, Mknod,
      MknodFails, Allow, AllowFails, RollBack, Unrecord, Unlink, UnlinkFails, Deny, DenyFails,
      ClearLimits, ClearFails, SetLimit, SetLimitFails, LimitsDone, Others
<1>6. ASSUME NEW c \in Container, HookNext(c)
      PROVE  UNCHANGED <<fileVars, ruleVars, crashes, job>> /\ Others(c) /\ ~ Writing(c)
  BY <1>2, <1>6, OthersStay
  DEF HookNext, ReadConfig, PrepareFails, HookLockUdev, Install, InstallFails, WithdrawRule,
      WithdrawFails, HookDevicesDone, HookLimits, HookLimitsFail, HookLock, AbortStart,
      HookReturns, envVars, Others
<1>7. ASSUME NEW p \in Command, NEW r \in Requests, Begin(p, r)
      PROVE  /\ UNCHANGED <<fileVars, ruleVars, crashes>>
             /\ \A b \in Actor : Writing(b) => pc'[b] = pc[b] /\ Cid(b)' = Cid(b)
  <2>1. /\ UNCHANGED <<fileVars, ruleVars, crashes>> /\ Others(p) /\ pc[p] = "idle"
        /\ \A b \in Command \ {p} : job'[b] = job[b]
    BY <1>1, <1>7, OthersStay DEF Begin, envVars, TypeInv, TypeOK, ProcessesTypeOK
  <2> QED
    BY <1>1, <2>1 DEF Others, Cid, Actor
<1>8. ASSUME NEW c \in Container, StartContainer(c) \/ StopContainer(c)
      PROVE  UNCHANGED <<fileVars, ruleVars, crashes, job>> /\ Others(c) /\ ~ Writing(c)
  BY <1>2, <1>8, OthersStay DEF StartContainer, StopContainer, HookBusy, envVars
<1>9. ASSUME NEW h \in HostDev, NEW n \in Numbers \cup {0}, Plug(h, n)
      PROVE  UNCHANGED <<fileVars, ruleVars, crashes, job, pc>>
  BY <1>9 DEF Plug, procVars
<1>10. CASE \E p \in Command : CommandNext(p)
  BY <1>1, <1>3, <1>4, <1>5, <1>10 DEF fileVars, ruleVars, envVars
<1>11. CASE \E c \in Container : HookNext(c)
  BY <1>2, <1>3, <1>6, <1>11 DEF fileVars, ruleVars
<1>12. CASE Environment
  BY <1>2, <1>3, <1>7, <1>8, <1>9, <1>12 DEF Environment, fileVars, ruleVars, Cid
<1> QED
  BY <1>10, <1>11, <1>12 DEF Next

\* The writer of a half written file keeps its lock until it has completed it.
LEMMA TornKept ==
  ASSUME LockInv, LockInv', TornOnlyWhileWritten, [Next]_vars
  PROVE  TornOnlyWhileWritten'
<1> DEFINE ConfigTorn == \A c \in Container : torn[c] /\ crashes = 0 =>
                            \E a \in Actor : flock[c] = a /\ Cid(a) = c /\ pc[a] = "fwrite"
           RulesTorn == rulesTorn => \E a \in Actor : udevLock = a /\ pc[a] = "rwrite"
<1>1. /\ \A a \in Actor, c \in Container : pc'[a] = "fwrite" /\ Cid(a)' = c => flock'[c] = a
      /\ \A a \in Actor : pc'[a] = "rwrite" => udevLock' = a
  BY DEF LockInv, LocksHeld, HoldsConfig, HoldsRules
<1>2. ConfigTorn /\ RulesTorn
  BY DEF TornOnlyWhileWritten
<1>3. \A a \in Actor : Cid(a) \in Container
  BY CidType DEF LockInv
<1>4. torn \in [Container -> BOOLEAN] /\ crashes \in Nat
  BY DEF LockInv, TypeInv, TypeOK, FilesTypeOK, EnvironmentTypeOK
<1> HIDE DEF ConfigTorn, RulesTorn
<1>5. ASSUME NEW a \in Actor, TruncateRules(a) PROVE ConfigTorn' /\ RulesTorn'
  <2>1. Others(a) /\ pc'[a] = "rwrite" /\ pc[a] = "save" /\ UNCHANGED <<torn, crashes, job>>
    BY <1>5, OthersStay DEF TruncateRules, LockInv, fileVars, envVars
  <2>2. \A b \in Actor : Cid(b)' = Cid(b)
    BY <2>1 DEF Cid
  <2> QED
    BY <1>1, <1>2, <2>1, <2>2 DEF ConfigTorn, RulesTorn, Others
<1>6. ASSUME NEW a \in Actor, UnlockUdev(a) PROVE ConfigTorn' /\ RulesTorn'
  <2>1. Others(a) /\ pc[a] # "fwrite" /\ rulesTorn' = FALSE /\ UNCHANGED <<torn, crashes, job>>
    BY <1>6, OthersStay DEF UnlockUdev, LockInv, fileVars, envVars
  <2>2. \A b \in Actor : Cid(b)' = Cid(b)
    BY <2>1 DEF Cid
  <2> QED
    BY <1>1, <1>2, <2>1, <2>2 DEF ConfigTorn, RulesTorn, Others
<1>7. ASSUME NEW a \in Actor, TruncateConfig(a) PROVE ConfigTorn' /\ RulesTorn'
  <2>1. /\ Others(a) /\ pc'[a] = "fwrite" /\ pc[a] = "flush"
        /\ torn' = [torn EXCEPT ![Cid(a)] = TRUE] /\ UNCHANGED <<rulesTorn, crashes, job>>
    BY <1>7, OthersStay DEF TruncateConfig, LockInv, ruleVars, envVars
  <2>2. \A b \in Actor : Cid(b)' = Cid(b)
    BY <2>1 DEF Cid
  <2> QED
    BY <1>1, <1>2, <1>3, <1>4, <2>1, <2>2 DEF ConfigTorn, RulesTorn, Others
<1>8. ASSUME NEW a \in Actor, UnlockConfig(a) PROVE ConfigTorn' /\ RulesTorn'
  <2>1. /\ Others(a) /\ pc[a] # "rwrite" /\ UNCHANGED <<rulesTorn, crashes, job>>
        /\ torn' = IF pc[a] = "fwrite" THEN [torn EXCEPT ![Cid(a)] = FALSE] ELSE torn
    BY <1>8, OthersStay DEF UnlockConfig, LockInv, ruleVars, envVars
  <2>2. \A b \in Actor : Cid(b)' = Cid(b)
    BY <2>1 DEF Cid
  <2> QED
    BY <1>1, <1>2, <1>3, <1>4, <2>1, <2>2 DEF ConfigTorn, RulesTorn, Others
<1>9. ASSUME NEW a \in Actor, Crash(a) PROVE ConfigTorn' /\ RulesTorn'
  <2>1. Others(a) /\ crashes' # 0 /\ (pc[a] = "rwrite" => ~ rulesTorn')
        /\ (pc[a] # "rwrite" => rulesTorn' = rulesTorn)
    BY <1>4, <1>9, OthersStay DEF Crash, LockInv, ruleVars
  <2> QED
    BY <1>1, <1>2, <2>1 DEF ConfigTorn, RulesTorn, Others
<1>10. CASE Next /\ \A a \in Actor : ~ WriteStep(a) /\ ~ Crash(a)
  <2>1. /\ UNCHANGED <<torn, rulesTorn, crashes>>
        /\ \A a \in Actor : pc[a] \in {"rwrite", "fwrite"} =>
              pc'[a] = pc[a] /\ Cid(a)' = Cid(a)
    BY <1>10, OthersDoNotWrite
  <2>2. ConfigTorn'
    BY <1>1, <1>2, <2>1 DEF ConfigTorn
  <2>3. RulesTorn'
    BY <1>1, <1>2, <2>1 DEF RulesTorn
  <2> QED
    BY <2>2, <2>3 DEF TornOnlyWhileWritten, ConfigTorn, RulesTorn
<1>11. CASE UNCHANGED vars
  <2>1. UNCHANGED <<torn, rulesTorn, crashes, flock, udevLock, pc, job>>
    BY <1>11 DEF vars, fileVars, ruleVars, lockVars, envVars, procVars
  <2>2. \A a \in Actor : Cid(a)' = Cid(a)
    BY <2>1 DEF Cid
  <2> QED
    BY <1>2, <2>1, <2>2 DEF TornOnlyWhileWritten, ConfigTorn, RulesTorn
<1> QED
  BY <1>5, <1>6, <1>7, <1>8, <1>9, <1>10, <1>11
  DEF WriteStep, ConfigTorn, RulesTorn, TornOnlyWhileWritten

\* A file that is half written is locked by its writer, so a command, which
\* loads under the lock, reads only whole files (unless a process was killed).
THEOREM NothingTornUnlocked == Spec => []TornOnlyWhileWritten
<1>1. Init => LockInv /\ TornOnlyWhileWritten
  BY InitLocks DEF Init, TornOnlyWhileWritten
<1>2. LockInv /\ TornOnlyWhileWritten /\ [Next]_vars => (LockInv /\ TornOnlyWhileWritten)'
  BY LockInvKept, TornKept
<1> QED
  BY <1>1, <1>2, PTL DEF Spec

-----------------------------------------------------------------------------
(***************************************************************************)
(* The udev rules of all containers are in one file, which every command   *)
(* and every hook loads, changes and writes back as a whole.  None of them *)
(* loses or alters a rule of a container that it does not work for.        *)
(***************************************************************************)
Foreign(rs, c) == {r \in rs : r.cid # c}

\* What is in the file survives being saved again, and whoever holds the lock
\* of the rules has in memory what the file has of the other containers.
RulesInv ==
  /\ \A r \in rules : BaseName[r.name] = r.name
  /\ \A a \in Actor : HoldsRules(a) => Foreign(rcopy[a], Cid(a)) = Foreign(rules, Cid(a))

IsolationInv == LockInv /\ RulesInv

-----------------------------------------------------------------------------
\* Saving keeps the container of a rule, and a rule that was loaded.
LEMMA SavedForeign ==
  ASSUME NEW rs, NEW c, \A r \in Foreign(rs, c) : BaseName[r.name] = r.name,
         rs \in SUBSET Rule
  PROVE  /\ Foreign(Saved(rs), c) = Foreign(rs, c)
         /\ \A r \in Saved(rs) : BaseName[r.name] = r.name
<1> DEFINE based(r) == [r EXCEPT !.name = BaseName[r.name]]
<1>1. \A r \in rs : /\ based(r).cid = r.cid
                    /\ BaseName[based(r).name] = based(r).name
                    /\ BaseName[r.name] = r.name => based(r) = r
  BY DevicesAssumption DEF Rule
<1>2. Saved(rs) = {based(r) : r \in rs}
  BY DEF Saved
<1> HIDE DEF based
<1>3. \A r \in rs : r.cid # c => based(r) = r
  BY <1>1 DEF Foreign
<1>4. Foreign(Saved(rs), c) \subseteq Foreign(rs, c)
  BY <1>1, <1>2, <1>3 DEF Foreign
<1>5. Foreign(rs, c) \subseteq Foreign(Saved(rs), c)
  BY <1>1, <1>2, <1>3 DEF Foreign
<1> QED
  BY <1>1, <1>2, <1>4, <1>5

\* AddRule and RemoveRule with a rule of the process's own container.
LEMMA OwnRule ==
  ASSUME TypeInv, NEW a \in Actor, NEW d,
         \/ AddRule(a, RuleOf(d, Cid(a))) \/ RemoveRule(a, RuleOf(d, Cid(a))) \/ KeepRules
  PROVE  /\ Foreign(rcopy'[a], Cid(a)) = Foreign(rcopy[a], Cid(a))
         /\ \A b \in Actor \ {a} : rcopy'[b] = rcopy[b]
<1>1. rcopy \in [Actor -> SUBSET Rule]
  BY DEF TypeInv, TypeOK, ProcessesTypeOK
<1> QED
  BY <1>1 DEF AddRule, RemoveRule, KeepRules, RuleOf, Foreign

\* A step of one process that touches neither the file nor the lock and, while
\* the process holds the lock, keeps what it has of the other containers.
LEMMA CopiesStay ==
  ASSUME IsolationInv, LockInv', NEW a \in Actor, UNCHANGED <<rules, udevLock>>,
         \A b \in Actor : HoldsRules(b) => Cid(b)' = Cid(b),
         \A b \in Actor \ {a} : rcopy'[b] = rcopy[b],
         HoldsRules(a)' => Foreign(rcopy'[a], Cid(a)) = Foreign(rcopy[a], Cid(a))
  PROVE  RulesInv'
<1>1. \A b \in Actor : HoldsRules(b)' <=> HoldsRules(b)
  BY DEF IsolationInv, LockInv, LocksHeld
<1> QED
  BY <1>1 DEF IsolationInv, RulesInv

\* Taking the lock of the rules, by a command or a hook.
LEMMA LockedRules ==
  ASSUME IsolationInv, LockInv', NEW a \in Actor, UNCHANGED rules, udevLock' = a,
         rcopy' = [rcopy EXCEPT ![a] = rules], Cid(a)' = Cid(a)
  PROVE  RulesInv'
<1>1. \A b \in Actor : HoldsRules(b)' => b = a
  BY DEF LockInv, LocksHeld
<1>2. rcopy'[a] = rules
  BY DEF IsolationInv, LockInv, TypeInv, TypeOK, ProcessesTypeOK
<1> QED
  BY <1>1, <1>2 DEF IsolationInv, RulesInv

-----------------------------------------------------------------------------
\* Every step of a command but the writes.
LEMMA CommandRules ==
  ASSUME IsolationInv, LockInv', NEW p \in Command, CommandNext(p), ~ WriteStep(p)
  PROVE  RulesInv' /\ UNCHANGED rules
<1>1. p \in Actor /\ TypeInv /\ LockInv
  BY DEF Actor, IsolationInv, LockInv
<1>2. CASE LockUdev(p)
  <2>1. /\ UNCHANGED <<rules, job>> /\ udevLock' = p /\ rcopy' = [rcopy EXCEPT ![p] = rules]
    BY <1>2 DEF LockUdev, ruleVars
  <2>2. Cid(p)' = Cid(p)
    BY <2>1 DEF Cid
  <2> QED
    BY <1>1, <2>1, <2>2, LockedRules
<1>3. CASE ~ LockUdev(p)
  <2>1. UNCHANGED <<rules, udevLock, job>>
    BY <1>3
    DEF CommandNext, ResolvePaths, Inspect, LockAndLoad, GiveUp, AddStep, RemoveStep,
        EachDone, LimitStep, RefuseConflict, RefuseUnknown, RecordDevice, Mknod,
        MknodFails, Allow, AllowFails, Unrecord, Unlink, UnlinkFails, Deny, DenyFails,
        ClearLimits, ClearFails, SetLimit, SetLimitFails, LimitsDone, lockVars, ruleVars
  <2>2. \A b \in Actor : Cid(b)' = Cid(b)
    BY <2>1 DEF Cid
  <2>3. CASE GiveUp(p)
    <3>1. ~ HoldsRules(p)' /\ \A b \in Actor \ {p} : rcopy'[b] = rcopy[b]
      BY <1>1, <2>3, OthersStay
      DEF GiveUp, Forget, HoldsRules, TypeInv, TypeOK, ProcessesTypeOK
    <3> QED
      BY <1>1, <2>1, <2>2, <3>1, CopiesStay
  <2>4. CASE ~ GiveUp(p)
    <3>1. \/ UNCHANGED rcopy
          \/ \E d : \/ AddRule(p, RuleOf(d, Cid(p))) \/ RemoveRule(p, RuleOf(d, Cid(p)))
                    \/ KeepRules
      BY <1>3, <2>4
      DEF CommandNext, ResolvePaths, Inspect, LockAndLoad, AddStep, RemoveStep,
          EachDone, LimitStep, RefuseConflict, RefuseUnknown, RecordDevice, Mknod,
          MknodFails, Allow, AllowFails, RollBack, Unrecord, Unlink, UnlinkFails, Deny,
          DenyFails, ClearLimits, ClearFails, SetLimit, SetLimitFails, LimitsDone
    <3>2. /\ Foreign(rcopy'[p], Cid(p)) = Foreign(rcopy[p], Cid(p))
          /\ \A b \in Actor \ {p} : rcopy'[b] = rcopy[b]
      BY <1>1, <3>1, OwnRule
    <3> QED
      BY <1>1, <2>1, <2>2, <3>2, CopiesStay
  <2> QED
    BY <2>3, <2>4
<1> QED
  BY <1>2, <1>3

\* Every step of a hook but the writes.
LEMMA HookRules ==
  ASSUME IsolationInv, LockInv', NEW c \in Container, HookNext(c), ~ WriteStep(c)
  PROVE  RulesInv' /\ UNCHANGED rules
<1>1. c \in Actor /\ Cid(c) = c /\ TypeInv /\ LockInv
  BY DEF Actor, Cid, IsolationInv, LockInv
<1>2. CASE HookLockUdev(c)
  <2>1. /\ UNCHANGED rules /\ udevLock' = c /\ rcopy' = [rcopy EXCEPT ![c] = rules]
    BY <1>2 DEF HookLockUdev, ruleVars
  <2>2. Cid(c)' = Cid(c)
    BY DEF Cid
  <2> QED
    BY <1>1, <2>1, <2>2, LockedRules
<1>3. CASE ~ HookLockUdev(c)
  <2>1. UNCHANGED <<rules, udevLock, job>>
    BY <1>3
    DEF HookNext, ReadConfig, PrepareFails, Install, InstallFails, WithdrawRule,
        WithdrawFails, HookDevicesDone, HookLimits, HookLimitsFail, HookLock, AbortStart,
        HookReturns, lockVars, ruleVars
  <2>2. \A b \in Actor : Cid(b)' = Cid(b)
    BY <2>1 DEF Cid
  <2>3. CASE AbortStart(c) \/ HookReturns(c)
    <3>1. ~ HoldsRules(c)' /\ \A b \in Actor \ {c} : rcopy'[b] = rcopy[b]
      BY <1>1, <2>3, OthersStay, ActorsAssumption
      DEF AbortStart, HookReturns, Forget, HoldsRules, TypeInv, TypeOK, ProcessesTypeOK
    <3> QED
      BY <1>1, <2>1, <2>2, <3>1, CopiesStay
  <2>4. CASE ~ (AbortStart(c) \/ HookReturns(c))
    <3>1. \/ UNCHANGED rcopy
          \/ \E d : \/ AddRule(c, RuleOf(d, Cid(c))) \/ RemoveRule(c, RuleOf(d, Cid(c)))
                    \/ KeepRules
      BY <1>1, <1>3, <2>4
      DEF HookNext, ReadConfig, PrepareFails, Install, InstallFails, WithdrawRule,
          WithdrawFails, HookDevicesDone, HookLimits, HookLimitsFail, HookLock
    <3>2. /\ Foreign(rcopy'[c], Cid(c)) = Foreign(rcopy[c], Cid(c))
          /\ \A b \in Actor \ {c} : rcopy'[b] = rcopy[b]
      BY <1>1, <3>1, OwnRule
    <3> QED
      BY <1>1, <2>1, <2>2, <3>2, CopiesStay
  <2> QED
    BY <2>3, <2>4
<1> QED
  BY <1>2, <1>3

\* ToDisk replaces the rules of one container only.
LEMMA SavedRules ==
  ASSUME IsolationInv, LockInv', NEW a \in Actor, TruncateRules(a)
  PROVE  /\ RulesInv' /\ udevLock = a
         /\ \A c \in Container \ {Cid(a)} : RulesOf(c)' = RulesOf(c)
<1>1. /\ HoldsRules(a) /\ udevLock = a
      /\ rules' = Saved(rcopy[a]) /\ UNCHANGED <<udevLock, rcopy, job>>
  BY DEF TruncateRules, HoldsRules, lockVars, IsolationInv, LockInv, LocksHeld
<1>2. Foreign(rcopy[a], Cid(a)) = Foreign(rules, Cid(a)) /\ Cid(a)' = Cid(a)
  BY <1>1 DEF IsolationInv, RulesInv, Cid
<1>3. rcopy[a] \in SUBSET Rule /\ \A r \in Foreign(rules, Cid(a)) : BaseName[r.name] = r.name
  BY DEF IsolationInv, RulesInv, LockInv, TypeInv, TypeOK, ProcessesTypeOK, Foreign
<1>4. /\ Foreign(rules', Cid(a)) = Foreign(rules, Cid(a))
      /\ \A r \in rules' : BaseName[r.name] = r.name
  BY <1>1, <1>2, <1>3, SavedForeign
<1>5. \A b \in Actor : HoldsRules(b)' => b = a
  BY <1>1 DEF LockInv, LocksHeld
<1>6. RulesInv'
  BY <1>1, <1>2, <1>4, <1>5 DEF RulesInv
<1> QED
  BY <1>1, <1>4, <1>6 DEF RulesOf, Foreign

\* The other writes leave the rules alone.
LEMMA OtherWrites ==
  ASSUME IsolationInv, LockInv', NEW a \in Actor,
         UnlockUdev(a) \/ TruncateConfig(a) \/ UnlockConfig(a)
  PROVE  RulesInv' /\ UNCHANGED rules
<1>1. UNCHANGED <<rules, job>>
  BY DEF UnlockUdev, TruncateConfig, UnlockConfig, ruleVars
<1>2. \A b \in Actor \ {a} : rcopy'[b] = rcopy[b]
  BY DEF UnlockUdev, TruncateConfig, UnlockConfig, Forget,
     IsolationInv, LockInv, TypeInv, TypeOK, ProcessesTypeOK
<1>3. \A b \in Actor : Cid(b)' = Cid(b)
  BY <1>1 DEF Cid
<1>4. CASE UnlockUdev(a)
  <2>1. \A b \in Actor : ~ HoldsRules(b)'
    BY <1>4, ActorsAssumption DEF UnlockUdev, RulesUnlocked, LockInv, LocksHeld
  <2> QED
    BY <1>1, <2>1 DEF IsolationInv, RulesInv
<1>5. CASE TruncateConfig(a)
  <2>1. UNCHANGED <<udevLock, rcopy>>
    BY <1>5 DEF TruncateConfig, lockVars
  <2> QED
    BY <1>1, <1>3, <2>1, CopiesStay
<1>6. CASE UnlockConfig(a)
  <2>1. UNCHANGED udevLock /\ ~ HoldsRules(a)'
    BY <1>6, OthersStay DEF UnlockConfig, HoldsRules, IsolationInv, LockInv
  <2> QED
    BY <1>1, <1>2, <1>3, <2>1, CopiesStay
<1> QED
  BY <1>1, <1>4, <1>5, <1>6

\* A new process has no rules in memory; the death of a process can only lose
\* rules.
LEMMA EnvironmentRules ==
  ASSUME IsolationInv, LockInv', Environment
  PROVE  RulesInv' /\ (crashes' = crashes => UNCHANGED rules)
<1>1. TypeInv /\ LockInv
  BY DEF IsolationInv, LockInv
<1>2. ASSUME NEW p \in Command, NEW r \in Requests, Begin(p, r)
      PROVE  RulesInv' /\ UNCHANGED rules
  <2>1. /\ p \in Actor /\ pc[p] = "idle" /\ UNCHANGED <<rules, udevLock, rcopy>>
        /\ \A b \in Command \ {p} : job'[b] = job[b]
    BY <1>1, <1>2 DEF Begin, ruleVars, lockVars, Actor, TypeInv, TypeOK, ProcessesTypeOK
  <2>2. ~ HoldsRules(p)
    BY <2>1 DEF HoldsRules
  <2>3. \A b \in Actor : HoldsRules(b) => Cid(b)' = Cid(b)
    BY <2>1, <2>2 DEF Cid, Actor
  <2> QED
    BY <2>1, <2>3, CopiesStay
<1>3. ASSUME NEW c \in Container, StartContainer(c) \/ StopContainer(c)
      PROVE  RulesInv' /\ UNCHANGED rules
  <2>1. c \in Actor /\ UNCHANGED <<rules, udevLock, rcopy, job>>
    BY <1>3 DEF StartContainer, StopContainer, ruleVars, lockVars, Actor
  <2>2. \A b \in Actor : Cid(b)' = Cid(b)
    BY <2>1 DEF Cid
  <2> QED
    BY <2>1, <2>2, CopiesStay
<1>4. ASSUME NEW a \in Actor, Crash(a) PROVE RulesInv' /\ crashes' # crashes
  <2>1. /\ crashes' # crashes /\ UNCHANGED job
        /\ \A b \in Actor \ {a} : rcopy'[b] = rcopy[b]
        /\ rules' \subseteq rules /\ (pc[a] # "rwrite" => rules' = rules)
        /\ udevLock' = IF udevLock = a THEN NoOne ELSE udevLock
    BY <1>1, <1>4 DEF Crash, LocksReleased, Forget, ruleVars, TypeInv, TypeOK, ProcessesTypeOK,
       EnvironmentTypeOK
  <2>2. \A b \in Actor : Cid(b)' = Cid(b)
    BY <2>1 DEF Cid
  <2>3. \A b \in Actor : HoldsRules(b)' => b # a /\ HoldsRules(b)
    BY <1>1, <2>1, ActorsAssumption DEF LockInv, LocksHeld
  <2>4. pc[a] = "rwrite" => udevLock = a
    BY <1>1 DEF LockInv, LocksHeld, HoldsRules
  <2>5. \A b \in Actor : HoldsRules(b)' => rules' = rules
    BY <1>1, <2>1, <2>3, <2>4 DEF LockInv, LocksHeld
  <2> QED
    BY <2>1, <2>2, <2>3, <2>5 DEF IsolationInv, RulesInv
<1>5. ASSUME NEW h \in HostDev, NEW n \in Numbers \cup {0}, Plug(h, n)
      PROVE  RulesInv' /\ UNCHANGED rules
  BY <1>5 DEF Plug, ruleVars, procVars, IsolationInv, RulesInv, HoldsRules, Op, Cid
<1> QED
  BY <1>2, <1>3, <1>4, <1>5 DEF Environment

\* Nobody is at work at first.
LEMMA InitRules == Init => IsolationInv
<1>1. Init => RulesInv
  BY DEF Init, RulesInv, HoldsRules
<1> QED
  BY <1>1, InitLocks DEF IsolationInv

\* One step: the invariant is kept, and the rules of a container change only
\* by a process that works for it and holds the lock.
LEMMA RulesStep ==
  ASSUME IsolationInv, [Next]_vars
  PROVE  /\ IsolationInv'
         /\ crashes' = crashes =>
              \A c \in Container :
                RulesOf(c)' # RulesOf(c) => \E a \in Actor : udevLock = a /\ Cid(a) = c
<1>1. LockInv'
  BY LockInvKept DEF IsolationInv
<1>2. ASSUME UNCHANGED rules PROVE \A c \in Container : RulesOf(c)' = RulesOf(c)
  BY <1>2 DEF RulesOf
<1>3. ASSUME NEW a \in Actor, WriteStep(a)
      PROVE  /\ RulesInv'
             /\ \A c \in Container :
                  RulesOf(c)' # RulesOf(c) => udevLock = a /\ Cid(a) = c
  <2>1. CASE TruncateRules(a)
    BY <1>1, <2>1, SavedRules
  <2>2. CASE UnlockUdev(a) \/ TruncateConfig(a) \/ UnlockConfig(a)
    BY <1>1, <1>2, <2>2, OtherWrites
  <2> QED
    BY <1>3, <2>1, <2>2 DEF WriteStep
<1>4. CASE \E p \in Command : CommandNext(p)
  BY <1>1, <1>2, <1>3, <1>4, CommandRules DEF Actor, IsolationInv
<1>5. CASE \E c \in Container : HookNext(c)
  BY <1>1, <1>2, <1>3, <1>5, HookRules DEF Actor, IsolationInv
<1>6. CASE Environment
  BY <1>1, <1>2, <1>6, EnvironmentRules DEF IsolationInv
<1>7. CASE UNCHANGED vars
  <2>1. UNCHANGED <<rules, rcopy, pc, job>>
    BY <1>7 DEF vars, ruleVars, procVars
  <2>2. RulesInv'
    BY <2>1 DEF IsolationInv, RulesInv, HoldsRules, Op, Cid
  <2> QED
    BY <1>1, <1>2, <2>1, <2>2 DEF IsolationInv
<1> QED
  BY <1>4, <1>5, <1>6, <1>7 DEF Next

\* No command and no hook loses or alters a rule of another container, in any
\* interleaving (LoadRules, AddRule, RemoveRule, ToDisk).
THEOREM OthersRulesSurvive == Spec => RulesIsolated
<1>1. IsolationInv /\ [Next]_vars => IsolationInv'
  BY RulesStep
<1>2. IsolationInv /\ [Next]_vars =>
        [crashes' = crashes =>
           \A c \in Container :
             RulesOf(c)' # RulesOf(c) => \E a \in Actor : udevLock = a /\ Cid(a) = c]_vars
  BY RulesStep
<1> QED
  BY InitRules, <1>1, <1>2, PTL DEF Spec, RulesIsolated

-----------------------------------------------------------------------------
(***************************************************************************)
(* The configuration                                                       *)
(***************************************************************************)
\* The start hook brings back devices of the configuration it has loaded.
Installing ==
  \A c \in Container : pc[c] = "install" => todo[c] \subseteq cfg[c].devices

MappingInv == TypeInv /\ WellFormed /\ Installing

-----------------------------------------------------------------------------
\* UpdateDevice adds a device only if neither of its names is taken.
LEMMA WithDeviceOneToOne ==
  ASSUME NEW config \in Config, NEW d \in Mapping, OneToOne(config)
  PROVE  OneToOne(WithDevice(config, d))
<1>1. CASE Conflicts(config, d)
  BY <1>1 DEF WithDevice
<1>2. CASE ~ Conflicts(config, d)
  <2>1. WithDevice(config, d).devices = config.devices \cup {d}
    BY <1>2 DEF WithDevice, Config
  <2>2. \A e \in config.devices : ~ Clash(e, d) /\ ~ Clash(d, e)
    BY <1>2 DEF Conflicts, Clash
  <2>3. SamePair(d, d)
    BY DEF SamePair
  <2> QED
    BY <2>1, <2>2, <2>3 DEF OneToOne
<1> QED
  BY <1>1, <1>2

\* UpdateDevice and RemoveDeviceQos take away, UpdateDeviceQos and
\* UpdateQosDevNum leave the mappings alone.
LEMMA OthersOneToOne ==
  ASSUME NEW config \in Config, OneToOne(config)
  PROVE  /\ \A d : OneToOne(WithoutDevice(config, d))
         /\ \A old : OneToOne(WithoutLimits(config, old))
         /\ \A q : OneToOne(WithLimit(config, q))
         /\ \A num : OneToOne(LimitsRenumbered(config, num))
<1>1. ASSUME NEW d PROVE OneToOne(WithoutDevice(config, d))
  BY DEF WithoutDevice, OneToOne, Config
<1>2. ASSUME NEW old PROVE OneToOne(WithoutLimits(config, old))
  BY DEF WithoutLimits, OneToOne, Config
<1>3. ASSUME NEW q PROVE OneToOne(WithLimit(config, q))
  <2>1. WithLimit(config, q).devices = config.devices
    BY DEF WithLimit, Config
  <2> QED
    BY <2>1 DEF OneToOne
<1>4. ASSUME NEW num PROVE OneToOne(LimitsRenumbered(config, num))
  BY DEF LimitsRenumbered, OneToOne, Config
<1> QED
  BY <1>1, <1>2, <1>3, <1>4

\* AddDevices gives a configured device its new number in place.
LEMMA RenumberedOneToOne ==
  ASSUME NEW config \in Config, NEW d \in config.devices, NEW n \in Nat, OneToOne(config)
  PROVE  /\ OneToOne(Renumbered(config, d, n))
         /\ config.devices \ {d} \subseteq Renumbered(config, d, n).devices
<1> DEFINE new == [d EXCEPT !.num = n]
<1>1. Renumbered(config, d, n).devices = (config.devices \ {d}) \cup {new}
  BY DEF Renumbered, Config
<1>2. new.host = d.host /\ new.path = d.path
  BY DEF Config, Mapping
<1>3. \A e \in config.devices \ {d} : ~ Clash(e, new) /\ ~ Clash(new, e)
  BY <1>2 DEF OneToOne, Clash
<1>4. SamePair(new, new)
  BY DEF SamePair
<1> HIDE DEF new
<1> QED
  BY <1>1, <1>3, <1>4 DEF OneToOne

\* A container without a file has the empty configuration.
LEMMA EmptyOneToOne == OneToOne(EmptyConfig)
  BY DEF OneToOne, EmptyConfig

-----------------------------------------------------------------------------
\* A step that writes no file and gives one process a good configuration.
LEMMA WellFormedKept ==
  ASSUME MappingInv, NEW a \in Actor, NEW config, OneToOne(config),
         cfg' = [cfg EXCEPT ![a] = config] \/ cfg' = cfg, UNCHANGED file
  PROVE  WellFormed'
  BY DEF MappingInv, WellFormed, TypeInv, TypeOK, ProcessesTypeOK

\* A command works on its own memory and never on that of a hook.
LEMMA CommandKeepsInstalling ==
  ASSUME MappingInv, NEW p \in Command,
         \A c \in Container : pc'[c] = pc[c] /\ todo'[c] = todo[c] /\ cfg'[c] = cfg[c]
  PROVE  Installing'
  BY DEF MappingInv, Installing

\* A command changes nothing of a hook's.
LEMMA HooksUntouched ==
  ASSUME MappingInv, NEW p \in Command, CommandNext(p)
  PROVE  \A c \in Container : pc'[c] = pc[c] /\ todo'[c] = todo[c] /\ cfg'[c] = cfg[c]
<1>1. p \notin Container /\ \A c \in Container : c \in Actor /\ c # p
  BY ActorsAssumption DEF Actor
<1>2. /\ DOMAIN pc = Actor /\ DOMAIN todo = Actor /\ DOMAIN cfg = Actor
  BY DEF MappingInv, TypeInv, TypeOK, StepsTypeOK, ProcessesTypeOK
<1>3. CASE AddStep(p)
  BY <1>1, <1>2, <1>3
  DEF AddStep, RefuseConflict, RefuseUnknown, RecordDevice, Mknod, MknodFails, Allow,
      AllowFails, RollBack, Take, Record, Goto
<1>4. CASE RemoveStep(p)
  BY <1>1, <1>2, <1>4
  DEF RemoveStep, Unrecord, Unlink, UnlinkFails, Deny, DenyFails, ClearLimits, ClearFails,
      Take, Record, Goto
<1>5. CASE ~ AddStep(p) /\ ~ RemoveStep(p)
  BY <1>1, <1>2, <1>5
  DEF CommandNext, ResolvePaths, Inspect, LockAndLoad, LockUdev, GiveUp, EachDone, LimitStep,
      WriteStep, SetLimit, SetLimitFails, LimitsDone, TruncateRules, UnlockUdev,
      TruncateConfig, UnlockConfig, Record, Forget, Goto
<1> QED
  BY <1>3, <1>4, <1>5

\* Writing back puts a good configuration into the file.
LEMMA WriteWellFormed ==
  ASSUME MappingInv, NEW a \in Actor, WriteStep(a)
  PROVE  WellFormed'
<1>1. CASE TruncateConfig(a)
  BY <1>1 DEF TruncateConfig, MappingInv, WellFormed, TypeInv, TypeOK, FilesTypeOK
<1>2. CASE UnlockConfig(a)
  BY <1>2, WellFormedKept, EmptyOneToOne DEF UnlockConfig, Forget
<1>3. CASE TruncateRules(a) \/ UnlockUdev(a)
  BY <1>3, WellFormedKept, EmptyOneToOne DEF TruncateRules, UnlockUdev, fileVars
<1> QED
  BY <1>1, <1>2, <1>3 DEF WriteStep

\* Every step of a command keeps the mappings one to one.
LEMMA CommandWellFormed ==
  ASSUME MappingInv, NEW p \in Command, CommandNext(p)
  PROVE  WellFormed'
<1>1. /\ p \in Actor /\ cfg[p] \in Config /\ OneToOne(cfg[p])
      /\ file[Cid(p)] \in Config /\ OneToOne(file[Cid(p)])
  BY CidType DEF Actor, MappingInv, WellFormed, TypeInv, TypeOK, FilesTypeOK, ProcessesTypeOK
<1>2. CASE ResolvePaths(p) \/ Inspect(p) \/ LockAndLoad(p) \/ LockUdev(p) \/ EachDone(p)
  BY <1>1, <1>2, WellFormedKept, EmptyOneToOne
  DEF ResolvePaths, Inspect, LockAndLoad, LockUdev, EachDone, GiveUp, Forget, fileVars
<1>3. CASE AddStep(p)
  <2>1. CASE \E d \in todo[p] : RefuseConflict(p, d) \/ RefuseUnknown(p, d)
    BY <1>1, <2>1, WellFormedKept DEF RefuseConflict, RefuseUnknown, fileVars
  <2>2. ASSUME NEW d \in todo[p], RecordDevice(p, d) PROVE WellFormed'
    <3>1. d \in Mapping
      BY <1>1, <2>2 DEF RecordDevice, MappingInv, TypeInv, DevicesKnown, Known
    <3>2. OneToOne(WithDevice(cfg[p], d))
      BY <1>1, <3>1, WithDeviceOneToOne
    <3> QED
      BY <1>1, <2>2, <3>2, WellFormedKept DEF RecordDevice, Record, fileVars
  <2>3. CASE Mknod(p) \/ Allow(p)
    BY <1>1, <2>3, WellFormedKept DEF Mknod, Allow, fileVars
  <2>4. CASE MknodFails(p) \/ AllowFails(p)
    <3>1. OneToOne(WithoutDevice(cfg[p], cur[p]))
      BY <1>1, OthersOneToOne
    <3> QED
      BY <1>1, <2>4, <3>1, WellFormedKept DEF MknodFails, AllowFails, RollBack, Record, fileVars
  <2> QED
    BY <1>3, <2>1, <2>2, <2>3, <2>4 DEF AddStep
<1>4. CASE RemoveStep(p)
  <2>1. \A d, old : /\ OneToOne(WithoutDevice(cfg[p], d))
                    /\ OneToOne(WithoutLimits(cfg[p], old))
    BY <1>1, OthersOneToOne
  <2>2. CASE \E d \in todo[p] : Unrecord(p, d)
    BY <1>1, <2>1, <2>2, WellFormedKept DEF Unrecord, Record, fileVars
  <2>3. CASE Unlink(p) \/ Deny(p) \/ DenyFails(p)
    BY <1>1, <2>3, WellFormedKept DEF Unlink, Deny, DenyFails, fileVars
  <2>4. CASE UnlinkFails(p)
    <3>1. cur[p] \in Mapping
      BY <1>1, <2>4 DEF UnlinkFails, MappingInv, TypeInv, DevicesKnown, Known
    <3>2. OneToOne(WithDevice(cfg[p], cur[p]))
      BY <1>1, <3>1, WithDeviceOneToOne
    <3> QED
      BY <1>1, <2>4, <3>2, WellFormedKept DEF UnlinkFails, Record, fileVars
  <2>5. CASE ClearLimits(p) \/ ClearFails(p)
    BY <1>1, <2>1, <2>5, WellFormedKept DEF ClearLimits, ClearFails, fileVars
  <2> QED
    BY <1>4, <2>2, <2>3, <2>4, <2>5 DEF RemoveStep
<1>5. CASE LimitStep(p)
  <2>1. \A q : OneToOne(WithLimit(cfg[p], q))
    BY <1>1, OthersOneToOne
  <2> QED
    BY <1>1, <1>5, <2>1, WellFormedKept
    DEF LimitStep, SetLimit, SetLimitFails, LimitsDone, fileVars
<1>6. CASE WriteStep(p)
  BY <1>1, <1>6, WriteWellFormed
<1> QED
  BY <1>2, <1>3, <1>4, <1>5, <1>6 DEF CommandNext

-----------------------------------------------------------------------------
\* A step of one hook that does not leave it in AddDevices.
LEMMA NotInstalling ==
  ASSUME MappingInv, NEW c \in Container, pc'[c] # "install",
         \A b \in Container \ {c} : pc'[b] = pc[b] /\ todo'[b] = todo[b] /\ cfg'[b] = cfg[b]
  PROVE  Installing'
  BY DEF MappingInv, Installing

\* AddDevices, device by device, and the other steps of the hooks.
LEMMA HookMappings ==
  ASSUME MappingInv, NEW c \in Container, HookNext(c)
  PROVE  WellFormed' /\ Installing'
<1>1. /\ c \in Actor /\ Cid(c) = c /\ cfg[c] \in Config /\ OneToOne(cfg[c])
      /\ file[c] \in Config /\ OneToOne(file[c]) /\ \A b \in Container : b \in Actor
  BY DEF Actor, Cid, MappingInv, WellFormed, TypeInv, TypeOK, FilesTypeOK, ProcessesTypeOK
<1>2. /\ pc \in [Actor -> CommandStep \cup HookStep] /\ todo \in [Actor -> SUBSET Device]
      /\ cfg \in [Actor -> Config]
  BY DEF MappingInv, TypeInv, TypeOK, StepsTypeOK, ProcessesTypeOK
<1>3. CASE ReadConfig(c) \/ PrepareFails(c) \/ HookDevicesDone(c) \/ HookLock(c)
  <2>1. WellFormed'
    BY <1>1, <1>3, WellFormedKept
    DEF ReadConfig, PrepareFails, HookDevicesDone, HookLock, fileVars
  <2>2. Installing'
    BY <1>1, <1>2, <1>3, NotInstalling
    DEF ReadConfig, PrepareFails, HookDevicesDone, HookLock, Goto
  <2> QED
    BY <2>1, <2>2
<1>4. CASE HookLockUdev(c)
  BY <1>1, <1>2, <1>4, WellFormedKept
  DEF HookLockUdev, Goto, fileVars, MappingInv, Installing
<1>5. ASSUME NEW d \in todo[c], Install(c, d) PROVE WellFormed' /\ Installing'
  <2> DEFINE new == Renumbered(cfg[c], d, hostNum[d.host])
  <2>1. d \in cfg[c].devices /\ todo[c] \subseteq cfg[c].devices
    BY <1>5 DEF Install, MappingInv, Installing
  <2>2. hostNum[d.host] \in Nat
    BY <1>1, <2>1, ConfigTypes DEF MappingInv, TypeInv, TypeOK, EnvironmentTypeOK, Mapping
  <2>3. OneToOne(new) /\ cfg[c].devices \ {d} \subseteq new.devices
    BY <1>1, <2>1, <2>2, RenumberedOneToOne
  <2>4. /\ cfg' = [cfg EXCEPT ![c] = new] /\ todo' = [todo EXCEPT ![c] = @ \ {d}]
        /\ UNCHANGED <<pc, file>>
    BY <1>5 DEF Install, Take, fileVars
  <2> HIDE DEF new
  <2>5. WellFormed'
    BY <1>1, <2>3, <2>4, WellFormedKept
  <2>6. Installing'
    BY <1>1, <1>2, <2>1, <2>3, <2>4 DEF MappingInv, Installing
  <2> QED
    BY <2>5, <2>6
<1>6. CASE \E d \in todo[c] : InstallFails(c, d) \/ WithdrawRule(c, d) \/ WithdrawFails(c, d)
  <2>1. WellFormed'
    BY <1>1, <1>6, WellFormedKept DEF InstallFails, WithdrawRule, WithdrawFails, fileVars
  <2>2. Installing'
    BY <1>1, <1>2, <1>6, NotInstalling DEF InstallFails, WithdrawRule, WithdrawFails, Take, Goto
  <2> QED
    BY <2>1, <2>2
<1>7. CASE HookLimits(c) \/ HookLimitsFail(c)
  <2>1. WellFormed'
    BY <1>1, <1>7, WellFormedKept, OthersOneToOne DEF HookLimits, HookLimitsFail, fileVars
  <2>2. Installing'
    BY <1>1, <1>2, <1>7, NotInstalling DEF HookLimits, HookLimitsFail, Goto
  <2> QED
    BY <2>1, <2>2
<1>8. CASE AbortStart(c) \/ HookReturns(c)
  <2>1. WellFormed'
    BY <1>1, <1>8, WellFormedKept, EmptyOneToOne DEF AbortStart, HookReturns, Forget, fileVars
  <2>2. Installing'
    BY <1>1, <1>2, <1>8, NotInstalling DEF AbortStart, HookReturns, Forget, Goto
  <2> QED
    BY <2>1, <2>2
<1>9. CASE WriteStep(c)
  <2>1. Installing'
    BY <1>1, <1>2, <1>9, NotInstalling
    DEF WriteStep, TruncateRules, UnlockUdev, TruncateConfig, UnlockConfig, AfterRules, Forget, Goto
  <2> QED
    BY <1>1, <1>9, <2>1, WriteWellFormed
<1> QED
  BY <1>3, <1>4, <1>5, <1>6, <1>7, <1>8, <1>9 DEF HookNext

\* A process that starts, is killed or is started by iSulad has an empty memory.
LEMMA EnvironmentMappings ==
  ASSUME MappingInv, Environment
  PROVE  WellFormed' /\ Installing'
<1>1. /\ pc \in [Actor -> CommandStep \cup HookStep] /\ todo \in [Actor -> SUBSET Device]
      /\ cfg \in [Actor -> Config] /\ \A b \in Container : b \in Actor /\ b \notin Command
      /\ \A p \in Command : p \in Actor
  BY ActorsAssumption DEF MappingInv, TypeInv, TypeOK, StepsTypeOK, ProcessesTypeOK, Actor
<1>2. ASSUME NEW p \in Command, NEW r \in Requests, Begin(p, r) PROVE WellFormed' /\ Installing'
  <2>1. WellFormed'
    BY <1>1, <1>2, WellFormedKept, EmptyOneToOne DEF Begin, fileVars
  <2>2. Installing'
    BY <1>1, <1>2, CommandKeepsInstalling DEF Begin, Goto
  <2> QED
    BY <2>1, <2>2
<1>3. ASSUME NEW c \in Container, StartContainer(c) \/ StopContainer(c)
      PROVE  WellFormed' /\ Installing'
  <2>1. WellFormed'
    BY <1>1, <1>3, WellFormedKept, EmptyOneToOne DEF StartContainer, StopContainer, fileVars
  <2>2. Installing'
    BY <1>1, <1>3, NotInstalling DEF StartContainer, StopContainer, Goto
  <2> QED
    BY <2>1, <2>2
<1>4. ASSUME NEW a \in Actor, Crash(a) PROVE WellFormed' /\ Installing'
  <2>1. WellFormed'
    BY <1>4, WellFormedKept, EmptyOneToOne DEF Crash, Forget, fileVars
  <2>2. Installing'
    BY <1>1, <1>4 DEF Crash, Forget, Goto, MappingInv, Installing
  <2> QED
    BY <2>1, <2>2
<1>5. ASSUME NEW h \in HostDev, NEW n \in Numbers \cup {0}, Plug(h, n)
      PROVE  WellFormed' /\ Installing'
  BY <1>5 DEF Plug, procVars, fileVars, MappingInv, WellFormed, Installing
<1> QED
  BY <1>2, <1>3, <1>4, <1>5 DEF Environment

\* At first there is nothing to map.
LEMMA InitMappings == Init => MappingInv
<1> SUFFICES ASSUME Init PROVE MappingInv
  OBVIOUS
<1>1. WellFormed
  BY EmptyOneToOne DEF Init, WellFormed
<1>2. Installing
  BY DEF Init, Installing, Actor
<1> QED
  BY <1>1, <1>2, InitType DEF MappingInv

\* The invariant of the mappings is inductive.
LEMMA MappingInvKept ==
  ASSUME MappingInv, [Next]_vars
  PROVE  MappingInv'
<1>1. TypeInv'
  BY TypeKept DEF MappingInv
<1>2. CASE \E p \in Command : CommandNext(p)
  BY <1>1, <1>2, CommandWellFormed, HooksUntouched, CommandKeepsInstalling DEF MappingInv
<1>3. CASE \E c \in Container : HookNext(c)
  BY <1>1, <1>3, HookMappings DEF MappingInv
<1>4. CASE Environment
  BY <1>1, <1>4, EnvironmentMappings DEF MappingInv
<1>5. CASE UNCHANGED vars
  BY <1>1, <1>5 DEF MappingInv, WellFormed, Installing, vars, fileVars, procVars
<1> QED
  BY <1>2, <1>3, <1>4, <1>5 DEF Next

\* In every file and in every memory, no host device and no path is mapped
\* twice (UpdateDevice, its roll backs, and the write back of the hooks).
THEOREM MappingsWellFormed == Spec => []WellFormed
<1>1. MappingInv => WellFormed
  BY DEF MappingInv
<1> QED
  BY InitMappings, MappingInvKept, <1>1, PTL DEF Spec

-----------------------------------------------------------------------------
(***************************************************************************)
(* What the start hook leaves in the container                             *)
(***************************************************************************)
\* A command knows the pid of a start that is over, or of the current one once
\* the container runs: of none that is still being created.
PidsPast ==
  /\ \A c \in Container : st[c] = "creating" => inc[c] > 0
  /\ \A p \in Command : /\ job[p].pid <= inc[Cid(p)]
                        /\ st[Cid(p)] = "creating" => job[p].pid < inc[Cid(p)]

\* AddDevices runs when a container starts, RemoveUdevRule when it has stopped.
HookPhase(c) ==
  /\ pc[c] = "install" => st[c] = "creating"
  /\ pc[c] = "withdraw" => st[c] = "stopping"

\* The container has the node of each of the devices ds of its hook.
HasNodes(c, ds) == \A d \in ds : nodes[c][d.path] = d.num

\* AddDevices has brought back every device that it has gone through.
Installed(c) ==
  st[c] = "creating" =>
    /\ pc[c] = "install" => HasNodes(c, cfg[c].devices \ todo[c])
    /\ pc[c] \in {"save", "rwrite"} /\ ~ err[c] => HasNodes(c, cfg[c].devices)
    /\ pc[c] \in {"quota", "hlock", "flush", "fwrite"} => HasNodes(c, cfg[c].devices)

InstallInv ==
  /\ LockInv /\ MappingInv /\ PidsPast
  /\ \A c \in Container : HookPhase(c) /\ Installed(c)

\* Only the hook of a container, and iSulad, change what iSulad does with it.
LEMMA LivesStay ==
  ASSUME TypeInv, NEW a \in Actor, StepOf(a), NEW c \in Container \ {a}
  PROVE  st'[c] = st[c] /\ inc'[c] = inc[c]
<1>1. CASE a \in Command
  BY <1>1, ActorTypes
  DEF StepOf, CommandNext, ResolvePaths, Inspect, LockAndLoad, LockUdev, GiveUp, AddStep,
      RemoveStep, EachDone, LimitStep, WriteStep, RefuseConflict, RefuseUnknown, RecordDevice,
      Mknod, MknodFails, Allow, AllowFails, Unrecord, Unlink, UnlinkFails, Deny, DenyFails,
      ClearLimits, ClearFails, SetLimit, SetLimitFails, LimitsDone, TruncateRules, UnlockUdev,
      TruncateConfig, UnlockConfig, Begin, Crash, ctrVars
<1>2. CASE a \in Container
  BY <1>2, ActorTypes
  DEF StepOf, HookNext, ReadConfig, PrepareFails, HookLockUdev, Install, InstallFails,
      WithdrawRule, WithdrawFails, HookDevicesDone, HookLimits, HookLimitsFail, HookLock,
      AbortStart, HookReturns, WriteStep, TruncateRules, UnlockUdev, TruncateConfig, UnlockConfig,
      StartContainer, StopContainer, Crash, ctrVars, TypeInv, TypeOK, ContainersTypeOK
<1> QED
  BY <1>1, <1>2 DEF Actor

\* A device node is changed by the hook of its container and by commands that
\* see the container alive; of a container that is being created none does.
LEMMA NodesStay ==
  ASSUME TypeInv, PidsPast, NEW a \in Actor, StepOf(a), NEW c \in Container \ {a},
         st[c] = "creating"
  PROVE  nodes'[c] = nodes[c]
<1>1. nodes \in [Container -> [DevPath -> Nat]]
  BY DEF TypeInv, TypeOK, ContainersTypeOK
<1>2. CASE a \in Command
  <2>1. Alive(a) => Cid(a) # c
    <3>1. /\ job \in [Command -> [req: Request, pid: Nat]] /\ inc \in [Container -> Nat]
          /\ Cid(a) \in Container
      BY <1>2, CidType DEF TypeInv, TypeOK, ContainersTypeOK, ProcessesTypeOK, Actor
    <3> QED
      BY <1>2, <3>1 DEF PidsPast, Alive
  <2>2. CASE Mknod(a) \/ MknodFails(a) \/ AllowFails(a) \/ Unlink(a)
    BY <1>1, <2>1, <2>2 DEF Mknod, MknodFails, AllowFails, Unlink, PutNode, RemoveNode
  <2>3. CASE ~ Mknod(a) /\ ~ MknodFails(a) /\ ~ AllowFails(a) /\ ~ Unlink(a)
    BY <1>2, <2>3, ActorTypes
    DEF StepOf, CommandNext, ResolvePaths, Inspect, LockAndLoad, LockUdev, GiveUp, AddStep,
        RemoveStep, EachDone, LimitStep, WriteStep, RefuseConflict, RefuseUnknown, RecordDevice,
        Allow, Unrecord, UnlinkFails, Deny, DenyFails, ClearLimits, ClearFails, SetLimit,
        SetLimitFails, LimitsDone, TruncateRules, UnlockUdev, TruncateConfig, UnlockConfig, Begin,
        Crash, ctrVars
  <2> QED
    BY <2>2, <2>3
<1>3. CASE a \in Container
  BY <1>1, <1>3, ActorTypes
  DEF StepOf, HookNext, ReadConfig, PrepareFails, HookLockUdev, Install, InstallFails,
      WithdrawRule, WithdrawFails, HookDevicesDone, HookLimits, HookLimitsFail, HookLock,
      AbortStart, HookReturns, WriteStep, TruncateRules, UnlockUdev, TruncateConfig, UnlockConfig,
      StartContainer, StopContainer, Crash, ctrVars, PutNode
<1> QED
  BY <1>2, <1>3 DEF Actor

\* The pid that a command reads is that of a running container; a start raises it.
LEMMA PidsStayPast ==
  ASSUME TypeInv, PidsPast, NEW a \in Actor, StepOf(a)
  PROVE  PidsPast'
<1>1. /\ st \in [Container -> {"stopped", "creating", "running", "stopping"}]
      /\ inc \in [Container -> Nat] /\ job \in [Command -> [req: Request, pid: Nat]]
      /\ \A p \in Command : Cid(p) \in Container
  BY CidType, ActorTypes DEF TypeInv, TypeOK, ContainersTypeOK, ProcessesTypeOK
<1>2. ASSUME a \in Command, NEW r \in Requests, Begin(a, r) PROVE PidsPast'
  <2>1. r.cid \in Container
    BY EnvironmentAssumption DEF Request
  <2>2. /\ job'[a].req = r /\ job'[a].pid = (IF st[r.cid] = "running" THEN inc[r.cid] ELSE 0)
        /\ \A p \in Command \ {a} : job'[p] = job[p]
        /\ UNCHANGED <<st, inc>>
    BY <1>1, <1>2 DEF Begin, ctrVars
  <2>3. Cid(a)' = r.cid /\ \A p \in Command \ {a} : Cid(p)' = Cid(p)
    BY <1>2, <2>2, ActorTypes DEF Cid
  <2> QED
    BY <1>1, <2>1, <2>2, <2>3 DEF PidsPast
<1>3. ASSUME UNCHANGED job,
             \A c \in Container :
                \/ inc'[c] = inc[c] /\ (st'[c] = "creating" => st[c] = "creating")
                \/ inc'[c] = inc[c] + 1
      PROVE  PidsPast'
  <2>1. \A p \in Command : Cid(p)' = Cid(p)
    BY <1>3 DEF Cid
  <2> QED
    BY <1>1, <1>3, <2>1 DEF PidsPast
<1>4. ASSUME ~ (a \in Command /\ \E r \in Requests : Begin(a, r)) PROVE UNCHANGED job
  <2>1. CASE a \in Command
    BY <1>4, <2>1, ActorTypes
    DEF StepOf, CommandNext, ResolvePaths, Inspect, LockAndLoad, LockUdev, GiveUp, AddStep,
        RemoveStep, EachDone, LimitStep, WriteStep, RefuseConflict, RefuseUnknown, RecordDevice,
        Mknod, MknodFails, Allow, AllowFails, Unrecord, Unlink, UnlinkFails, Deny, DenyFails,
        ClearLimits, ClearFails, SetLimit, SetLimitFails, LimitsDone, TruncateRules, UnlockUdev,
        TruncateConfig, UnlockConfig, Crash
  <2>2. CASE a \notin Command
    BY <2>2, StepMoves DEF OneMoves
  <2> QED
    BY <2>1, <2>2
<1>5. ASSUME a \in Command PROVE UNCHANGED <<st, inc>>
  BY <1>1, <1>5, ActorTypes
  DEF StepOf, CommandNext, ResolvePaths, Inspect, LockAndLoad, LockUdev, GiveUp, AddStep,
      RemoveStep, EachDone, LimitStep, WriteStep, RefuseConflict, RefuseUnknown, RecordDevice,
      Mknod, MknodFails, Allow, AllowFails, Unrecord, Unlink, UnlinkFails, Deny, DenyFails,
      ClearLimits, ClearFails, SetLimit, SetLimitFails, LimitsDone, TruncateRules, UnlockUdev,
      TruncateConfig, UnlockConfig, Begin, Crash, ctrVars
<1>6. ASSUME a \in Container
      PROVE  \/ inc'[a] = inc[a] /\ (st'[a] = "creating" => st[a] = "creating")
             \/ inc'[a] = inc[a] + 1
  BY <1>1, <1>6, ActorTypes
  DEF StepOf, HookNext, ReadConfig, PrepareFails, HookLockUdev, Install, InstallFails,
      WithdrawRule, WithdrawFails, HookDevicesDone, HookLimits, HookLimitsFail, HookLock,
      AbortStart, HookReturns, WriteStep, TruncateRules, UnlockUdev, TruncateConfig, UnlockConfig,
      StartContainer, StopContainer, Crash, ctrVars
<1> QED
  BY <1>2, <1>3, <1>4, <1>5, <1>6, LivesStay DEF Actor

\* AddDevices goes from one device to the next: the node that Install makes is
\* that of another path than all the earlier ones.
LEMMA InstallInstalls ==
  ASSUME InstallInv, NEW c \in Container, NEW d \in todo[c], Install(c, d)
  PROVE  HookPhase(c)' /\ Installed(c)'
<1> DEFINE n == hostNum[d.host]
           new == [d EXCEPT !.num = n]
<1>1. /\ c \in Actor /\ cfg[c] \in Config /\ cfg \in [Actor -> Config] /\ OneToOne(cfg[c])
      /\ todo \in [Actor -> SUBSET Device] /\ nodes \in [Container -> [DevPath -> Nat]]
  BY ActorTypes
  DEF InstallInv, MappingInv, WellFormed, TypeInv, TypeOK, ProcessesTypeOK, ContainersTypeOK
<1>2. pc[c] = "install" /\ st[c] = "creating" /\ UNCHANGED <<pc, st, err>>
  BY DEF Install, InstallInv, HookPhase
<1>3. d \in cfg[c].devices /\ todo[c] \subseteq cfg[c].devices
  BY <1>2 DEF InstallInv, MappingInv, Installing
<1>4. d \in Mapping /\ d.path \in DevPath /\ n \in Nat
  BY <1>1, <1>3, ConfigTypes
  DEF Mapping, InstallInv, LockInv, TypeInv, TypeOK, EnvironmentTypeOK
<1>5. new.path = d.path /\ new.num = n
  BY <1>4 DEF Mapping
<1>6. /\ cfg'[c].devices = (cfg[c].devices \ {d}) \cup {new}
      /\ todo'[c] = todo[c] \ {d}
      /\ nodes'[c] = [nodes[c] EXCEPT ![d.path] = n]
  BY <1>1, <1>4 DEF Install, Renumbered, Take, PutNode, Forced, Config
<1>7. ASSUME NEW e \in cfg'[c].devices \ todo'[c] PROVE nodes'[c][e.path] = e.num
  <2>1. CASE e = new
    BY <1>1, <1>4, <1>5, <1>6, <2>1
  <2>2. CASE e # new
    <3>1. e \in cfg[c].devices \ todo[c] /\ e # d
      BY <1>6, <1>7, <2>2
    <3>2. e.path # d.path /\ e.path \in DevPath
      BY <1>1, <1>3, <3>1, ConfigTypes DEF OneToOne, Clash, Mapping
    <3>3. nodes[c][e.path] = e.num
      BY <1>2, <3>1 DEF InstallInv, Installed, HasNodes
    <3> QED
      BY <1>1, <1>4, <1>6, <3>2, <3>3
  <2> QED
    BY <2>1, <2>2
<1> HIDE DEF n, new
<1>8. pc'[c] = "install" /\ st'[c] = "creating"
  BY <1>2
<1> QED
  BY <1>7, <1>8 DEF Installed, HasNodes, HookPhase

\* The other steps of a hook: AddDevices ends with all the nodes, or with an
\* error that fails the start, and what follows leaves the nodes alone.
LEMMA HookInstalls ==
  ASSUME InstallInv, NEW c \in Container, StepOf(c)
  PROVE  HookPhase(c)' /\ Installed(c)'
<1>1. /\ c \in Actor /\ c \notin Command /\ Cid(c) = c /\ cfg[c] \in Config
      /\ pc \in [Actor -> CommandStep \cup HookStep] /\ cfg \in [Actor -> Config]
      /\ todo \in [Actor -> SUBSET Device] /\ err \in [Actor -> BOOLEAN]
      /\ st \in [Container -> {"stopped", "creating", "running", "stopping"}]
      /\ nodes \in [Container -> [DevPath -> Nat]]
      /\ pc[c] = "idle" <=> st[c] \in {"stopped", "running"}
  BY ActorTypes
  DEF InstallInv, LockInv, HookBusy, TypeInv, TypeOK, ProcessesTypeOK, ContainersTypeOK,
      StepsTypeOK, Cid
<1>2. HookPhase(c) /\ Installed(c)
  BY DEF InstallInv
<1>3. CASE ReadConfig(c) \/ PrepareFails(c) \/ HookLockUdev(c)
  BY <1>1, <1>2, <1>3
  DEF ReadConfig, PrepareFails, HookLockUdev, Goto, ctrVars, HookPhase, Installed, HasNodes
<1>4. CASE \E d \in todo[c] : Install(c, d)
  BY <1>4, InstallInstalls
<1>5. CASE \E d \in todo[c] : InstallFails(c, d) \/ WithdrawRule(c, d) \/ WithdrawFails(c, d)
  BY <1>1, <1>2, <1>5
  DEF InstallFails, WithdrawRule, WithdrawFails, Goto, Fail, ctrVars, HookPhase, Installed,
      HasNodes
<1>6. CASE HookDevicesDone(c)
  BY <1>1, <1>2, <1>6
  DEF HookDevicesDone, Goto, ctrVars, HookPhase, Installed, HasNodes
<1>7. CASE HookLimits(c) \/ HookLimitsFail(c) \/ HookLock(c)
  <2>1. LimitsRenumbered(cfg[c], hostNum).devices = cfg[c].devices
    BY <1>1 DEF LimitsRenumbered, Config
  <2> QED
    BY <1>1, <1>2, <1>7, <2>1
    DEF HookLimits, HookLimitsFail, HookLock, Goto, ctrVars, HookPhase, Installed, HasNodes
<1>8. CASE AbortStart(c) \/ HookReturns(c) \/ StartContainer(c) \/ StopContainer(c) \/ Crash(c)
  BY <1>1, <1>2, <1>8
  DEF AbortStart, HookReturns, StartContainer, StopContainer, Crash, Goto, ctrVars, HookPhase,
      Installed, HasNodes
<1>9. CASE WriteStep(c)
  BY <1>1, <1>2, <1>9
  DEF WriteStep, TruncateRules, UnlockUdev, TruncateConfig, UnlockConfig, AfterRules, Goto,
      ctrVars, HookPhase, Installed, HasNodes
<1> QED
  BY <1>1, <1>3, <1>4, <1>5, <1>6, <1>7, <1>8, <1>9 DEF StepOf, HookNext

\* What others do changes nothing of it.
LEMMA OthersKeepInstalled ==
  ASSUME InstallInv, NEW a \in Actor, StepOf(a), NEW c \in Container \ {a}
  PROVE  HookPhase(c)' /\ Installed(c)'
<1>1. TypeInv /\ PidsPast /\ HookPhase(c) /\ Installed(c)
  BY DEF InstallInv, LockInv
<1>2. Kept(c) /\ st'[c] = st[c]
  BY <1>1, OthersKept, LivesStay, ActorTypes
<1>3. st[c] = "creating" => nodes'[c] = nodes[c]
  BY <1>1, NodesStay
<1> QED
  BY <1>1, <1>2, <1>3 DEF Kept, HookPhase, Installed, HasNodes

\* The invariant of the start hook is inductive.
LEMMA InstallInvKept ==
  ASSUME InstallInv, [Next]_vars
  PROVE  InstallInv'
<1>1. LockInv' /\ MappingInv'
  BY LockInvKept, MappingInvKept DEF InstallInv
<1>2. ASSUME NEW a \in Actor, StepOf(a) PROVE InstallInv'
  <2>1. PidsPast'
    BY <1>2, PidsStayPast DEF InstallInv, LockInv
  <2>2. \A c \in Container : HookPhase(c)' /\ Installed(c)'
    BY <1>2, HookInstalls, OthersKeepInstalled
  <2> QED
    BY <1>1, <2>1, <2>2 DEF InstallInv
<1>3. ASSUME UNCHANGED <<ctrVars, procVars>> PROVE InstallInv'
  BY <1>1, <1>3
  DEF InstallInv, PidsPast, HookPhase, Installed, HasNodes, Cid, ctrVars, procVars
<1>4. CASE UNCHANGED vars
  BY <1>3, <1>4 DEF vars
<1>5. CASE \E h \in HostDev, n \in Numbers \cup {0} : Plug(h, n)
  BY <1>3, <1>5 DEF Plug
<1> QED
  BY <1>2, <1>4, <1>5, NextIsStep

LEMMA InitInstall == Init => InstallInv
<1> SUFFICES ASSUME Init PROVE InstallInv
  OBVIOUS
<1>1. \A c \in Container : c \in Actor /\ pc[c] = "idle" /\ st[c] \in {"stopped", "running"}
  BY EnvironmentAssumption DEF Init, Actor
<1>2. PidsPast
  <2>1. \A p \in Command : job[p].pid = 0
    BY DEF Init, NoJob
  <2>2. \A p \in Command : Cid(p) \in Container
    BY CidType, InitType, ActorTypes
  <2>3. \A c \in Container : inc[c] \in Nat
    BY InitType DEF TypeInv, TypeOK, ContainersTypeOK
  <2> QED
    BY <1>1, <2>1, <2>2, <2>3 DEF PidsPast
<1> QED
  BY <1>1, <1>2, InitLocks, InitMappings DEF InstallInv, HookPhase, Installed

\* A container whose start has got beyond AddDevices has the node of every
\* device its hook has loaded, under its current number, whatever commands run
\* meanwhile: they know the pid of an earlier start only.
THEOREM StartBringsAllBack == Spec => []StartInstallsAll
<1>1. InstallInv => StartInstallsAll
  BY DEF InstallInv, Installed, HasNodes, StartInstallsAll
<1> QED
  BY InitInstall, InstallInvKept, <1>1, PTL DEF Spec

-----------------------------------------------------------------------------
(***************************************************************************)
(* What the stop hook leaves in the file of the rules                      *)
(***************************************************************************)
\* A hook that has not yet loaded the rules has nothing to write back.
RulesUntouched(c) == pc[c] \in {"idle", "read", "udev"} => ~ rdirty[c]

\* The devices that RemoveUdevRule has gone through.
Passed(c) == cfg[c].devices \ (IF pc[c] = "withdraw" THEN todo[c] ELSE {})

\* The rules of a stop hook are ones that were in the file; they still are what
\* the file has, or are to be written; and, unless lsblk has failed, none is of
\* a disk that it has gone through.
Withdrawing(c) ==
  st[c] = "stopping" /\ pc[c] \in {"withdraw", "save", "rwrite"} =>
    /\ \A r \in rcopy[c] : BaseName[r.name] = r.name
    /\ ~ rdirty[c] \/ pc[c] = "rwrite" => rcopy[c] = rules
    /\ faults = 0 =>
         \A d \in Passed(c) : IsDisk(d.host) /\ hostNum[d.host] # 0 => RuleOf(d, c) \notin rcopy[c]

WithdrawInv ==
  /\ IsolationInv
  /\ \A c \in Container : HookPhase(c) /\ RulesUntouched(c) /\ Withdrawing(c)

\* While no device comes or goes, the processes see the same host, and what has
\* failed stays counted.
LEMMA HostStays ==
  ASSUME TypeInv, NEW a \in Actor, StepOf(a)
  PROVE  hostNum' = hostNum /\ (faults' = 0 => faults = 0)
<1>1. faults \in Nat /\ \A n \in Nat : faults + n = 0 => faults = 0
  BY DEF TypeInv, TypeOK, EnvironmentTypeOK
<1>2. CASE a \in Command /\ (AddStep(a) \/ RemoveStep(a) \/ LimitStep(a))
  <2>1. CASE AddStep(a)
    <3>1. CASE MknodFails(a) \/ AllowFails(a)
      <4>1. MknodFails(a) => UNCHANGED hostNum /\ (NoFault \/ Faults(1))
        BY DEF MknodFails, Fault
      <4>2. AllowFails(a) => UNCHANGED hostNum /\ \E n \in {0, 1, 2} : Faults(n)
        BY DEF AllowFails
      <4> QED
        BY <1>1, <3>1, <4>1, <4>2 DEF NoFault, Faults
    <3>2. CASE ~ (MknodFails(a) \/ AllowFails(a))
      BY <1>1, <2>1, <3>2
      DEF AddStep, RefuseConflict, RefuseUnknown, RecordDevice, Mknod, Allow,
          NoFault, Fault, Faults, envVars
    <3> QED
      BY <3>1, <3>2
  <2>2. CASE RemoveStep(a)
    BY <1>1, <2>2
    DEF RemoveStep, Unrecord, Unlink, UnlinkFails, Deny, DenyFails, ClearLimits, ClearFails,
        NoFault, Fault, Faults, envVars
  <2>3. CASE LimitStep(a)
    BY <1>1, <2>3 DEF LimitStep, SetLimit, SetLimitFails, LimitsDone, NoFault, Fault, Faults, envVars
  <2> QED
    BY <1>2, <2>1, <2>2, <2>3
<1>3. CASE a \in Command /\ ~ (AddStep(a) \/ RemoveStep(a) \/ LimitStep(a))
  BY <1>1, <1>3, ActorTypes
  DEF StepOf, CommandNext, ResolvePaths, Inspect, LockAndLoad, LockUdev, GiveUp, EachDone,
      WriteStep, TruncateRules, UnlockUdev, TruncateConfig, UnlockConfig, Begin, Crash, envVars,
      NoFault, Fault, Faults
<1>4. CASE a \in Container
  BY <1>1, <1>4, ActorTypes
  DEF StepOf, HookNext, ReadConfig, PrepareFails, HookLockUdev, Install, InstallFails,
      WithdrawRule, WithdrawFails, HookDevicesDone, HookLimits, HookLimitsFail, HookLock,
      AbortStart, HookReturns, WriteStep, TruncateRules, UnlockUdev, TruncateConfig, UnlockConfig,
      StartContainer, StopContainer, Crash, NoFault, Fault, Faults, envVars
<1> QED
  BY <1>2, <1>3, <1>4 DEF Actor

\* Nobody else writes the rules while a process holds their lock.
LEMMA RulesHeldStay ==
  ASSUME LockInv, NEW a \in Actor, StepOf(a), NEW b \in Actor \ {a}, HoldsRules(b)
  PROVE  rules' = rules
<1>1. udevLock = b /\ ~ HoldsRules(a)
  BY DEF LockInv, LocksHeld
<1>2. pc[a] \notin {"save", "rwrite"}
  BY <1>1 DEF HoldsRules
<1>3. CASE a \in Command
  BY <1>2, <1>3, ActorTypes
  DEF StepOf, CommandNext, ResolvePaths, Inspect, LockAndLoad, LockUdev, GiveUp, AddStep,
      RemoveStep, EachDone, LimitStep, WriteStep, RefuseConflict, RefuseUnknown, RecordDevice,
      Mknod, MknodFails, Allow, AllowFails, Unrecord, Unlink, UnlinkFails, Deny, DenyFails,
      ClearLimits, ClearFails, SetLimit, SetLimitFails, LimitsDone, TruncateRules, UnlockUdev,
      TruncateConfig, UnlockConfig, Begin, Crash, ruleVars
<1>4. CASE a \in Container
  BY <1>2, <1>4, ActorTypes
  DEF StepOf, HookNext, ReadConfig, PrepareFails, HookLockUdev, Install, InstallFails,
      WithdrawRule, WithdrawFails, HookDevicesDone, HookLimits, HookLimitsFail, HookLock,
      AbortStart, HookReturns, WriteStep, TruncateRules, UnlockUdev, TruncateConfig, UnlockConfig,
      StartContainer, StopContainer, Crash, ruleVars
<1> QED
  BY <1>3, <1>4 DEF Actor

\* Saving rules that were loaded does not change them.
LEMMA SavedSame ==
  ASSUME NEW rs \in SUBSET Rule, \A r \in rs : BaseName[r.name] = r.name
  PROVE  Saved(rs) = rs
<1>1. \A r \in rs : [r EXCEPT !.name = BaseName[r.name]] = r
  BY DEF Rule
<1> QED
  BY <1>1 DEF Saved

\* AddDevices runs only in the hook of a start, RemoveUdevRule in that of a stop.
LEMMA HookPhaseKept ==
  ASSUME LockInv, NEW c \in Container, HookPhase(c), StepOf(c)
  PROVE  HookPhase(c)'
<1>1. /\ c \in Actor /\ c \notin Command
      /\ pc \in [Actor -> CommandStep \cup HookStep]
      /\ st \in [Container -> {"stopped", "creating", "running", "stopping"}]
      /\ pc[c] = "idle" <=> st[c] \in {"stopped", "running"}
  BY ActorTypes
  DEF LockInv, HookBusy, TypeInv, TypeOK, ContainersTypeOK, StepsTypeOK
<1> QED
  BY <1>1
  DEF StepOf, HookNext, ReadConfig, PrepareFails, HookLockUdev, Install, InstallFails,
      WithdrawRule, WithdrawFails, HookDevicesDone, HookLimits, HookLimitsFail, HookLock,
      AbortStart, HookReturns, WriteStep, TruncateRules, UnlockUdev, TruncateConfig, UnlockConfig,
      AfterRules, StartContainer, StopContainer, Crash, Goto, ctrVars, HookPhase

\* The lock of the rules is released by its holder, at the end of saving them or
\* by being killed.
LEMMA OnlyUnlocks ==
  ASSUME LockInv, [Next]_vars, NEW b \in Actor, udevLock = b, udevLock' # b, crashes' = crashes
  PROVE  UnlockUdev(b)
<1>1. CASE UNCHANGED vars \/ \E h \in HostDev, n \in Numbers \cup {0} : Plug(h, n)
  BY <1>1 DEF vars, lockVars, Plug
<1>2. ASSUME NEW a \in Actor, StepOf(a) PROVE UnlockUdev(b)
  <2>1. b # NoOne /\ HoldsRules(b) /\ (a # b => ~ HoldsRules(a)) /\ crashes \in Nat
    BY ActorsAssumption DEF LockInv, LocksHeld, TypeInv, TypeOK, EnvironmentTypeOK
  <2>2. ~ Crash(a)
    BY <2>1 DEF Crash
  <2>3. UnlockUdev(a)
    <3>1. CASE a \in Command
      BY <1>2, <2>1, <2>2, <3>1, ActorTypes
      DEF StepOf, CommandNext, ResolvePaths, Inspect, LockAndLoad, LockUdev, GiveUp, AddStep,
          RemoveStep, EachDone, LimitStep, WriteStep, RefuseConflict, RefuseUnknown, RecordDevice,
          Mknod, MknodFails, Allow, AllowFails, Unrecord, Unlink, UnlinkFails, Deny, DenyFails,
          ClearLimits, ClearFails, SetLimit, SetLimitFails, LimitsDone, TruncateRules,
          TruncateConfig, UnlockConfig, Begin, CanLockRules, lockVars
    <3>2. CASE a \in Container
      BY <1>2, <2>1, <2>2, <3>2, ActorTypes
      DEF StepOf, HookNext, ReadConfig, PrepareFails, HookLockUdev, Install, InstallFails,
          WithdrawRule, WithdrawFails, HookDevicesDone, HookLimits, HookLimitsFail, HookLock,
          AbortStart, HookReturns, WriteStep, TruncateRules, TruncateConfig, UnlockConfig,
          StartContainer, StopContainer, CanLockRules, lockVars
    <3> QED
      BY <3>1, <3>2 DEF Actor
  <2>4. HoldsRules(a)
    BY <2>3 DEF UnlockUdev, HoldsRules
  <2> QED
    BY <2>1, <2>3, <2>4
<1> QED
  BY <1>1, <1>2, NextIsStep

\* RemoveUdevRule, device by device, and the steps before and after it.
LEMMA HookWithdraws ==
  ASSUME WithdrawInv, NEW c \in Container, StepOf(c)
  PROVE  RulesUntouched(c)' /\ Withdrawing(c)'
<1>1. /\ c \in Actor /\ c \notin Command /\ Cid(c) = c /\ cfg[c] \in Config
      /\ pc \in [Actor -> CommandStep \cup HookStep] /\ cfg \in [Actor -> Config]
      /\ todo \in [Actor -> SUBSET Device]
      /\ rcopy \in [Actor -> SUBSET Rule] /\ rdirty \in [Actor -> BOOLEAN]
      /\ st \in [Container -> {"stopped", "creating", "running", "stopping"}]
      /\ pc[c] = "idle" <=> st[c] \in {"stopped", "running"}
      /\ hostNum' = hostNum /\ (faults' = 0 => faults = 0)
  BY ActorTypes, HostStays
  DEF WithdrawInv, IsolationInv, LockInv, HookBusy, TypeInv, TypeOK, ProcessesTypeOK,
      ContainersTypeOK, StepsTypeOK, Cid
<1>2. RulesUntouched(c) /\ Withdrawing(c) /\ HookPhase(c)
  BY DEF WithdrawInv
<1>3. CASE ReadConfig(c) \/ PrepareFails(c)
  BY <1>1, <1>2, <1>3 DEF ReadConfig, PrepareFails, Goto, RulesUntouched, Withdrawing
<1>4. CASE HookLockUdev(c)
  <2>1. \A r \in rules : BaseName[r.name] = r.name
    BY DEF WithdrawInv, IsolationInv, RulesInv
  <2>2. /\ pc'[c] \in {"install", "withdraw"} /\ rcopy'[c] = rules /\ rules' = rules
        /\ todo'[c] = cfg'[c].devices
        /\ st[c] = "stopping" => pc'[c] = "withdraw"
    BY <1>1, <1>4 DEF HookLockUdev, Goto, ruleVars
  <2>3. st' = st
    BY <1>4 DEF HookLockUdev, ctrVars
  <2> QED
    BY <1>1, <2>1, <2>2, <2>3 DEF RulesUntouched, Withdrawing, Passed
<1>5. CASE \E d \in todo[c] : Install(c, d) \/ InstallFails(c, d)
  <2>1. st'[c] = "creating" /\ pc'[c] \in {"install", "save"}
    BY <1>1, <1>2, <1>5 DEF Install, InstallFails, Goto, HookPhase, ctrVars
  <2> QED
    BY <2>1 DEF RulesUntouched, Withdrawing
<1>6. ASSUME NEW d \in todo[c], WithdrawRule(c, d) PROVE RulesUntouched(c)' /\ Withdrawing(c)'
  <2>1. /\ pc[c] = "withdraw" /\ UNCHANGED <<pc, st, cfg, rules>> /\ todo'[c] = todo[c] \ {d}
        /\ st[c] = "stopping"
    BY <1>1, <1>2, <1>6 DEF WithdrawRule, Take, ctrVars, ruleVars, HookPhase
  <2>2. \/ /\ hostNum[d.host] # 0 /\ IsDisk(d.host)
           /\ rcopy'[c] = rcopy[c] \ {RuleOf(d, c)}
           /\ rdirty'[c] = (rdirty[c] \/ RuleOf(d, c) \in rcopy[c])
        \/ /\ ~ (hostNum[d.host] # 0 /\ IsDisk(d.host))
           /\ rcopy'[c] = rcopy[c] /\ rdirty'[c] = rdirty[c]
    BY <1>1, <1>6 DEF WithdrawRule, RemoveRule, KeepRules
  <2>3. Passed(c)' \subseteq Passed(c) \cup {d}
    BY <2>1 DEF Passed
  <2>4. \A r \in rcopy'[c] : r \in rcopy[c] /\ BaseName[r.name] = r.name
    BY <1>2, <2>1, <2>2 DEF Withdrawing
  <2>5. ~ rdirty'[c] => rcopy'[c] = rules'
    BY <1>1, <1>2, <2>1, <2>2 DEF Withdrawing
  <2>6. ASSUME faults' = 0, NEW e \in Passed(c)', IsDisk(e.host), hostNum[e.host] # 0
        PROVE  RuleOf(e, c) \notin rcopy'[c]
    <3>1. CASE e = d
      BY <2>2, <2>6, <3>1
    <3>2. CASE e # d
      BY <1>1, <1>2, <2>1, <2>3, <2>4, <2>6, <3>2 DEF Withdrawing
    <3> QED
      BY <3>1, <3>2
  <2> QED
    BY <1>1, <2>1, <2>4, <2>5, <2>6 DEF RulesUntouched, Withdrawing, IsDisk, RuleOf
<1>7. CASE \E d \in todo[c] : WithdrawFails(c, d)
  <2>1. /\ pc[c] = "withdraw" /\ pc'[c] = "save" /\ UNCHANGED <<st, rules, rcopy, rdirty>>
        /\ faults' = faults + 1
    BY <1>1, <1>7 DEF WithdrawFails, Goto, Fault, Faults, ctrVars, ruleVars
  <2>2. faults' # 0
    BY <2>1 DEF WithdrawInv, IsolationInv, LockInv, TypeInv, TypeOK, EnvironmentTypeOK
  <2> QED
    BY <1>2, <2>1, <2>2 DEF RulesUntouched, Withdrawing
<1>8. CASE HookDevicesDone(c)
  <2>1. /\ pc[c] \in {"install", "withdraw"} /\ pc'[c] = "save" /\ todo[c] = {}
        /\ UNCHANGED <<st, cfg, rules, rcopy, rdirty>>
    BY <1>1, <1>8 DEF HookDevicesDone, Goto, ctrVars, ruleVars
  <2>2. Passed(c)' = Passed(c)
    BY <2>1 DEF Passed
  <2> QED
    BY <1>1, <1>2, <2>1, <2>2 DEF RulesUntouched, Withdrawing, HookPhase, IsDisk
<1>9. CASE TruncateRules(c)
  <2>1. /\ pc[c] = "save" /\ pc'[c] = "rwrite" /\ UNCHANGED <<st, cfg, rcopy, rdirty>>
        /\ rules' = Saved(rcopy[c])
    BY <1>1, <1>9 DEF TruncateRules, Goto, ctrVars
  <2>2. Passed(c)' = Passed(c)
    BY <2>1 DEF Passed
  <2> QED
    BY <1>1, <1>2, <2>1, <2>2, SavedSame DEF RulesUntouched, Withdrawing, IsDisk
<1>10. CASE UnlockUdev(c) \/ TruncateConfig(c) \/ UnlockConfig(c)
  BY <1>1, <1>10
  DEF UnlockUdev, AfterRules, TruncateConfig, UnlockConfig, Goto, RulesUntouched, Withdrawing
<1>11. CASE HookLimits(c) \/ HookLimitsFail(c) \/ HookLock(c)
  BY <1>1, <1>11
  DEF HookLimits, HookLimitsFail, HookLock, Goto, RulesUntouched, Withdrawing
<1>12. CASE AbortStart(c) \/ HookReturns(c) \/ Crash(c)
  BY <1>1, <1>12
  DEF AbortStart, HookReturns, Crash, Goto, Forget, RulesUntouched, Withdrawing
<1>13. CASE StartContainer(c) \/ StopContainer(c)
  BY <1>1, <1>2, <1>13
  DEF StartContainer, StopContainer, Goto, RulesUntouched, Withdrawing
<1> QED
  BY <1>1, <1>3, <1>4, <1>5, <1>6, <1>7, <1>8, <1>9, <1>10, <1>11, <1>12, <1>13
  DEF StepOf, HookNext, WriteStep

\* The invariant of the stop hook is inductive while no device comes or goes.
LEMMA WithdrawInvKept ==
  ASSUME MaxPlugs = 0, WithdrawInv, [Next]_vars
  PROVE  WithdrawInv'
<1>1. IsolationInv'
  BY RulesStep DEF WithdrawInv
<1>2. TypeInv /\ LockInv
  BY DEF WithdrawInv, IsolationInv, LockInv
<1>3. ASSUME NEW a \in Actor, StepOf(a), NEW c \in Container
      PROVE  HookPhase(c)' /\ RulesUntouched(c)' /\ Withdrawing(c)'
  <2>1. CASE a = c
    BY <1>2, <1>3, <2>1, HookWithdraws, HookPhaseKept DEF WithdrawInv
  <2>2. CASE a # c
    <3>1. Kept(c) /\ st'[c] = st[c] /\ hostNum' = hostNum /\ (faults' = 0 => faults = 0)
      BY <1>2, <1>3, <2>2, OthersKept, LivesStay, HostStays, ActorTypes
    <3>2. HookPhase(c) /\ RulesUntouched(c) /\ Withdrawing(c)
      BY DEF WithdrawInv
    <3>3. pc[c] \in {"withdraw", "save", "rwrite"} => rules' = rules
      BY <1>2, <1>3, <2>2, RulesHeldStay, ActorTypes DEF HoldsRules
    <3> QED
      BY <3>1, <3>2, <3>3 DEF Kept, HookPhase, RulesUntouched, Withdrawing, Passed, IsDisk
  <2> QED
    BY <2>1, <2>2
<1>4. CASE \E a \in Actor : StepOf(a)
  BY <1>1, <1>3, <1>4 DEF WithdrawInv
<1>5. CASE \E h \in HostDev, n \in Numbers \cup {0} : Plug(h, n)
  BY <1>2, <1>5 DEF Plug, TypeInv, TypeOK, EnvironmentTypeOK
<1>6. CASE UNCHANGED vars
  BY <1>1, <1>6
  DEF WithdrawInv, HookPhase, RulesUntouched, Withdrawing, Passed, IsDisk,
      vars, ruleVars, ctrVars, procVars, envVars
<1> QED
  BY <1>4, <1>5, <1>6, NextIsStep

LEMMA InitWithdraw == Init => WithdrawInv
  BY InitRules, EnvironmentAssumption DEF Init, Actor, WithdrawInv, HookPhase, RulesUntouched,
     Withdrawing

\* The step that releases the lock of the rules leaves what the hook has saved.
LEMMA WithdrawStep ==
  ASSUME \A h \in HostDev : IsDisk(h) => BaseName[h] = h,
         WithdrawInv, [Next]_vars, NEW c \in Container,
         st[c] = "stopping", udevLock = c, udevLock' = NoOne, crashes' = crashes, faults = 0,
         NEW d \in cfg[c].devices, IsDisk(d.host), hostNum[d.host] # 0, NEW r \in RulesOf(c)'
  PROVE  ~ (r.path = d.path /\ r.name \in {d.host, BaseName[d.host]})
<1>1. /\ c \in Actor /\ TypeInv /\ LockInv /\ HoldsRules(c) /\ c # NoOne
      /\ HookPhase(c) /\ Withdrawing(c)
  BY ActorTypes, ActorsAssumption DEF WithdrawInv, IsolationInv, LockInv, LocksHeld
<1>2. UnlockUdev(c)
  BY <1>1, OnlyUnlocks
<1>3. rules' = rules /\ pc[c] \in {"save", "rwrite"} /\ (pc[c] = "save" => ~ rdirty[c])
  BY <1>2 DEF UnlockUdev
<1>4. rcopy[c] = rules /\ RuleOf(d, c) \notin rcopy[c]
  BY <1>1, <1>3 DEF Withdrawing, Passed
<1>5. /\ r \in rules /\ r.cid = c /\ r \in Rule
  BY <1>1, <1>3 DEF RulesOf, TypeInv, TypeOK, FilesTypeOK
<1>6. d.host \in HostDev
  BY <1>1, ConfigTypes DEF TypeInv, TypeOK, ProcessesTypeOK, Mapping, Config
<1>7. r = [name |-> r.name, path |-> r.path, cid |-> r.cid]
  BY <1>5 DEF Rule
<1> QED
  BY <1>4, <1>5, <1>6, <1>7 DEF RuleOf

\* When a container has stopped, its stop hook leaves no rule of a configured
\* disk in the file (RemoveUdevRule, ToDisk), for any number of containers,
\* commands and devices, whoever is killed: while no device comes or goes and
\* the disks are named by what follows "/dev/", as the file of the rules
\* requires.  Without either the run AliasRule and a device that comes back
\* during the hook are counterexamples.
THEOREM StopRemovesRules ==
  ASSUME MaxPlugs = 0, \A h \in HostDev : IsDisk(h) => BaseName[h] = h
  PROVE  Spec => RulesWithdrawn
<1>1. WithdrawInv /\ [Next]_vars => WithdrawInv'
  BY WithdrawInvKept
<1>2. WithdrawInv /\ [Next]_vars =>
        [\A c \in Container :
           st[c] = "stopping" /\ udevLock = c /\ udevLock' = NoOne /\ crashes' = crashes /\ faults = 0 =>
             \A d \in cfg[c].devices : IsDisk(d.host) /\ hostNum[d.host] # 0 =>
               \A r \in RulesOf(c)' :
                  ~ (r.path = d.path /\ r.name \in {d.host, BaseName[d.host]})]_vars
  BY WithdrawStep
<1> QED
  BY InitWithdraw, <1>1, <1>2, PTL DEF Spec, RulesWithdrawn

=============================================================================

------------------------------ MODULE NetworkStore -------------------------------
(***************************************************************************)
(* The types of Network, that no two nics of a container conflict, and     *)
(* that Network implements NetStore, for any containers, commands,         *)
(* interfaces and requests.                                                *)
(*                                                                         *)
(* The types depend on two facts: a command works on what it was asked     *)
(* for, and a hook that works in a namespace has a netns file.             *)
(*                                                                         *)
(* A command has the lock of its container from the load to the flush, so  *)
(* that the file is all that time what it has loaded; the invariant says,  *)
(* step by step, how what the command has in memory differs from the file. *)
(***************************************************************************)
EXTENDS Network, TLAPS

\* What a command does was asked for.
Asked == \A p \in Command : pc[p] # "idle" => job[p].req \in Requests

\* A hook that goes through the nics has found, or made, the netns file.
NetnsFound ==
  \A c \in Container :
    pc[c] \in {"each", "create", "joinhost", "joinctr", "delete", "delhost", "unmount"}
      => netns[c] # <<>>

NetInv == NetTypeOK /\ Asked /\ NetnsFound

LinksTypeOK == link \in [Link -> LinkState] /\ rtable \in SUBSET KernelRoute

-----------------------------------------------------------------------------
\* Commands and hooks are different processes.
LEMMA ActorTypes ==
  /\ \A p \in Command : p \in Actor /\ p \notin Container
  /\ \A c \in Container : c \in Actor /\ c \notin Command
  BY NetActorsAssumption DEF Actor

\* The empty memory of a process that has not started or has ended is well typed.
LEMMA EmptyTypes ==
  /\ NoNic \in Nic
  /\ NoMemory \in Memory
  /\ \A c \in Container : NoJob(c) \in [req: Request, pid: Nat]
<1>1. \E n \in Nic : TRUE
  <2>1. PICK h \in HostName, x \in CtrName, i \in IP, q \in Qlen : TRUE
    BY NetNamesAssumption
  <2>2. [type |-> "eth", host |-> h, ctr |-> x, ip |-> i, mac |-> Empty, qlen |-> q] \in Nic
    BY <2>1 DEF Nic, Type
  <2> QED
    BY <2>2
<1>2. NoNic \in Nic
  BY <1>1 DEF NoNic
<1>3. NoMemory \in Memory
  BY <1>2 DEF NoMemory, Memory, NoConf, Conf
<1>4. \A c \in Container : NoJob(c) \in [req: Request, pid: Nat]
  BY DEF NoJob, Request, Op, NoArg, NicArg
<1> QED
  BY <1>2, <1>3, <1>4

\* Every process works for a container.
LEMMA CidType ==
  ASSUME NetProcessesTypeOK, NEW a \in Actor
  PROVE  Cid(a) \in Container
  BY DEF NetProcessesTypeOK, Cid, Actor, Request

\* The command line of add-nic describes a nic.
LEMMA RequestTypes ==
  ASSUME NEW r \in Requests
  PROVE  /\ r \in Request /\ r.cid \in Container /\ r.nic \in NicArg
         /\ r.routes \in SUBSET Route
         /\ r.op = "add-nic" => r.nic \in Nic
  BY NetRequestsAssumption DEF Request

\* What update-nic makes of a nic is a nic.
LEMMA MergedType ==
  ASSUME NEW old \in Nic, NEW arg \in NicArg
  PROVE  Merged(old, arg) \in Nic
<1>1. Given(arg.ip, old.ip) \in IP /\ Given(arg.mac, old.mac) \in Mac \cup {Empty}
  BY DEF Given, NicArg, Nic
<1>2. (IF arg.qlen < 0 THEN old.qlen ELSE arg.qlen) \in Qlen
  BY NetNamesAssumption DEF NicArg, Nic, NoQlen
<1> QED
  BY <1>1, <1>2 DEF Merged, Nic

\* What an interface may become when it is moved or configured.
LEMMA MovedType ==
  ASSUME NEW ns \in Ns, NEW n \in Name
  PROVE  Moved(ns, n) \in LinkState
  BY DEF Moved, LinkState

LEMMA NicNames ==
  ASSUME NEW n \in Nic
  PROVE  /\ n.host \in Name /\ n.ctr \in Name /\ n.ip \in IP
         /\ n.host \in HostName /\ n.ctr \in CtrName
         /\ NameBack(n.host, Tmp) \in Name /\ NameBack(n.ctr, Tmp) \in Name
  BY DEF Nic, Name, NameBack

LEMMA ConfiguredType ==
  ASSUME NEW ns \in Ns, NEW nic \in Nic
  PROVE  Configured(ns, nic) \in LinkState
  BY DEF Configured, LinkState, Nic, Name

LEMMA HomeTypes ==
  /\ \A e \in Eth : AtHome(e) \in LinkState
  /\ Absent \in LinkState
  /\ HostNs \in Ns /\ Nowhere \in Ns /\ Tmp \in Name
  BY LinksAssumption DEF AtHome, Absent, LinkState, Ns, Name

\* At first every variable has its type.
LEMMA InitInv == Init => NetInv
<1> SUFFICES ASSUME Init PROVE NetInv
  OBVIOUS
<1>1. link \in [Link -> LinkState]
  <2>1. \A l \in Link : l[2] = "phys" => l[1] \in Eth
    BY DEF Link
  <2>2. \A l \in Link : (IF l[2] = "phys" THEN AtHome(l[1]) ELSE Absent) \in LinkState
    BY <2>1, HomeTypes
  <2> QED
    BY <2>2 DEF Init
<1>2. KernelTypeOK
  BY <1>1 DEF Init, KernelTypeOK
<1>3. NetContainersTypeOK
  BY NetRequestsAssumption DEF Init, NetContainersTypeOK
<1>4. \A a \in Actor : pc[a] = "idle"
  BY DEF Init
<1>5. NetProcessesTypeOK
  BY <1>4, EmptyTypes, ActorTypes, NetActorsAssumption
  DEF Init, NetProcessesTypeOK, Actor, CommandStep, HookStep
<1> QED
  BY <1>2, <1>3, <1>4, <1>5, ActorTypes DEF NetInv, NetTypeOK, Asked, NetnsFound

-----------------------------------------------------------------------------
\* What a step leaves alone keeps its type.
LEMMA Frame ==
  ASSUME NetTypeOK
  PROVE  /\ UNCHANGED kernelVars => LinksTypeOK'
         /\ LinksTypeOK' /\ UNCHANGED netns => KernelTypeOK'
         /\ UNCHANGED <<lockVars, st, inc, noteVars, envVars>> => NetContainersTypeOK'
         /\ UNCHANGED <<pc, job, mem, err>> => NetProcessesTypeOK'
  BY DEF NetTypeOK, KernelTypeOK, LinksTypeOK, NetContainersTypeOK, NetProcessesTypeOK,
     kernelVars, lockVars, noteVars, envVars

\* The namespace that a process can enter.
LEMMA NsOfType ==
  ASSUME NetTypeOK, NEW a \in Actor, a \in Command \/ CanEnter(a)
  PROVE  NsOf(a) \in Ns
<1>1. CASE a \in Command
  BY <1>1, CidType DEF NetTypeOK, NetProcessesTypeOK, NsOf, Ns
<1>2. CASE a \notin Command /\ CanEnter(a)
  <2>1. a \in Container
    BY <1>2 DEF Actor
  <2>2. CASE st[a] = "creating"
    BY <1>2, <2>1, <2>2 DEF NetTypeOK, NetContainersTypeOK, NsOf, Ns
  <2>3. CASE st[a] # "creating"
    <3>1. netns[a] \in Seq(Nat) /\ netns[a] # <<>>
      BY <1>2, <2>1, <2>3 DEF CanEnter, NetTypeOK, KernelTypeOK
    <3>2. Head(netns[a]) \in Nat
      BY <3>1
    <3> QED
      BY <1>2, <2>1, <2>3, <3>2 DEF NsOf, Ns
  <2> QED
    BY <2>2, <2>3
<1> QED
  BY <1>1, <1>2

\* The kernel's ways to change interfaces keep the types.
LEMMA DeleteType ==
  ASSUME NetTypeOK, NEW links, Delete(links)
  PROVE  LinksTypeOK'
  BY HomeTypes DEF Delete, NetTypeOK, KernelTypeOK, LinksTypeOK

LEMMA ChangeType ==
  ASSUME NetTypeOK, NEW l, NEW s, l \in Link => s \in LinkState, Change(l, s)
  PROVE  LinksTypeOK'
  BY DEF Change, NetTypeOK, KernelTypeOK, LinksTypeOK

LEMMA MakeType ==
  ASSUME NetTypeOK, NEW k, Make(k), UNCHANGED rtable
  PROVE  LinksTypeOK'
  BY HomeTypes, MovedType DEF Make, NetTypeOK, KernelTypeOK, LinksTypeOK

\* The nic a process works on.
LEMMA ThisNicType ==
  ASSUME NetTypeOK, NEW a \in Actor
  PROVE  /\ ThisNic(a) \in Nic /\ mem[a] \in Memory
         /\ Nics(a) \in SUBSET Nic /\ Routes(a) \in SUBSET Route
  BY DEF NetTypeOK, NetProcessesTypeOK, ThisNic, Nics, Routes, Memory, Conf

\* JoinAndConfigure on the host: the pair that the process has made, or the
\* interface that has the name.
LEMMA JoinHostMoves ==
  ASSUME NetTypeOK, NEW a \in Actor, JoinHost(a)
  PROVE  /\ pc[a] = "joinhost" /\ CanEnter(a) /\ Goto(a, "joinctr")
         /\ ThisNic(a)' = ThisNic(a) /\ \A b \in Actor \ {a} : mem'[b] = mem[b]
         /\ ThisNic(a).type = "veth" =>
              /\ UNCHANGED mem
              /\ link' = [link EXCEPT ![mem[a].lnk].name = ThisNic(a).host, ![mem[a].lnk].up = TRUE,
                                      ![Peer(mem[a].lnk)] = Moved(NsOf(a), Tmp)]
              /\ rtable' = rtable \ RoutesOver({mem[a].lnk})
         /\ ThisNic(a).type # "veth" =>
              \E l \in LinksNamed(HostNs, ThisNic(a).host) :
                /\ Remember(a, [mem[a] EXCEPT !.lnk = l]) /\ mem'[a].lnk = l
                /\ link' = [link EXCEPT ![l] = Moved(NsOf(a), Tmp)]
                /\ rtable' = rtable \ RoutesOver({l})
                /\ l = <<ThisNic(a).host, "phys">> \/ DisturbAll(Owners({l}) \cup {Cid(a)})
<1>1. mem \in [Actor -> Memory] /\ mem[a] \in Memory
  BY DEF NetTypeOK, NetProcessesTypeOK
<1>2. PICK l \in ToJoin(a) :
        /\ link' = IF ThisNic(a).type = "veth"
                   THEN [link EXCEPT ![l].name = ThisNic(a).host, ![l].up = TRUE,
                                     ![Peer(l)] = Moved(NsOf(a), Tmp)]
                   ELSE [link EXCEPT ![l] = Moved(NsOf(a), Tmp)]
        /\ rtable' = rtable \ RoutesOver({l})
        /\ DisturbAll(IF ThisNic(a).type = "veth" \/ l = <<ThisNic(a).host, "phys">> THEN {}
                      ELSE Owners({l}) \cup {Cid(a)})
        /\ Remember(a, [mem[a] EXCEPT !.lnk = l])
  BY DEF JoinHost
<1>3. mem'[a].lnk = l /\ ThisNic(a)' = ThisNic(a) /\ \A b \in Actor \ {a} : mem'[b] = mem[b]
  BY <1>1, <1>2 DEF Remember, ThisNic, Memory
<1>4. ASSUME l = mem[a].lnk PROVE mem' = mem
  <2>1. [mem[a] EXCEPT !.lnk = l] = mem[a]
    BY <1>1, <1>4 DEF Memory
  <2> QED
    BY <1>1, <1>2, <2>1 DEF Remember
<1>5. CASE ThisNic(a).type = "veth"
  <2>1. l = mem[a].lnk
    BY <1>2, <1>5 DEF ToJoin
  <2> QED
    BY <1>2, <1>3, <1>4, <1>5, <2>1 DEF JoinHost, CanJoin
<1>6. CASE ThisNic(a).type # "veth"
  <2>1. l \in LinksNamed(HostNs, ThisNic(a).host)
    BY <1>2, <1>6 DEF ToJoin
  <2>2. l = <<ThisNic(a).host, "phys">> \/ DisturbAll(Owners({l}) \cup {Cid(a)})
    BY <1>2, <1>6
  <2>3. link' = [link EXCEPT ![l] = Moved(NsOf(a), Tmp)]
    BY <1>2, <1>6
  <2> QED
    BY <1>2, <1>3, <1>6, <2>1, <2>2, <2>3 DEF JoinHost, CanJoin
<1> QED
  BY <1>5, <1>6

\* The work of the drivers on the links keeps the types (JoinAndConfigure,
\* CreateIf, DeleteIf and their recoveries).
LEMMA DriverLinks ==
  ASSUME NetTypeOK, NEW a \in Actor, DriverStep(a)
  PROVE  LinksTypeOK'
<1> DEFINE n == ThisNic(a)
<1>1. n \in Nic /\ n.host \in Name /\ n.ctr \in Name
      /\ NameBack(n.host, Tmp) \in Name /\ NameBack(n.ctr, Tmp) \in Name
  BY ThisNicType, NicNames
<1>2. /\ \A x \in Name : Moved(HostNs, x) \in LinkState
      /\ \A x \in Name : CanEnter(a) => Moved(NsOf(a), x) \in LinkState
      /\ NsOf(a) \in Ns => Configured(NsOf(a), n) \in LinkState
  BY <1>1, HomeTypes, MovedType, NsOfType, ConfiguredType
<1>3. CASE CreatePair(a) \/ CreatePairFails(a)
  BY <1>3, Frame, MakeType DEF CreatePair, CreatePairFails, kernelVars
<1>4. CASE TakeEth(a) \/ TakeEthFails(a) \/ DeletePairFails(a)
  BY <1>4, Frame DEF TakeEth, TakeEthFails, DeletePairFails
<1>5. CASE JoinHost(a)
  <2>1. /\ rtable' \subseteq rtable
        /\ Moved(NsOf(a), Tmp) \in LinkState
    BY <1>2, <1>5, HomeTypes, JoinHostMoves
  <2>2. CASE n.type = "veth"
    <3> DEFINE named == [link EXCEPT ![mem[a].lnk].name = n.host, ![mem[a].lnk].up = TRUE]
    <3>1. named \in [Link -> LinkState]
      BY <1>1 DEF NetTypeOK, KernelTypeOK, LinkState
    <3>2. link' = [named EXCEPT ![Peer(mem[a].lnk)] = Moved(NsOf(a), Tmp)]
      BY <1>5, <2>2, JoinHostMoves
    <3> HIDE DEF named
    <3>3. link' \in [Link -> LinkState]
      BY <2>1, <3>1, <3>2
    <3> QED
      BY <2>1, <3>3 DEF NetTypeOK, KernelTypeOK, LinksTypeOK
  <2>3. CASE n.type # "veth"
    BY <1>5, <2>1, <2>3, JoinHostMoves DEF NetTypeOK, KernelTypeOK, LinksTypeOK
  <2> QED
    BY <2>2, <2>3
<1>6. CASE JoinHostFails(a)
  BY <1>6, Frame, DeleteType DEF JoinHostFails
<1>7. CASE JoinCtr(a)
  <2>1. Joining(a) \in Link => Configured(NsOf(a), n) \in LinkState
    <3> SUFFICES ASSUME Joining(a) \in Link PROVE NsOf(a) \in Ns
      BY <1>2
    <3>1. link[Joining(a)] \in LinkState
      BY DEF NetTypeOK, KernelTypeOK
    <3> QED
      BY <1>7, <3>1 DEF JoinCtr, CanConfigure, LinkState
  <2> QED
    BY <1>7, <2>1, ChangeType DEF JoinCtr
<1>8. CASE JoinCtrFails(a)
  <2>1. CASE TakeBack(a)
    BY <1>1, <1>2, <2>1, DeleteType, ChangeType DEF TakeBack
  <2> QED
    BY <1>8, <2>1, Frame DEF JoinCtrFails
<1>9. CASE DeletePair(a)
  BY <1>9, DeleteType DEF DeletePair
<1>10. CASE DeleteEth(a)
  BY <1>2, <1>10, HomeTypes, Frame, ChangeType DEF DeleteEth
<1>11. CASE DeleteEthFails(a)
  <2>1. ASSUME NEW l \in Link, NEW x \in Name
        PROVE  [link[l] EXCEPT !.name = x, !.up = FALSE] \in LinkState
    BY DEF NetTypeOK, KernelTypeOK, LinkState
  <2>2. \/ UNCHANGED kernelVars
        \/ \E l \in Link, x \in Name : Change(l, [link[l] EXCEPT !.name = x, !.up = FALSE])
    BY <1>1, <1>11, HomeTypes DEF DeleteEthFails, LinksNamed
  <2> QED
    BY <2>1, <2>2, Frame, ChangeType
<1>12. CASE NameEth(a)
  BY <1>1, <1>2, <1>12, ChangeType DEF NameEth
<1>13. CASE NameEthFails(a)
  BY <1>1, <1>2, <1>13, HomeTypes, ChangeType DEF NameEthFails
<1>14. CASE EthNotFound(a)
  BY <1>1, <1>2, <1>14, HomeTypes, ChangeType, Frame DEF EthNotFound
<1> QED
  BY <1>3, <1>4, <1>5, <1>6, <1>7, <1>8, <1>9, <1>10, <1>11, <1>12, <1>13, <1>14
  DEF DriverStep

-----------------------------------------------------------------------------
StepsTypeOK ==
  /\ \A p \in Command : pc[p] \in CommandStep
  /\ \A c \in Container : pc[c] \in HookStep
  /\ pc \in [Actor -> CommandStep \cup HookStep]

\* Processes move among the steps of their kind.
LEMMA GotoType ==
  ASSUME NetTypeOK, NEW a \in Actor, NEW l, Goto(a, l),
         a \in Command => l \in CommandStep, a \in Container => l \in HookStep
  PROVE  StepsTypeOK'
  BY NetActorsAssumption DEF NetTypeOK, NetProcessesTypeOK, StepsTypeOK, Goto, Actor

\* What a process remembers keeps its type.
LEMMA RememberType ==
  ASSUME NetTypeOK, NEW a \in Actor, NEW m \in Memory, Remember(a, m) \/ UNCHANGED mem
  PROVE  mem' \in [Actor -> Memory]
  BY DEF NetTypeOK, NetProcessesTypeOK, Remember

LEMMA ForgetType ==
  ASSUME NetTypeOK, NEW a \in Actor, Forget(a)
  PROVE  mem' \in [Actor -> Memory]
  BY EmptyTypes, RememberType DEF Forget

\* Changes of the configuration in memory keep its type.
LEMMA SetTypes ==
  ASSUME NetTypeOK, NEW a \in Actor
  PROVE  /\ \A nics \in SUBSET Nic : SetNics(a, nics) \in Memory
         /\ \A routes \in SUBSET Route : SetRoutes(a, routes) \in Memory
  BY ThisNicType DEF SetNics, SetRoutes, Memory, Conf

LEMMA FieldTypes ==
  ASSUME NEW m \in Memory
  PROVE  /\ \A n \in Nic : [m EXCEPT !.nic = n] \in Memory
         /\ \A l \in Link \cup {NoOne} : [m EXCEPT !.lnk = l] \in Memory
         /\ \A r : [m EXCEPT !.routes = @ \ {r}] \in Memory
         /\ \A r : [m EXCEPT !.matching = @ \ {r}] \in Memory
         /\ \A r, rs : rs \in SUBSET Route
              => [m EXCEPT !.routes = @ \ {r}, !.matching = rs] \in Memory
         /\ \A n \in Nic : [m EXCEPT !.nics = @ \ {n}, !.nic = n, !.lnk = NoOne] \in Memory
  BY DEF Memory

\* A failed call is counted, a process that fails is marked.
LEMMA FaultType ==
  ASSUME NetTypeOK, Fault \/ NoFault
  PROVE  faults' \in Nat
  BY DEF NetTypeOK, NetContainersTypeOK, Fault, NoFault

LEMMA FailType ==
  ASSUME NetTypeOK, NEW a \in Actor, Fail(a) \/ UNCHANGED err
  PROVE  err' \in [Actor -> BOOLEAN]
  BY DEF NetTypeOK, NetProcessesTypeOK, Fail

\* Busy or not, a container is marked or it is not.
LEMMA MarkType ==
  ASSUME NetTypeOK, NEW c \in Container, NEW x
  PROVE  /\ Disturb(c, x) => disturbed' \in [Container -> BOOLEAN]
         /\ Postpone(c, x) => pending' \in [Container -> BOOLEAN]
         /\ \A cs : DisturbAll(cs) => disturbed' \in [Container -> BOOLEAN]
<1> DEFINE y == disturbed[c] \/ x
           z == pending[c] \/ x
<1>1. /\ disturbed \in [Container -> BOOLEAN] /\ pending \in [Container -> BOOLEAN]
      /\ Disturb(c, x) => disturbed' = [disturbed EXCEPT ![c] = y]
      /\ Postpone(c, x) => pending' = [pending EXCEPT ![c] = z]
  BY DEF NetTypeOK, NetContainersTypeOK, Disturb, Postpone
<1>2. y \in BOOLEAN /\ z \in BOOLEAN
  OBVIOUS
<1>3. \A cs : \A d \in Container : (disturbed[d] \/ d \in cs) \in BOOLEAN
  OBVIOUS
<1> HIDE DEF y, z
<1> QED
  BY <1>1, <1>2, <1>3 DEF DisturbAll

\* How the drivers report to a command and to a hook.
LEMMA ReportType ==
  ASSUME NetTypeOK, NEW a \in Actor,
         Added(a) \/ AddFailed(a) \/ Deleted(a) \/ DeleteFailed(a)
  PROVE  StepsTypeOK' /\ mem' \in [Actor -> Memory] /\ err' \in [Actor -> BOOLEAN]
<1>1. a \in Command \/ (a \in Container /\ a \notin Command)
  BY ActorTypes DEF Actor
<1>2. \E l \in {"flush", "each", "abort"} :
        /\ Goto(a, l)
        /\ a \in Command => l = "flush"
        /\ a \notin Command => l \in {"each", "abort"}
  BY DEF Added, AddFailed, Deleted, DeleteFailed
<1>3. StepsTypeOK'
  BY <1>1, <1>2, ActorTypes, GotoType DEF CommandStep, HookStep
<1>4. /\ SetNics(a, WithoutNic(Nics(a), ThisNic(a))) \in Memory
      /\ SetNics(a, Nics(a) \cup {ThisNic(a)}) \in Memory
  BY ThisNicType, SetTypes DEF WithoutNic
<1>5. mem' \in [Actor -> Memory]
  BY <1>4, RememberType, ThisNicType DEF Added, AddFailed, Deleted, DeleteFailed
<1>6. err' \in [Actor -> BOOLEAN]
  BY FailType DEF Added, AddFailed, Deleted, DeleteFailed
<1> QED
  BY <1>3, <1>5, <1>6

\* The drivers' bookkeeping keeps the types.
LEMMA DriverProcess ==
  ASSUME NetTypeOK, NEW a \in Actor, DriverStep(a)
  PROVE  NetProcessesTypeOK'
<1>1. UNCHANGED job
  BY DEF DriverStep, CreatePair, CreatePairFails, TakeEth, TakeEthFails, JoinHost, JoinHostFails,
     JoinCtr, JoinCtrFails, DeletePair, DeletePairFails, DeleteEth, DeleteEthFails, NameEth,
     NameEthFails, EthNotFound
<1>2. CASE Added(a) \/ AddFailed(a) \/ Deleted(a) \/ DeleteFailed(a)
  BY <1>1, <1>2, ReportType DEF StepsTypeOK, NetTypeOK, NetProcessesTypeOK
<1>3. CASE \E l \in {"joinhost", "joinctr", "delhost"} :
             /\ Goto(a, l) /\ UNCHANGED err
             /\ UNCHANGED mem \/ \E k \in Link : Remember(a, [mem[a] EXCEPT !.lnk = k])
  <2>1. StepsTypeOK'
    BY <1>3, GotoType DEF CommandStep, HookStep
  <2>2. mem' \in [Actor -> Memory]
    BY <1>3, ThisNicType, FieldTypes, RememberType
  <2> QED
    BY <1>1, <1>3, <2>1, <2>2 DEF StepsTypeOK, NetTypeOK, NetProcessesTypeOK
<1>4. ASSUME CreatePair(a) PROVE NetProcessesTypeOK'
  <2>1. <<CHOOSE k \in FreePairs : TRUE, "host">> \in Link
    BY <1>4 DEF CreatePair, FreePairs, Link
  <2> QED
    BY <1>3, <1>4, <2>1 DEF CreatePair
<1>5. ASSUME TakeEth(a) \/ JoinHost(a) PROVE NetProcessesTypeOK'
  <2>1. CASE TakeEth(a)
    BY <1>3, <2>1 DEF TakeEth
  <2>2. CASE JoinHost(a)
    <3>1. UNCHANGED mem \/ \E k \in Link : Remember(a, [mem[a] EXCEPT !.lnk = k])
      BY <2>2, JoinHostMoves DEF LinksNamed
    <3> QED
      BY <1>3, <2>2, <3>1 DEF JoinHost
  <2> QED
    BY <1>5, <2>1, <2>2
<1>6. ASSUME DeleteEth(a) PROVE NetProcessesTypeOK'
  BY <1>2, <1>3, <1>6 DEF DeleteEth, LinksNamed
<1> QED
  BY <1>2, <1>4, <1>5, <1>6
  DEF DriverStep, CreatePairFails, TakeEthFails, JoinHostFails, JoinCtr, JoinCtrFails,
      DeletePair, DeletePairFails, DeleteEthFails, NameEth, NameEthFails, EthNotFound

\* The drivers touch no container.
LEMMA DriverContainers ==
  ASSUME NetTypeOK, NEW a \in Actor, DriverStep(a)
  PROVE  NetContainersTypeOK' /\ UNCHANGED netns
<1>1. UNCHANGED <<lockVars, ctrVars, pending, crashes>>
  BY DEF DriverStep, CreatePair, CreatePairFails, TakeEth, TakeEthFails, JoinHost, JoinHostFails,
     JoinCtr, JoinCtrFails, DeletePair, DeletePairFails, DeleteEth, DeleteEthFails, NameEth,
     NameEthFails, EthNotFound, noteVars, envVars
<1>2. faults' \in Nat
  BY FaultType
  DEF DriverStep, CreatePair, CreatePairFails, TakeEth, TakeEthFails, JoinHost, JoinHostFails,
     JoinCtr, JoinCtrFails, DeletePair, DeletePairFails, DeleteEth, DeleteEthFails, NameEth,
     NameEthFails, EthNotFound, envVars, NoFault
<1>3. UNCHANGED disturbed \/ (\E x : Disturb(Cid(a), x)) \/ \E cs : DisturbAll(cs)
  BY DEF DriverStep, CreatePair, CreatePairFails, TakeEth, TakeEthFails, JoinHost, JoinHostFails,
     JoinCtr, JoinCtrFails, TakeBack, DeletePair, DeletePairFails, DeleteEth, DeleteEthFails,
     NameEth, NameEthFails, EthNotFound, noteVars
<1>4. disturbed' \in [Container -> BOOLEAN]
  BY <1>3, CidType, MarkType DEF NetTypeOK, NetContainersTypeOK
<1> QED
  BY <1>1, <1>2, <1>4 DEF NetTypeOK, NetContainersTypeOK, lockVars, ctrVars

\* CreateIf, JoinAndConfigure and DeleteIf keep the types.
LEMMA DriverType ==
  ASSUME NetTypeOK, NEW a \in Actor, DriverStep(a)
  PROVE  NetTypeOK'
  BY DriverLinks, DriverProcess, DriverContainers, Frame DEF NetTypeOK

-----------------------------------------------------------------------------
\* A step of a process that touches neither links nor containers.
LEMMA OwnStep ==
  ASSUME NetTypeOK, NetProcessesTypeOK',
         UNCHANGED <<lockVars, ctrVars, kernelVars, noteVars, envVars>>
  PROVE  NetTypeOK'
  BY Frame DEF NetTypeOK, ctrVars

\* ValidNetworkConfig and container.New keep the types.
LEMMA BeginType ==
  ASSUME NetTypeOK, NEW p \in Command, NEW r \in Requests, Begin(p, r)
  PROVE  NetTypeOK'
<1>1. p \in Actor /\ r \in Request /\ r.cid \in Container
  BY RequestTypes, ActorTypes
<1>2. (IF st[r.cid] = "running" THEN inc[r.cid] ELSE 0) \in Nat
  BY <1>1 DEF NetTypeOK, NetContainersTypeOK
<1>3. StepsTypeOK'
  BY <1>1, ActorTypes, GotoType DEF Begin, CommandStep
<1>4. job' \in [Command -> [req: Request, pid: Nat]]
  BY <1>1, <1>2 DEF Begin, NetTypeOK, NetProcessesTypeOK
<1> QED
  BY <1>3, <1>4, OwnStep DEF Begin, StepsTypeOK, NetTypeOK, NetProcessesTypeOK

\* Loading the configuration under the lock, and writing it back.
LEMMA FileStepType ==
  ASSUME NetTypeOK, NEW p \in Command, LockAndLoad(p) \/ Flush(p)
  PROVE  NetTypeOK'
<1>1. p \in Actor /\ Cid(p) \in Container /\ file[Cid(p)] \in Conf /\ mem[p].conf \in Conf
  BY ActorTypes, CidType, ThisNicType
  DEF NetTypeOK, NetContainersTypeOK, NetProcessesTypeOK, Memory
<1>2. Req(p).routes \in SUBSET Route
  BY DEF NetTypeOK, NetProcessesTypeOK, Request, Req
<1>3. StepsTypeOK'
  BY <1>1, ActorTypes, GotoType DEF LockAndLoad, Flush, CommandStep
<1>4. [NoMemory EXCEPT !.conf = file[Cid(p)], !.routes = Req(p).routes] \in Memory
  BY <1>1, <1>2, EmptyTypes DEF Memory
<1>5. mem' \in [Actor -> Memory]
  BY <1>1, <1>4, RememberType, ForgetType DEF LockAndLoad, Flush
<1>6. NetContainersTypeOK'
  BY <1>1 DEF LockAndLoad, Flush, Unlocked, NetTypeOK, NetContainersTypeOK, ctrVars, noteVars,
     envVars
<1>7. NetProcessesTypeOK'
  BY <1>3, <1>5 DEF LockAndLoad, Flush, StepsTypeOK, NetTypeOK, NetProcessesTypeOK
<1> QED
  BY <1>6, <1>7, Frame DEF LockAndLoad, Flush, NetTypeOK, ctrVars

\* AddNic, DelNic and UpdateNic keep the types.
LEMMA NicStepType ==
  ASSUME NetInv, NEW p \in Command, AddNic(p) \/ DelNic(p) \/ UpdateNic(p)
  PROVE  NetTypeOK'
<1> NetTypeOK
  BY DEF NetInv
<1>1. p \in Actor /\ Cid(p) \in Container /\ Nics(p) \in SUBSET Nic /\ mem[p] \in Memory
  BY ActorTypes, CidType, ThisNicType DEF NetTypeOK
<1>2. Req(p) \in Requests
  BY DEF NetInv, Asked, AddNic, DelNic, UpdateNic, Req
<1>3. StepsTypeOK'
  <2>1. \E l \in {"create", "delete", "confhost", "confctr", "flush"} : Goto(p, l)
    BY DEF AddNic, DelNic, UpdateNic, GiveUp
  <2> QED
    BY <1>1, <2>1, ActorTypes, GotoType DEF CommandStep
<1>4. mem' \in [Actor -> Memory]
  <2>1. CASE AddNic(p)
    <3>1. Req(p).nic \in Nic
      BY <1>2, <2>1, RequestTypes DEF AddNic
    <3>2. [SetNics(p, Nics(p) \cup {Req(p).nic}) EXCEPT !.nic = Req(p).nic] \in Memory
      BY <1>1, <3>1, SetTypes, FieldTypes
    <3> QED
      BY <1>1, <2>1, <3>2, RememberType DEF AddNic, GiveUp
  <2>2. CASE DelNic(p)
    <3>1. ASSUME NEW n \in FindInterfaceByName(Nics(p), Req(p).nic)
          PROVE  [SetNics(p, WithoutNic(Nics(p), n)) EXCEPT !.nic = n] \in Memory
      <4>1. n \in Nic /\ WithoutNic(Nics(p), n) \in SUBSET Nic
        BY <1>1, <3>1 DEF FindInterfaceByName, WithoutNic
      <4> QED
        BY <1>1, <4>1, SetTypes, FieldTypes
    <3> QED
      BY <1>1, <2>2, <3>1, RememberType DEF DelNic, GiveUp
  <2>3. CASE UpdateNic(p)
    <3>1. ASSUME NEW old \in Old(p)
          PROVE  /\ [mem[p] EXCEPT !.nic = Merged(old, Req(p).nic)] \in Memory
                 /\ Updated(p, Merged(old, Req(p).nic)) \in Memory
      <4>1. old \in Nic
        BY <1>1, <3>1 DEF Old, FindInterfaceByName
      <4>2. Merged(old, Req(p).nic) \in Nic
        BY <1>2, <4>1, RequestTypes, MergedType
      <4>3. (Nics(p) \ Old(p)) \cup {Merged(old, Req(p).nic)} \in SUBSET Nic
        BY <1>1, <4>2
      <4> QED
        BY <1>1, <4>2, <4>3, SetTypes, FieldTypes DEF Updated
    <3> QED
      BY <1>1, <2>3, <3>1, RememberType DEF UpdateNic, GiveUp
  <2> QED
    BY <2>1, <2>2, <2>3
<1>5. err' \in [Actor -> BOOLEAN]
  BY <1>1 DEF AddNic, DelNic, UpdateNic, GiveUp, NetTypeOK, NetProcessesTypeOK
<1>6. pending' \in [Container -> BOOLEAN]
  <2>1. UNCHANGED pending \/ \E x : Postpone(Cid(p), x)
    BY DEF AddNic, DelNic, UpdateNic, GiveUp
  <2> QED
    BY <1>1, <2>1, MarkType DEF NetTypeOK, NetContainersTypeOK
<1>7. /\ UNCHANGED <<lockVars, ctrVars, kernelVars, job, disturbed, envVars>>
  BY DEF AddNic, DelNic, UpdateNic
<1>8. NetProcessesTypeOK'
  BY <1>3, <1>4, <1>5, <1>7 DEF StepsTypeOK, NetTypeOK, NetProcessesTypeOK
<1>9. NetContainersTypeOK'
  BY <1>6, <1>7 DEF NetTypeOK, NetContainersTypeOK, lockVars, ctrVars, envVars
<1> QED
  BY <1>7, <1>8, <1>9, Frame DEF NetTypeOK, ctrVars

\* A route that the kernel accepts is a route of the kernel.
LEMMA RouteAddType ==
  ASSUME NetTypeOK, NEW ns, NEW r \in Route, RouteAdd(ns, r)
  PROVE  rtable' \in SUBSET KernelRoute
<1>1. ASSUME NEW l \in RouteLinks(ns, r)
      PROVE  [ns |-> ns, dest |-> KernelDest(r.dest), gw |-> r.gw, lnk |-> l] \in KernelRoute
  <2>1. link[l] \in LinkState /\ link[l].ns = ns /\ l \in Link
    BY <1>1 DEF RouteLinks, NetTypeOK, KernelTypeOK
  <2>2. ns \in Ns
    BY <2>1 DEF LinkState
  <2> QED
    BY <2>1, <2>2 DEF KernelRoute, Route, KernelDest
<1>2. rtable \in SUBSET KernelRoute
  BY DEF NetTypeOK, KernelTypeOK
<1> QED
  BY <1>1, <1>2 DEF RouteAdd

\* AddRoutes and DelRoutes keep the types.
LEMMA RouteStepType ==
  ASSUME NetTypeOK, NEW p \in Command,
         \/ \E r \in mem[p].routes : \/ RefuseRoute(p, r) \/ AddRoute(p, r)
                                     \/ AddRouteFails(p, r) \/ TakePattern(p, r)
         \/ \E r \in mem[p].matching : DelRoute(p, r) \/ DelRouteFails(p, r)
         \/ RoutesDone(p)
  PROVE  NetTypeOK'
<1>1. /\ p \in Actor /\ Cid(p) \in Container /\ Routes(p) \in SUBSET Route /\ mem[p] \in Memory
      /\ mem[p].routes \in SUBSET Route /\ mem[p].matching \in SUBSET Route
  BY ActorTypes, CidType, ThisNicType DEF NetTypeOK, Memory
<1>2. StepsTypeOK'
  <2>1. UNCHANGED pc \/ Goto(p, "flush")
    BY DEF RefuseRoute, AddRoute, AddRouteFails, TakePattern, DelRoute, DelRouteFails, RoutesDone
  <2>2. CASE UNCHANGED pc
    BY <2>2 DEF NetTypeOK, NetProcessesTypeOK, StepsTypeOK
  <2> QED
    BY <1>1, <2>1, <2>2, ActorTypes, GotoType DEF CommandStep
<1>3. mem' \in [Actor -> Memory]
  <2>1. ASSUME NEW r \in Route
        PROVE  /\ [SetRoutes(p, Routes(p) \cup {r}) EXCEPT !.routes = @ \ {r}] \in Memory
               /\ SetRoutes(p, Routes(p)) \in Memory
               /\ [SetRoutes(p, WithoutRoute(Routes(p), r)) EXCEPT !.matching = @ \ {r}] \in Memory
               /\ [SetRoutes(p, Routes(p)) EXCEPT !.matching = @ \ {r}] \in Memory
               /\ [mem[p] EXCEPT !.routes = @ \ {r}, !.matching = GetRoutes(Routes(p), r)]
                    \in Memory
    <3>1. /\ Routes(p) \cup {r} \in SUBSET Route
          /\ WithoutRoute(Routes(p), r) \in SUBSET Route
          /\ GetRoutes(Routes(p), r) \in SUBSET Route
      BY <1>1 DEF WithoutRoute, GetRoutes
    <3>2. /\ SetRoutes(p, Routes(p) \cup {r}) \in Memory
          /\ SetRoutes(p, Routes(p)) \in Memory
          /\ SetRoutes(p, WithoutRoute(Routes(p), r)) \in Memory
      BY <1>1, <3>1, SetTypes
    <3> QED
      BY <1>1, <3>1, <3>2, FieldTypes
  <2> QED
    BY <1>1, <2>1, RememberType
    DEF RefuseRoute, AddRoute, AddRouteFails, TakePattern, DelRoute, DelRouteFails, RoutesDone
<1>4. err' \in [Actor -> BOOLEAN]
  <2>1. CASE UNCHANGED err \/ Fail(p)
    BY <1>1, <2>1, FailType
  <2>2. ASSUME NEW r, TakePattern(p, r) PROVE err' \in [Actor -> BOOLEAN]
    <3> DEFINE y == err[p] \/ GetRoutes(Routes(p), r) = {}
    <3>1. err' = [err EXCEPT ![p] = y] /\ err \in [Actor -> BOOLEAN]
      BY <2>2 DEF TakePattern, NetTypeOK, NetProcessesTypeOK
    <3>2. y \in BOOLEAN
      OBVIOUS
    <3> HIDE DEF y
    <3> QED
      BY <3>1, <3>2
  <2> QED
    BY <2>1, <2>2 DEF RefuseRoute, AddRoute, AddRouteFails, DelRoute, DelRouteFails, RoutesDone
<1>5. rtable' \in SUBSET KernelRoute /\ UNCHANGED link
  <2>1. UNCHANGED link /\ (rtable' \subseteq rtable \/ \E r \in Route : RouteAdd(NsOf(p), r))
    BY <1>1
    DEF RefuseRoute, AddRoute, AddRouteFails, TakePattern, DelRoute, DelRouteFails, RoutesDone,
        kernelVars
  <2>2. CASE rtable' \subseteq rtable
    BY <2>1, <2>2 DEF NetTypeOK, KernelTypeOK
  <2> QED
    BY <2>1, <2>2, RouteAddType
<1>6. pending' \in [Container -> BOOLEAN]
  <2>1. UNCHANGED pending \/ \E x : Postpone(Cid(p), x)
    BY DEF RefuseRoute, AddRoute, AddRouteFails, TakePattern, DelRoute, DelRouteFails, RoutesDone,
       noteVars
  <2> QED
    BY <1>1, <2>1, MarkType DEF NetTypeOK, NetContainersTypeOK
<1>7. faults' \in Nat
  BY FaultType DEF RefuseRoute, AddRoute, AddRouteFails, TakePattern, DelRoute, DelRouteFails,
     RoutesDone, NoFault, envVars
<1>8. UNCHANGED <<lockVars, ctrVars, job, disturbed, crashes>>
  BY DEF RefuseRoute, AddRoute, AddRouteFails, TakePattern, DelRoute, DelRouteFails, RoutesDone,
     kernelVars, noteVars, envVars
<1>9. NetProcessesTypeOK'
  BY <1>2, <1>3, <1>4, <1>8 DEF StepsTypeOK, NetTypeOK, NetProcessesTypeOK
<1>10. NetContainersTypeOK'
  BY <1>6, <1>7, <1>8 DEF NetTypeOK, NetContainersTypeOK, lockVars, ctrVars
<1> QED
  BY <1>5, <1>8, <1>9, <1>10 DEF NetTypeOK, KernelTypeOK, ctrVars

\* Configure of both drivers keeps the types.
LEMMA ConfigureType ==
  ASSUME NetTypeOK, NEW p \in Command,
         \/ ConfigureHost(p) \/ ConfigureHostFails(p)
         \/ ConfigureCtr(p) \/ ConfigureCtrFails(p)
  PROVE  NetTypeOK'
<1>1. /\ p \in Actor /\ Cid(p) \in Container /\ Nics(p) \in SUBSET Nic /\ mem[p] \in Memory
      /\ ThisNic(p) \in Nic /\ ThisNic(p).ip \in IP
  BY ActorTypes, CidType, ThisNicType, NicNames DEF NetTypeOK
<1>2. StepsTypeOK'
  <2>1. \E l \in {"confctr", "flush"} : Goto(p, l)
    BY DEF ConfigureHost, ConfigureHostFails, ConfigureCtr, ConfigureCtrFails, UpdateFailed
  <2> QED
    BY <1>1, <2>1, ActorTypes, GotoType DEF CommandStep
<1>3. mem' \in [Actor -> Memory] /\ err' \in [Actor -> BOOLEAN]
  <2>1. (Nics(p) \ Old(p)) \cup {ThisNic(p)} \in SUBSET Nic
    BY <1>1
  <2>2. Updated(p, ThisNic(p)) \in Memory
    BY <1>1, <2>1, SetTypes DEF Updated
  <2> QED
    BY <1>1, <2>2, RememberType, FailType
    DEF ConfigureHost, ConfigureHostFails, ConfigureCtr, ConfigureCtrFails, UpdateFailed
<1>4. LinksTypeOK'
  <2>1. ASSUME NEW l \in Link, NEW up \in BOOLEAN, NEW ip \in IP \cup {Empty}
        PROVE  /\ [link[l] EXCEPT !.up = up] \in LinkState
               /\ [link[l] EXCEPT !.ip = ip, !.up = up] \in LinkState
    BY DEF NetTypeOK, KernelTypeOK, LinkState
  <2>2. CASE ConfigureHost(p)
    BY <2>1, <2>2 DEF ConfigureHost, NetTypeOK, KernelTypeOK, LinksTypeOK
  <2>3. CASE ConfigureHostFails(p)
    <3>1. \A up \in BOOLEAN :
            [l \in Link |-> IF l \in LinksNamed(HostNs, ThisNic(p).host)
                            THEN [link[l] EXCEPT !.up = up] ELSE link[l]] \in [Link -> LinkState]
      BY <2>1 DEF NetTypeOK, KernelTypeOK
    <3> QED
      BY <2>3, <3>1 DEF ConfigureHostFails, NetTypeOK, KernelTypeOK, LinksTypeOK
  <2>4. CASE ConfigureCtr(p)
    <3>1. PICK l \in LinksNamed(NsOf(p), ThisNic(p).ctr) :
            Change(l, [link[l] EXCEPT !.ip = ThisNic(p).ip,
                                      !.up = @ \/ ThisNic(p).type = "veth"])
      BY <2>4 DEF ConfigureCtr
    <3> DEFINE up == link[l].up \/ ThisNic(p).type = "veth"
    <3>2. l \in Link
      BY DEF LinksNamed
    <3>3. up \in BOOLEAN
      OBVIOUS
    <3>4. Change(l, [link[l] EXCEPT !.ip = ThisNic(p).ip, !.up = up])
      BY <3>1
    <3> HIDE DEF up
    <3>5. [link[l] EXCEPT !.ip = ThisNic(p).ip, !.up = up] \in LinkState
      BY <1>1, <2>1, <3>2, <3>3
    <3> QED
      BY <3>4, <3>5, ChangeType
  <2>5. CASE ConfigureCtrFails(p)
    <3>1. \/ UNCHANGED kernelVars
          \/ \E l \in Link, ip \in IP \cup {Empty} :
                Change(l, [link[l] EXCEPT !.ip = ip, !.up = FALSE])
      <4>1. \A l \in Link : link[l].ip \in IP \cup {Empty}
        BY DEF NetTypeOK, KernelTypeOK, LinkState
      <4> QED
        BY <1>1, <2>5, <4>1 DEF ConfigureCtrFails, LinksNamed
    <3> QED
      BY <2>1, <3>1, Frame, ChangeType
  <2> QED
    BY <2>2, <2>3, <2>4, <2>5
<1>5. disturbed' \in [Container -> BOOLEAN]
  <2>1. UNCHANGED disturbed \/ (\E x : Disturb(Cid(p), x)) \/ \E cs : DisturbAll(cs)
    BY DEF ConfigureHost, ConfigureHostFails, ConfigureCtr, ConfigureCtrFails, noteVars
  <2> QED
    BY <1>1, <2>1, MarkType DEF NetTypeOK, NetContainersTypeOK
<1>6. faults' \in Nat
  BY FaultType
  DEF ConfigureHost, ConfigureHostFails, ConfigureCtr, ConfigureCtrFails, NoFault, envVars
<1>7. UNCHANGED <<lockVars, ctrVars, job, pending, crashes>>
  BY DEF ConfigureHost, ConfigureHostFails, ConfigureCtr, ConfigureCtrFails, noteVars, envVars
<1>8. NetProcessesTypeOK'
  BY <1>2, <1>3, <1>7 DEF StepsTypeOK, NetTypeOK, NetProcessesTypeOK
<1>9. NetContainersTypeOK'
  BY <1>5, <1>6, <1>7 DEF NetTypeOK, NetContainersTypeOK, lockVars, ctrVars
<1> QED
  BY <1>4, <1>7, <1>8, <1>9, Frame DEF NetTypeOK, ctrVars

-----------------------------------------------------------------------------
\* The netns file, bound, unbound and removed, keeps its type (UpdateNetwork,
\* RemoveNetworkDevices).
LEMMA NetnsType ==
  ASSUME NetInv, NEW c \in Container, MountNetns(c) \/ StartFails(c) \/ UnmountNetns(c)
  PROVE  netns' \in [Container -> Seq(Nat)]
<1>1. netns \in [Container -> Seq(Nat)] /\ inc[c] \in Nat
  BY DEF NetInv, NetTypeOK, KernelTypeOK, NetContainersTypeOK
<1>2. FileIn(netns[c]) \in Seq(Nat)
  BY <1>1 DEF FileIn
<1>3. CASE MountNetns(c)
  <2>1. <<inc[c]>> \o FileIn(netns[c]) \in Seq(Nat)
    BY <1>1, <1>2
  <2> QED
    BY <1>1, <1>3, <2>1 DEF MountNetns
<1>4. CASE StartFails(c)
  BY <1>1, <1>2, <1>4 DEF StartFails
<1>5. CASE UnmountNetns(c)
  <2>1. netns[c] # <<>>
    BY <1>5 DEF UnmountNetns, NetInv, NetnsFound
  <2>2. Tail(netns[c]) \in Seq(Nat)
    BY <1>1, <2>1
  <2>3. Unmounted(netns[c]) \in Seq(Nat)
    BY <1>1, <2>2 DEF Unmounted
  <2> QED
    BY <1>1, <1>5, <2>3 DEF UnmountNetns
<1> QED
  BY <1>3, <1>4, <1>5

\* What the hooks read, and their loops, keep the types.
LEMMA HookType ==
  ASSUME NetInv, NEW c \in Container,
         \/ ReadConfig(c) \/ MountNetns(c) \/ StartFails(c) \/ OpenNetns(c) \/ HookNicsDone(c)
         \/ HookRoutesDone(c) \/ UnmountNetns(c)
         \/ \E n \in mem[c].nics : HookNic(c, n)
         \/ \E r \in mem[c].routes : HookRoute(c, r) \/ HookRouteFails(c, r)
  PROVE  NetTypeOK'
<1> NetTypeOK
  BY DEF NetInv
<1>1. /\ c \in Actor /\ c \notin Command /\ mem[c] \in Memory /\ file[c] \in Conf
      /\ mem[c].nics \in SUBSET Nic /\ mem[c].routes \in SUBSET Route
  BY ActorTypes, ThisNicType DEF NetTypeOK, NetContainersTypeOK, Memory
<1>2. StepsTypeOK'
  <2>1. \/ UNCHANGED pc
        \/ \E l \in {"mount", "open", "each", "abort", "done", "create", "delete", "routes",
                     "unmount"} : Goto(c, l)
    BY DEF ReadConfig, MountNetns, StartFails, OpenNetns, HookNicsDone, HookRoutesDone,
       UnmountNetns, HookNic, HookRoute, HookRouteFails
  <2>2. CASE UNCHANGED pc
    BY <2>2 DEF NetTypeOK, NetProcessesTypeOK, StepsTypeOK
  <2> QED
    BY <1>1, <2>1, <2>2, GotoType DEF HookStep
<1>3. mem' \in [Actor -> Memory]
  <2>1. [NoMemory EXCEPT !.conf = file[c], !.nics = file[c].nics, !.routes = file[c].routes]
          \in Memory
    BY <1>1, EmptyTypes DEF Memory, Conf
  <2>2. \A n \in mem[c].nics : [mem[c] EXCEPT !.nics = @ \ {n}, !.nic = n, !.lnk = NoOne] \in Memory
    BY <1>1, FieldTypes
  <2>3. \A r : [mem[c] EXCEPT !.routes = @ \ {r}] \in Memory
    BY <1>1, FieldTypes
  <2> QED
    BY <1>1, <2>1, <2>2, <2>3, RememberType
    DEF ReadConfig, MountNetns, StartFails, OpenNetns, HookNicsDone, HookRoutesDone,
        UnmountNetns, HookNic, HookRoute, HookRouteFails
<1>4. err' \in [Actor -> BOOLEAN]
  BY <1>1, FailType
  DEF ReadConfig, MountNetns, StartFails, OpenNetns, HookNicsDone, HookRoutesDone,
      UnmountNetns, HookNic, HookRoute, HookRouteFails
<1>5. rtable' \in SUBSET KernelRoute /\ UNCHANGED link
  <2>1. UNCHANGED link /\ (UNCHANGED rtable \/ \E r \in Route : RouteAdd(NsOf(c), r))
    BY <1>1
    DEF ReadConfig, MountNetns, StartFails, OpenNetns, HookNicsDone, HookRoutesDone,
        UnmountNetns, HookNic, HookRoute, HookRouteFails, kernelVars
  <2>2. CASE UNCHANGED rtable
    BY <2>1, <2>2 DEF NetTypeOK, KernelTypeOK
  <2> QED
    BY <2>1, <2>2, RouteAddType
<1>6. netns' \in [Container -> Seq(Nat)]
  BY NetnsType
  DEF ReadConfig, OpenNetns, HookNicsDone, HookRoutesDone, HookNic, HookRoute, HookRouteFails,
      ctrVars, NetTypeOK, KernelTypeOK
<1>7. faults' \in Nat
  BY FaultType
  DEF ReadConfig, MountNetns, StartFails, OpenNetns, HookNicsDone, HookRoutesDone,
      UnmountNetns, HookNic, HookRoute, HookRouteFails, NoFault, envVars
<1>8. UNCHANGED <<lockVars, st, inc, job, noteVars, crashes>>
  BY DEF ReadConfig, MountNetns, StartFails, OpenNetns, HookNicsDone, HookRoutesDone,
      UnmountNetns, HookNic, HookRoute, HookRouteFails, ctrVars, envVars
<1>9. NetProcessesTypeOK'
  BY <1>2, <1>3, <1>4, <1>8 DEF StepsTypeOK, NetTypeOK, NetProcessesTypeOK
<1>10. NetContainersTypeOK'
  BY <1>7, <1>8 DEF NetTypeOK, NetContainersTypeOK, lockVars, noteVars
<1> QED
  BY <1>5, <1>6, <1>9, <1>10 DEF NetTypeOK, KernelTypeOK

\* Starts, stops, the end of a hook and kills keep the types.
LEMMA LifeType ==
  ASSUME NetTypeOK, NEW a \in Actor,
         \/ Crash(a)
         \/ a \in Container /\ (\/ StartContainer(a) \/ StopContainer(a)
                                \/ AbortStart(a) \/ HookReturns(a))
  PROVE  NetTypeOK'
<1>1. Cid(a) \in Container /\ (a \in Container => Cid(a) = a /\ a \notin Command)
  BY CidType, ActorTypes DEF NetTypeOK, Cid
<1>2. StepsTypeOK'
  <2>1. \E l \in {"read", "abort", "done", "idle"} :
          Goto(a, l) /\ (l # "done" => a \in Container)
    BY DEF StartContainer, StopContainer, AbortStart, HookReturns, Crash
  <2> QED
    BY <1>1, <2>1, GotoType DEF HookStep, CommandStep
<1>3. mem' \in [Actor -> Memory] /\ err' \in [Actor -> BOOLEAN]
  BY ForgetType, FailType DEF StartContainer, StopContainer, AbortStart, HookReturns, Crash,
     NetTypeOK, NetProcessesTypeOK
<1>4. disturbed' \in [Container -> BOOLEAN] /\ pending' \in [Container -> BOOLEAN]
  <2>1. UNCHANGED disturbed \/ \E x : Disturb(Cid(a), x)
    BY <1>1 DEF StartContainer, StopContainer, AbortStart, HookReturns, Crash
  <2>2. disturbed' \in [Container -> BOOLEAN]
    BY <1>1, <2>1, MarkType DEF NetTypeOK, NetContainersTypeOK
  <2>3. pending' \in [Container -> BOOLEAN]
    BY DEF StartContainer, StopContainer, AbortStart, HookReturns, Crash, NetTypeOK,
       NetContainersTypeOK
  <2> QED
    BY <2>2, <2>3
<1>5. /\ st' \in [Container -> {"stopped", "creating", "running", "stopping"}]
      /\ inc' \in [Container -> Nat]
      /\ flock' \in [Container -> Command \cup {NoOne}]
      /\ crashes' \in Nat /\ faults' \in Nat
  <2>1. /\ st \in [Container -> {"stopped", "creating", "running", "stopping"}]
        /\ inc \in [Container -> Nat] /\ flock \in [Container -> Command \cup {NoOne}]
        /\ crashes \in Nat /\ faults \in Nat
    BY DEF NetTypeOK, NetContainersTypeOK
  <2>2. CASE Crash(a)
    <3>1. flock' = [c \in Container |-> IF flock[c] = a THEN NoOne ELSE flock[c]]
      BY <2>2 DEF Crash
    <3>2. flock' \in [Container -> Command \cup {NoOne}]
      BY <2>1, <3>1
    <3> QED
      BY <2>1, <2>2, <3>2 DEF Crash, ctrVars
  <2>3. CASE a \in Container /\ (StartContainer(a) \/ StopContainer(a))
    BY <2>1, <2>3 DEF StartContainer, StopContainer, lockVars, envVars
  <2>4. CASE a \in Container /\ (AbortStart(a) \/ HookReturns(a))
    BY <2>1, <2>4 DEF AbortStart, HookReturns, lockVars, envVars
  <2> QED
    BY <2>2, <2>3, <2>4
<1>6. UNCHANGED <<file, netns, kernelVars, job>>
  BY DEF StartContainer, StopContainer, AbortStart, HookReturns, Crash, lockVars, ctrVars
<1>7. NetProcessesTypeOK'
  BY <1>2, <1>3, <1>6 DEF StepsTypeOK, NetTypeOK, NetProcessesTypeOK
<1>8. NetContainersTypeOK'
  BY <1>4, <1>5, <1>6 DEF NetTypeOK, NetContainersTypeOK
<1> QED
  BY <1>6, <1>7, <1>8, Frame DEF NetTypeOK

\* What the kernel does with the interfaces of a namespace that ends.
LEMMA GoneType ==
  ASSUME NetTypeOK, NEW l \in Link, NamespaceGone(l)
  PROVE  NetTypeOK'
<1>1. Moved(HostNs, NameBack(link[l].name, Tmp)) \in LinkState
  <2>1. link[l].name \in Name
    BY DEF NetTypeOK, KernelTypeOK, LinkState
  <2> QED
    BY <2>1, HomeTypes, MovedType DEF NameBack
<1>2. LinksTypeOK'
  BY <1>1, DeleteType, ChangeType DEF NamespaceGone
<1>3. UNCHANGED <<lockVars, ctrVars, pc, job, mem, err, noteVars, envVars>>
  BY DEF NamespaceGone
<1> QED
  BY <1>2, <1>3, Frame DEF NetTypeOK, ctrVars

-----------------------------------------------------------------------------
(***************************************************************************)
(* A step of one process leaves the others alone                           *)
(***************************************************************************)
StepOf(a) ==
  \/ a \in Command /\ (CommandNext(a) \/ \E r \in Requests : Begin(a, r))
  \/ a \in Container /\ (HookNext(a) \/ StartContainer(a) \/ StopContainer(a))
  \/ Crash(a)

\* Only process a moves, remembers, or fails, and only its netns file changes.
MovesOnly(a) ==
  /\ UNCHANGED pc \/ \E l : Goto(a, l)
  /\ UNCHANGED mem \/ \E m : Remember(a, m)
  /\ UNCHANGED err \/ \E v : err' = [err EXCEPT ![a] = v]
  /\ UNCHANGED job \/ (a \in Command /\ \E v : job' = [job EXCEPT ![a] = v])
  /\ UNCHANGED netns \/ (a \in Container /\ \E v : netns' = [netns EXCEPT ![a] = v])

\* Every step is a step of one process, or of the kernel.
LEMMA NextIsStep ==
  ASSUME Next
  PROVE  (\E a \in Actor : StepOf(a)) \/ \E l \in Link : NamespaceGone(l)
<1>1. ASSUME NEW p \in Command, CommandNext(p) PROVE \E a \in Actor : StepOf(a)
  BY <1>1, ActorTypes DEF StepOf
<1>2. ASSUME NEW c \in Container, HookNext(c) PROVE \E a \in Actor : StepOf(a)
  BY <1>2, ActorTypes DEF StepOf
<1>3. ASSUME Environment PROVE \E a \in Actor : StepOf(a)
  BY <1>3, ActorTypes DEF StepOf, Environment
<1> QED
  BY <1>1, <1>2, <1>3 DEF Next

LEMMA DriverMoves ==
  ASSUME NEW a \in Actor, DriverStep(a)
  PROVE  /\ MovesOnly(a)
         /\ pc[a] \in {"create", "joinhost", "joinctr", "delete", "delhost"}
         /\ UNCHANGED <<job, netns>>
<1>1. /\ pc[a] \in {"create", "joinhost", "joinctr", "delete", "delhost"}
      /\ UNCHANGED <<job, netns>>
  BY DEF DriverStep, CreatePair, CreatePairFails, TakeEth, TakeEthFails, JoinHost, JoinHostFails,
     JoinCtr, JoinCtrFails, DeletePair, DeletePairFails, DeleteEth, DeleteEthFails, NameEth,
     NameEthFails, EthNotFound, ctrVars
<1>2. UNCHANGED err \/ Fail(a)
  BY DEF DriverStep, CreatePair, CreatePairFails, TakeEth, TakeEthFails, JoinHost, JoinHostFails,
     JoinCtr, JoinCtrFails, DeletePair, DeletePairFails, DeleteEth, DeleteEthFails, NameEth,
     NameEthFails, EthNotFound, Added, AddFailed, Deleted, DeleteFailed
<1>3. UNCHANGED mem \/ \E m : Remember(a, m)
  BY DEF DriverStep, CreatePair, CreatePairFails, TakeEth, TakeEthFails, JoinHost, JoinHostFails,
     JoinCtr, JoinCtrFails, DeletePair, DeletePairFails, DeleteEth, DeleteEthFails, NameEth,
     NameEthFails, EthNotFound, Added, AddFailed, Deleted, DeleteFailed
<1>4. \E l : Goto(a, l)
  BY DEF DriverStep, CreatePair, CreatePairFails, TakeEth, TakeEthFails, JoinHost, JoinHostFails,
     JoinCtr, JoinCtrFails, DeletePair, DeletePairFails, DeleteEth, DeleteEthFails, NameEth,
     NameEthFails, EthNotFound, Added, AddFailed, Deleted, DeleteFailed
<1> QED
  BY <1>1, <1>2, <1>3, <1>4 DEF MovesOnly, Fail

\* A command that takes a step has begun, and keeps its request.
LEMMA CommandMoves ==
  ASSUME NEW p \in Command, CommandNext(p)
  PROVE  MovesOnly(p) /\ Busy(p) /\ UNCHANGED <<job, ctrVars>>
<1> p \in Actor
  BY ActorTypes
<1>1. CASE DriverStep(p)
  <2>1. UNCHANGED ctrVars
    BY <1>1 DEF DriverStep, CreatePair, CreatePairFails, TakeEth, TakeEthFails, JoinHost,
       JoinHostFails, JoinCtr, JoinCtrFails, DeletePair, DeletePairFails, DeleteEth,
       DeleteEthFails, NameEth, NameEthFails, EthNotFound
  <2> QED
    BY <1>1, <2>1, DriverMoves DEF Busy
<1>2. CASE LockAndLoad(p) \/ Flush(p) \/ RoutesDone(p)
  BY <1>2 DEF LockAndLoad, Flush, RoutesDone, MovesOnly, Forget, Busy, ctrVars
<1>3. CASE AddNic(p) \/ DelNic(p) \/ UpdateNic(p)
  <2>1. pc[p] = "begin" /\ UNCHANGED <<job, ctrVars>> /\ \E l : Goto(p, l)
    BY <1>3 DEF AddNic, DelNic, UpdateNic, GiveUp
  <2>2. UNCHANGED err \/ \E v : err' = [err EXCEPT ![p] = v]
    BY <1>3 DEF AddNic, DelNic, UpdateNic, GiveUp
  <2>3. UNCHANGED mem \/ \E m : Remember(p, m)
    BY <1>3 DEF AddNic, DelNic, UpdateNic, GiveUp
  <2> QED
    BY <2>1, <2>2, <2>3 DEF MovesOnly, Busy, ctrVars
<1>4. CASE \/ ConfigureHost(p) \/ ConfigureHostFails(p)
           \/ ConfigureCtr(p) \/ ConfigureCtrFails(p)
  BY <1>4 DEF ConfigureHost, ConfigureHostFails, ConfigureCtr, ConfigureCtrFails, UpdateFailed,
     MovesOnly, Fail, Busy, ctrVars
<1>5. CASE \/ \E r \in mem[p].routes : \/ RefuseRoute(p, r) \/ AddRoute(p, r)
                                       \/ AddRouteFails(p, r) \/ TakePattern(p, r)
           \/ \E r \in mem[p].matching : DelRoute(p, r) \/ DelRouteFails(p, r)
  BY <1>5 DEF RefuseRoute, AddRoute, AddRouteFails, TakePattern, DelRoute, DelRouteFails,
     MovesOnly, Fail, Busy, ctrVars
<1> QED
  BY <1>1, <1>2, <1>3, <1>4, <1>5 DEF CommandNext

LEMMA HookMoves ==
  ASSUME NEW c \in Container, HookNext(c) \/ StartContainer(c) \/ StopContainer(c)
  PROVE  MovesOnly(c) /\ UNCHANGED job
<1> c \in Actor
  BY ActorTypes
<1>1. CASE DriverStep(c)
  BY <1>1, DriverMoves
<1>2. CASE \/ ReadConfig(c) \/ MountNetns(c) \/ StartFails(c) \/ OpenNetns(c) \/ HookNicsDone(c)
           \/ HookRoutesDone(c) \/ UnmountNetns(c)
  BY <1>2 DEF ReadConfig, MountNetns, StartFails, OpenNetns, HookNicsDone, HookRoutesDone,
     UnmountNetns, MovesOnly, Fail, ctrVars
<1>3. CASE \/ \E n \in mem[c].nics : HookNic(c, n)
           \/ \E r \in mem[c].routes : HookRoute(c, r) \/ HookRouteFails(c, r)
  BY <1>3 DEF HookNic, HookRoute, HookRouteFails, MovesOnly, Fail, ctrVars
<1>4. CASE AbortStart(c) \/ HookReturns(c) \/ StartContainer(c) \/ StopContainer(c)
  BY <1>4 DEF AbortStart, HookReturns, StartContainer, StopContainer, MovesOnly, Forget, Fail
<1> QED
  BY <1>1, <1>2, <1>3, <1>4 DEF HookNext

LEMMA StepMoves ==
  ASSUME NEW a \in Actor, StepOf(a)
  PROVE  MovesOnly(a)
<1>1. ASSUME a \in Command, NEW r \in Requests, Begin(a, r) PROVE MovesOnly(a)
  BY <1>1 DEF Begin, MovesOnly, ctrVars
<1>2. CASE Crash(a)
  BY <1>2 DEF Crash, MovesOnly, Forget, Fail, ctrVars
<1> QED
  BY <1>1, <1>2, CommandMoves, HookMoves DEF StepOf

\* Process x is where it was and knows what it knew.
Kept(x) ==
  /\ pc'[x] = pc[x] /\ mem'[x] = mem[x] /\ err'[x] = err[x]
  /\ x \in Command => job'[x] = job[x]
  /\ x \in Container => netns'[x] = netns[x]

LEMMA OthersStay ==
  ASSUME NetTypeOK, NEW a \in Actor, StepOf(a), NEW x \in Actor \ {a}
  PROVE  Kept(x)
<1>1. MovesOnly(a)
  BY StepMoves
<1>2. /\ pc \in [Actor -> CommandStep \cup HookStep] /\ mem \in [Actor -> Memory]
      /\ err \in [Actor -> BOOLEAN] /\ job \in [Command -> [req: Request, pid: Nat]]
      /\ netns \in [Container -> Seq(Nat)]
  BY DEF NetTypeOK, NetProcessesTypeOK, KernelTypeOK
<1> QED
  BY <1>1, <1>2 DEF MovesOnly, Kept, Goto, Remember

-----------------------------------------------------------------------------
\* A command keeps to what it was asked for.
LEMMA AskedKept ==
  ASSUME NetInv, NEW a \in Actor, StepOf(a)
  PROVE  Asked'
<1> NetTypeOK /\ Asked
  BY DEF NetInv
<1>1. ASSUME NEW p \in Command, p # a PROVE pc'[p] # "idle" => job'[p].req \in Requests
  BY <1>1, OthersStay, ActorTypes DEF Kept, Asked
<1>2. ASSUME a \in Command PROVE pc'[a] # "idle" => job'[a].req \in Requests
  <2>1. CASE CommandNext(a)
    BY <1>2, <2>1, CommandMoves DEF Busy, Asked
  <2>2. ASSUME NEW r \in Requests, Begin(a, r) PROVE job'[a].req \in Requests
    BY <1>2, <2>2 DEF Begin, NetTypeOK, NetProcessesTypeOK
  <2>3. CASE Crash(a)
    BY <1>2, <2>3 DEF Crash, Asked
  <2> QED
    BY <1>2, <2>1, <2>2, <2>3, ActorTypes DEF StepOf
<1> QED
  BY <1>1, <1>2 DEF Asked

\* A hook works on the nics only where there is a netns file.
LEMMA NetnsKept ==
  ASSUME NetInv, NEW a \in Actor, StepOf(a)
  PROVE  NetnsFound'
<1> NetTypeOK /\ NetnsFound
  BY DEF NetInv
<1> DEFINE inside == {"each", "create", "joinhost", "joinctr", "delete", "delhost", "unmount"}
<1>1. ASSUME NEW c \in Container, c # a PROVE pc'[c] \in inside => netns'[c] # <<>>
  BY <1>1, OthersStay, ActorTypes DEF Kept, NetnsFound
<1>2. ASSUME a \in Container PROVE pc'[a] \in inside => netns'[a] # <<>>
  <2>1. pc \in [Actor -> CommandStep \cup HookStep] /\ netns \in [Container -> Seq(Nat)]
        /\ inc[a] \in Nat /\ a \notin Command
    BY <1>2, ActorTypes DEF NetTypeOK, NetProcessesTypeOK, KernelTypeOK, NetContainersTypeOK
  <2>2. CASE DriverStep(a)
    BY <1>2, <2>2, DriverMoves DEF NetnsFound
  <2>3. CASE MountNetns(a)
    <3>1. FileIn(netns[a]) \in Seq(Nat)
      BY <1>2, <2>1 DEF FileIn
    <3>2. <<inc[a]>> \o FileIn(netns[a]) # <<>>
      BY <2>1, <3>1
    <3> QED
      BY <1>2, <2>1, <2>3, <3>2 DEF MountNetns
  <2>4. CASE OpenNetns(a)
    BY <1>2, <2>1, <2>4 DEF OpenNetns, Goto, ctrVars
  <2>5. CASE HookNicsDone(a) \/ \E n \in mem[a].nics : HookNic(a, n)
    BY <1>2, <2>1, <2>5 DEF HookNicsDone, HookNic, Goto, ctrVars, NetnsFound
  <2>6. CASE \E r \in mem[a].routes : HookRoute(a, r) \/ HookRouteFails(a, r)
    BY <1>2, <2>1, <2>6 DEF HookRoute, HookRouteFails, Goto
  <2>7. CASE \/ ReadConfig(a) \/ StartFails(a) \/ HookRoutesDone(a) \/ UnmountNetns(a)
             \/ AbortStart(a) \/ HookReturns(a) \/ StartContainer(a) \/ StopContainer(a)
             \/ Crash(a)
    BY <1>2, <2>1, <2>7 DEF ReadConfig, StartFails, HookRoutesDone, UnmountNetns, AbortStart,
       HookReturns, StartContainer, StopContainer, Crash, Goto
  <2> QED
    BY <1>2, <2>1, <2>2, <2>3, <2>4, <2>5, <2>6, <2>7 DEF StepOf, HookNext
<1> QED
  BY <1>1, <1>2 DEF NetnsFound

\* The invariant that the types need.
LEMMA NetInvCorrect == Spec => []NetInv
<1>1. NetInv /\ [Next]_vars => NetInv'
  <2> SUFFICES ASSUME NetInv, [Next]_vars PROVE NetInv'
    OBVIOUS
  <2> NetTypeOK
    BY DEF NetInv
  <2>1. ASSUME NEW p \in Command, CommandNext(p) PROVE NetTypeOK'
    BY <2>1, ActorTypes, FileStepType, NicStepType, RouteStepType, ConfigureType, DriverType
    DEF CommandNext
  <2>2. ASSUME NEW c \in Container, HookNext(c) PROVE NetTypeOK'
    BY <2>2, ActorTypes, HookType, LifeType, DriverType DEF HookNext
  <2>3. ASSUME Environment PROVE NetTypeOK'
    BY <2>3, BeginType, LifeType, ActorTypes DEF Environment
  <2>4. ASSUME Next PROVE NetTypeOK'
    BY <2>1, <2>2, <2>3, <2>4, GoneType DEF Next
  <2>5. ASSUME Next PROVE Asked' /\ NetnsFound'
    <3>1. ASSUME NEW l \in Link, NamespaceGone(l) PROVE Asked' /\ NetnsFound'
      BY <3>1 DEF NamespaceGone, ctrVars, NetInv, Asked, NetnsFound
    <3> QED
      BY <2>5, <3>1, NextIsStep, AskedKept, NetnsKept
  <2>6. ASSUME UNCHANGED vars PROVE NetInv'
    BY <2>6, Frame DEF vars, ctrVars, NetInv, NetTypeOK, Asked, NetnsFound
  <2> QED
    BY <2>4, <2>5, <2>6 DEF NetInv
<1> QED
  BY <1>1, InitInv, PTL DEF Spec

\* Every variable keeps its type: the commands, the drivers, the hooks and the
\* kernel work on the nics, names and namespaces the code works on.
THEOREM NetTypesCorrect == Spec => []NetTypeOK
<1>1. NetInv => NetTypeOK
  BY DEF NetInv
<1> QED
  BY <1>1, NetInvCorrect, PTL



-----------------------------------------------------------------------------
(***************************************************************************)
(* Names of nics                                                           *)
(***************************************************************************)
\* What a command line may name is named by at most one nic of a container.
LEMMA OneByName ==
  ASSUME NEW nics \in SUBSET Nic, Distinct(nics), NEW arg \in NicArg,
         NEW n \in FindInterfaceByName(nics, arg), NEW e \in FindInterfaceByName(nics, arg)
  PROVE  n = e
<1>1. n \in nics /\ e \in nics /\ n.ctr # Empty /\ e.ctr # Empty /\ n.host # Empty /\ e.host # Empty
  BY NetNamesAssumption DEF FindInterfaceByName, Nic
<1>2. n.ctr = e.ctr \/ n.host = e.host
  BY <1>1 DEF FindInterfaceByName
<1> QED
  BY <1>1, <1>2 DEF Distinct

\* The nic that update-nic means is the one with the name in the container.
LEMMA OldByName ==
  ASSUME NEW nics \in SUBSET Nic, NEW arg \in NicArg
  PROVE  FindInterfaceByName(nics, [NoArg EXCEPT !.ctr = arg.ctr]) = {e \in nics : e.ctr = arg.ctr}
<1> DEFINE a == [NoArg EXCEPT !.ctr = arg.ctr]
<1>1. a.type = Empty /\ a.host = Empty /\ a.ctr = arg.ctr
  BY DEF NoArg
<1>2. \A e \in nics : e.host # Empty /\ e.ctr # Empty
  BY NetNamesAssumption DEF Nic
<1> HIDE DEF a
<1> QED
  BY <1>1, <1>2 DEF FindInterfaceByName, a

\* A nic that conflicts with none may join the others.
LEMMA JoinDistinct ==
  ASSUME NEW nics \in SUBSET Nic, Distinct(nics), NEW n \in Nic, ~ IsConflictInterface(nics, n)
  PROVE  Distinct(nics \cup {n}) /\ n \notin nics
  BY DEF Distinct, IsConflictInterface, IsConflictNic

LEMMA FewerDistinct ==
  ASSUME NEW nics, Distinct(nics), NEW fewer \in SUBSET nics
  PROVE  Distinct(fewer)
  BY DEF Distinct

\* NetStore speaks of nics and routes as Network does.
LEMMA SameOperators ==
  /\ \A nics, arg : Store!FindInterfaceByName(nics, arg) = FindInterfaceByName(nics, arg)
  /\ \A n, e : Store!IsSameNic(n, e) <=> IsSameNic(n, e)
  /\ \A n, arg : Store!Merged(n, arg) = Merged(n, arg)
  /\ \A r, e : Store!IsSameRoute(r, e) <=> IsSameRoute(r, e)
  BY DEF Store!FindInterfaceByName, FindInterfaceByName, Store!IsSameNic, IsSameNic, Store!Agrees,
     Agrees, Store!Merged, Merged, Store!Given, Given, Store!IsSameRoute, IsSameRoute, Empty,
     Store!Empty

-----------------------------------------------------------------------------
(***************************************************************************)
(* The invariant                                                           *)
(***************************************************************************)
\* Of a command: m is its memory, q its request, e its error, s the file.
Adds(m, q, s) ==
  /\ m.nic = q.nic /\ q.nic \notin s.nics
  /\ m.conf.nics = s.nics \cup {q.nic} /\ m.conf.routes = s.routes
  /\ Distinct(m.conf.nics)

Removes(m, q, s) ==
  /\ m.nic \in FindInterfaceByName(s.nics, q.nic)
  /\ m.conf.nics = s.nics \ {m.nic} /\ m.conf.routes = s.routes

Updates(m, q, s) ==
  \E old \in s.nics :
    /\ old.ctr = q.nic.ctr
    /\ m.nic = Merged(old, q.nic)
    /\ ~ IsConflictInterface(s.nics \ {old}, m.nic)

AddsRoutes(m, q, s) ==
  /\ s.routes \subseteq m.conf.routes /\ m.conf.routes \subseteq s.routes \cup q.routes
  /\ q.routes \ m.routes \subseteq m.conf.routes

Means(q, e) == \E r \in q.routes : IsSameRoute(r, e)

RemovesRoutes(m, q, e, s) ==
  /\ m.conf.routes \subseteq s.routes
  /\ \A x \in s.routes \ m.conf.routes : Means(q, x)
  /\ \A x \in m.matching : Means(q, x)
  /\ ~ e => \A r \in q.routes \ m.routes, x \in m.conf.routes :
               IsSameRoute(r, x) => x \in m.matching

\* What is to be written back.
Writes(m, q, e, s) ==
  /\ Store!Effect(q, s, m.conf, ~ e)
  /\ Distinct(m.conf.nics)
  /\ ~ m.dirty => m.conf = s

Served(l, m, q, e, s) ==
  /\ l \notin {"routes", "flush", "done"} => ~ e
  /\ l \in {"begin", "confhost", "confctr"} => m.conf = s /\ ~ m.dirty
  /\ l = "begin" => q.op \in {"add-nic", "remove-nic", "update-nic"}
  /\ l \in {"create", "joinhost", "joinctr"} => q.op = "add-nic" /\ m.dirty /\ Adds(m, q, s)
  /\ l \in {"delete", "delhost"} => q.op = "remove-nic" /\ m.dirty /\ Removes(m, q, s)
  /\ l \in {"confhost", "confctr"} => q.op = "update-nic" /\ Updates(m, q, s)
  /\ l = "routes" =>
       /\ m.conf.nics = s.nics /\ m.routes \subseteq q.routes
       /\ ~ m.dirty => m.conf = s
       /\ \/ q.op = "add-route" /\ ~ e /\ AddsRoutes(m, q, s)
          \/ q.op = "remove-route" /\ RemovesRoutes(m, q, e, s)
  /\ l = "flush" => Writes(m, q, e, s)

Locked == CommandStep \ {"idle", "lock", "done"}

CommandInv(p) ==
  /\ pc[p] \in Locked => flock[Cid(p)] = p
  /\ Served(pc[p], mem[p], Req(p), err[p], file[Cid(p)])

StoreInv == NicsDistinct /\ \A p \in Command : CommandInv(p)

-----------------------------------------------------------------------------
\* Which steps read and write the configuration files and their locks.
LEMMA LockSteps ==
  ASSUME NEW a \in Actor, StepOf(a)
  PROVE  \/ UNCHANGED <<file, flock>>
         \/ a \in Command /\ (LockAndLoad(a) \/ Flush(a))
         \/ Crash(a)
<1>1. CASE DriverStep(a)
  BY <1>1 DEF DriverStep, CreatePair, CreatePairFails, TakeEth, TakeEthFails, JoinHost,
     JoinHostFails, JoinCtr, JoinCtrFails, DeletePair, DeletePairFails, DeleteEth,
     DeleteEthFails, NameEth, NameEthFails, EthNotFound, lockVars
<1>2. CASE a \in Command /\ CommandNext(a)
  BY <1>1, <1>2 DEF CommandNext, AddNic, DelNic, UpdateNic, ConfigureHost, ConfigureHostFails,
     ConfigureCtr, ConfigureCtrFails, RefuseRoute, AddRoute, AddRouteFails, TakePattern,
     DelRoute, DelRouteFails, RoutesDone, lockVars
<1>3. CASE a \in Container /\ (HookNext(a) \/ StartContainer(a) \/ StopContainer(a))
  BY <1>1, <1>3 DEF HookNext, ReadConfig, MountNetns, StartFails, OpenNetns, HookNicsDone,
     HookRoutesDone, UnmountNetns, HookNic, HookRoute, HookRouteFails, AbortStart,
     HookReturns, StartContainer, StopContainer, lockVars
<1> QED
  BY <1>2, <1>3 DEF StepOf, Begin, lockVars

\* A command serves one container.
LEMMA CommandCid ==
  ASSUME NetTypeOK, NEW p \in Command
  PROVE  /\ p \in Actor /\ p \notin Container /\ p # NoOne
         /\ Cid(p) = Req(p).cid /\ Cid(p) \in Container /\ Req(p) \in Request
         /\ Req(p).nic \in NicArg /\ file[Cid(p)] \in Conf
         /\ file[Cid(p)].nics \in SUBSET Nic /\ mem[p] \in Memory
<1>1. p \in Actor /\ p \notin Container /\ p # NoOne
  BY ActorTypes, NetActorsAssumption
<1>2. job[p] \in [req: Request, pid: Nat]
  BY DEF NetTypeOK, NetProcessesTypeOK
<1>3. Cid(p) = Req(p).cid /\ Cid(p) \in Container /\ Req(p) \in Request /\ Req(p).nic \in NicArg
  BY <1>1, <1>2 DEF Cid, Req, Request
<1>4. file[Cid(p)] \in Conf
  BY <1>3 DEF NetTypeOK, NetContainersTypeOK
<1> QED
  BY <1>1, <1>3, <1>4, ThisNicType DEF Conf

\* The lock keeps the others from the file.
LEMMA OthersStoreInv ==
  ASSUME NetTypeOK, NetTypeOK', StoreInv, NEW a \in Actor, StepOf(a),
         NEW x \in Command, x # a
  PROVE  CommandInv(x)'
<1>1. x \in Actor /\ Kept(x) /\ Cid(x) \in Container
  BY OthersStay, CommandCid
<1>2. /\ pc'[x] = pc[x] /\ mem'[x] = mem[x] /\ err'[x] = err[x]
      /\ Req(x)' = Req(x) /\ Cid(x)' = Cid(x)
  BY <1>1, CommandCid DEF Kept, Req, Cid
<1>3. CommandInv(x)
  BY DEF StoreInv
<1>4. ASSUME pc[x] \in Locked
      PROVE  flock'[Cid(x)] = x /\ file'[Cid(x)] = file[Cid(x)]
  <2>1. flock[Cid(x)] = x
    BY <1>3, <1>4 DEF CommandInv
  <2>2. flock \in [Container -> Command \cup {NoOne}] /\ file \in [Container -> Conf]
    BY DEF NetTypeOK, NetContainersTypeOK
  <2>3. CASE UNCHANGED <<file, flock>>
    BY <2>1, <2>3
  <2>4. CASE a \in Command /\ LockAndLoad(a)
    <3>1. Cid(a) # Cid(x)
      BY <2>1, <2>4, CommandCid DEF LockAndLoad, CanLock
    <3> QED
      BY <1>1, <2>1, <2>2, <2>4, <3>1 DEF LockAndLoad
  <2>5. CASE a \in Command /\ Flush(a)
    <3>1. flock[Cid(a)] = a
      BY <2>5 DEF StoreInv, CommandInv, Locked, Flush, CommandStep
    <3>2. Cid(a) # Cid(x)
      BY <2>1, <3>1
    <3> QED
      BY <1>1, <2>1, <2>2, <2>5, <3>2 DEF Flush, Unlocked
  <2>6. CASE Crash(a)
    BY <1>1, <2>1, <2>6 DEF Crash
  <2> QED
    BY <2>3, <2>4, <2>5, <2>6, LockSteps
<1>5. CASE pc[x] \in Locked
  BY <1>2, <1>3, <1>4, <1>5 DEF CommandInv
<1>6. CASE pc[x] \notin Locked
  <2>1. pc[x] \in {"idle", "lock", "done"}
    BY <1>6 DEF Locked, NetTypeOK, NetProcessesTypeOK
  <2> QED
    BY <1>2, <1>3, <1>6, <2>1 DEF CommandInv, Served
<1> QED
  BY <1>5, <1>6

-----------------------------------------------------------------------------
(***************************************************************************)
(* What may be written                                                     *)
(***************************************************************************)
\* A configuration that is as it was, after an error.
LEMMA RestoredWrites ==
  ASSUME NEW m, NEW q, NEW s, Distinct(s.nics),
         q.op \in {"add-nic", "remove-nic", "update-nic"},
         m.conf.nics = s.nics, m.conf.routes = s.routes, ~ m.dirty => m.conf = s
  PROVE  Writes(m, q, TRUE, s)
  BY DEF Writes, Store!Effect, Store!AddEffect, Store!RemoveEffect, Store!UpdateEffect

LEMMA AddedWrites ==
  ASSUME NEW m, NEW q, NEW s, q.op = "add-nic", m.dirty, Adds(m, q, s)
  PROVE  Writes(m, q, FALSE, s)
  BY DEF Adds, Writes, Store!Effect, Store!AddEffect

LEMMA RemovedWrites ==
  ASSUME NEW m \in Memory, NEW q \in Request, NEW s \in Conf, Distinct(s.nics),
         q.op = "remove-nic", m.dirty, Removes(m, q, s)
  PROVE  Writes(m, q, FALSE, s)
<1>1. s.nics \in SUBSET Nic /\ q.nic \in NicArg
  BY DEF Conf, Request
<1>2. FindInterfaceByName(s.nics, q.nic) = {m.nic}
  BY <1>1, OneByName DEF Removes
<1>3. m.nic \in s.nics
  BY DEF Removes, FindInterfaceByName
<1>4. Distinct(m.conf.nics)
  BY FewerDistinct DEF Removes
<1> QED
  BY <1>2, <1>3, <1>4, SameOperators DEF Removes, Writes, Store!Effect, Store!RemoveEffect

\* The updated nic keeps its name and conflicts with none of the others.
LEMMA UpdatedWrites ==
  ASSUME NEW m \in Memory, NEW q \in Request, NEW s \in Conf, Distinct(s.nics),
         q.op = "update-nic", Updates(m, q, s),
         NEW w \in Memory, w.dirty, w.conf.routes = s.routes,
         w.conf.nics = {e \in s.nics : e.ctr # q.nic.ctr} \cup {m.nic}
  PROVE  Writes(w, q, FALSE, s)
<1>1. s.nics \in SUBSET Nic /\ q.nic \in NicArg
  BY DEF Conf, Request
<1>2. PICK old \in s.nics : /\ old.ctr = q.nic.ctr /\ m.nic = Merged(old, q.nic)
                            /\ ~ IsConflictInterface(s.nics \ {old}, m.nic)
  BY DEF Updates
<1>3. {e \in s.nics : e.ctr # q.nic.ctr} = s.nics \ {old}
  BY <1>1, <1>2 DEF Distinct
<1>4. Distinct(s.nics \ {old}) /\ m.nic \in Nic
  BY <1>1, <1>2, FewerDistinct, MergedType
<1>5. Distinct(w.conf.nics)
  BY <1>1, <1>2, <1>3, <1>4, JoinDistinct
<1> QED
  BY <1>2, <1>3, <1>5, SameOperators DEF Writes, Store!Effect, Store!UpdateEffect

-----------------------------------------------------------------------------
(***************************************************************************)
(* The steps of a command                                                  *)
(***************************************************************************)
\* What SetNics and SetRoutes change, and what they leave.
LEMMA SetFields ==
  ASSUME NetTypeOK, NEW a \in Actor
  PROVE  /\ \A nics : LET m == SetNics(a, nics)
                     IN  /\ m.conf.nics = nics /\ m.conf.routes = Routes(a) /\ m.dirty
                         /\ m.nic = mem[a].nic
         /\ \A routes : LET m == SetRoutes(a, routes)
                       IN  /\ m.conf.routes = routes /\ m.conf.nics = Nics(a) /\ m.dirty
                           /\ m.routes = mem[a].routes /\ m.matching = mem[a].matching
  BY ThisNicType DEF SetNics, SetRoutes, Nics, Routes, Memory, Conf

\* What a process remembers and where it goes.
LEMMA Reads ==
  ASSUME NetTypeOK, NEW a \in Actor
  PROVE  /\ \A l : Goto(a, l) => pc'[a] = l
         /\ \A m : Remember(a, m) => mem'[a] = m
         /\ Fail(a) => err'[a] = TRUE
         /\ \A v : err' = [err EXCEPT ![a] = v] => err'[a] = v
  BY DEF NetTypeOK, NetProcessesTypeOK, Goto, Remember, Fail

\* The own part of the invariant, where the file and the lock do not change.
LEMMA StaysServed ==
  ASSUME NetTypeOK, NEW p \in Command, CommandInv(p), pc[p] \in Locked,
         UNCHANGED <<file, flock, job>>,
         Served(pc'[p], mem'[p], Req(p), err'[p], file[Cid(p)])
  PROVE  CommandInv(p)'
<1>1. Req(p)' = Req(p) /\ Cid(p)' = Cid(p)
  BY DEF Req, Cid
<1> QED
  BY <1>1 DEF CommandInv

\* container.New, and the load under the lock.
LEMMA BeginInv ==
  ASSUME NetTypeOK, StoreInv, NEW p \in Command, NEW r \in Requests, Begin(p, r)
  PROVE  CommandInv(p)'
<1>1. pc[p] = "idle" /\ pc'[p] = "lock" /\ err'[p] = err[p]
  BY CommandCid, Reads DEF Begin
<1>2. ~ err[p]
  BY <1>1 DEF StoreInv, CommandInv, Served
<1> QED
  BY <1>1, <1>2 DEF CommandInv, Served, Locked

LEMMA LoadInv ==
  ASSUME NetTypeOK, StoreInv, NEW p \in Command, LockAndLoad(p)
  PROVE  CommandInv(p)'
<1> DEFINE m == [NoMemory EXCEPT !.conf = file[Cid(p)], !.routes = Req(p).routes]
           l == IF Req(p).op \in {"add-route", "remove-route"} THEN "routes" ELSE "begin"
<1>1. mem'[p] = m /\ pc'[p] = l /\ err'[p] = err[p] /\ pc[p] = "lock"
  BY CommandCid, Reads DEF LockAndLoad
<1>2. ~ err[p]
  BY <1>1 DEF StoreInv, CommandInv, Served
<1>3. /\ m.conf = file[Cid(p)] /\ ~ m.dirty /\ m.routes = Req(p).routes /\ m.matching = {}
  BY DEF NoMemory
<1>4. Req(p).op \in Op
  BY CommandCid DEF Request
<1>5. flock'[Cid(p)] = p /\ UNCHANGED <<file, job>>
  BY CommandCid DEF LockAndLoad, NetTypeOK, NetContainersTypeOK
<1>6. Req(p)' = Req(p) /\ Cid(p)' = Cid(p)
  BY <1>5 DEF Req, Cid
<1> HIDE DEF m
<1>7. Served(l, m, Req(p), err[p], file[Cid(p)])
  BY <1>2, <1>3, <1>4 DEF Served, AddsRoutes, RemovesRoutes, Op
<1> QED
  BY <1>1, <1>5, <1>6, <1>7 DEF CommandInv

\* AddNic, DelNic and UpdateNic, up to the work in the container.
LEMMA NicStepInv ==
  ASSUME NetInv, StoreInv, NEW p \in Command, AddNic(p) \/ DelNic(p) \/ UpdateNic(p)
  PROVE  Served(pc'[p], mem'[p], Req(p), err'[p], file[Cid(p)])
<1> NetTypeOK
  BY DEF NetInv
<1> DEFINE s == file[Cid(p)]  q == Req(p)
<1>1. /\ pc[p] = "begin" /\ p \in Actor /\ q \in Requests /\ q \in Request /\ q.nic \in NicArg
      /\ s \in Conf /\ s.nics \in SUBSET Nic /\ mem[p] \in Memory
  BY CommandCid DEF AddNic, DelNic, UpdateNic, NetInv, Asked, Req
<1>2. /\ mem[p].conf = s /\ ~ mem[p].dirty /\ err[p] = FALSE /\ Nics(p) = s.nics /\ Routes(p) = s.routes
      /\ Distinct(s.nics)
      /\ q.op \in {"add-nic", "remove-nic", "update-nic"}
  BY <1>1, CommandCid DEF StoreInv, CommandInv, Served, Nics, Routes, NicsDistinct, NetTypeOK,
     NetProcessesTypeOK
<1>3. ASSUME \/ GiveUp(p, TRUE)
             \/ GiveUp(p, FALSE) /\ Writes(mem[p], q, FALSE, s)
      PROVE  Served(pc'[p], mem'[p], q, err'[p], s)
  <2>1. pc'[p] = "flush" /\ mem'[p] = mem[p] /\ err'[p] \in {TRUE, FALSE}
        /\ (~ err'[p] => Writes(mem[p], q, FALSE, s))
    BY <1>1, <1>3, Reads DEF GiveUp
  <2>2. Writes(mem[p], q, TRUE, s)
    BY <1>2, RestoredWrites
  <2> HIDE DEF s, q
  <2> QED
    BY <2>1, <2>2 DEF Served
<1>4. CASE AddNic(p)
  <2>1. CASE GiveUp(p, TRUE)
    BY <1>3, <2>1
  <2>2. CASE ~ GiveUp(p, TRUE)
    <3> DEFINE m == [SetNics(p, Nics(p) \cup {q.nic}) EXCEPT !.nic = q.nic]
               l == IF Applies(p) THEN "create" ELSE "flush"
    <3>1. /\ ~ IsConflictInterface(s.nics, q.nic) /\ q.op = "add-nic"
          /\ mem'[p] = m /\ pc'[p] = l /\ err'[p] = err[p]
      BY <1>1, <1>2, <1>4, <2>2, Reads DEF AddNic
    <3>2. q.nic \in Nic
      BY <1>1, <3>1, RequestTypes
    <3>3. m.conf.nics = s.nics \cup {q.nic} /\ m.conf.routes = s.routes /\ m.dirty /\ m.nic = q.nic
      <4>1. SetNics(p, Nics(p) \cup {q.nic}) \in Memory
        BY <1>1, <1>2, <3>2, SetTypes
      <4> QED
        BY <1>1, <1>2, <4>1, SetFields DEF Memory
    <3>4. Served(pc'[p], mem'[p], q, err'[p], s)
      <4> HIDE DEF m, s, q
      <4>1. Adds(m, q, s)
        BY <1>1, <1>2, <3>1, <3>2, <3>3, JoinDistinct DEF Adds
      <4>2. Writes(m, q, FALSE, s)
        BY <3>1, <3>3, <4>1, AddedWrites
      <4> QED
        BY <1>2, <3>1, <3>3, <4>1, <4>2 DEF Served
    <3> QED
      BY <3>4
  <2> QED
    BY <2>1, <2>2
<1>5. CASE DelNic(p)
  <2>1. CASE GiveUp(p, TRUE)
    BY <1>3, <2>1
  <2>2. CASE ~ GiveUp(p, TRUE)
    <3>1. PICK n \in FindInterfaceByName(s.nics, q.nic) :
            /\ Remember(p, [SetNics(p, WithoutNic(Nics(p), n)) EXCEPT !.nic = n])
            /\ Goto(p, IF Alive(p) THEN "delete" ELSE "flush")
            /\ UNCHANGED err /\ q.op = "remove-nic"
      BY <1>2, <1>5, <2>2 DEF DelNic
    <3> DEFINE m == [SetNics(p, WithoutNic(Nics(p), n)) EXCEPT !.nic = n]
               l == IF Alive(p) THEN "delete" ELSE "flush"
    <3>2. mem'[p] = m /\ pc'[p] = l /\ err'[p] = err[p]
      BY <1>1, <3>1, Reads
    <3>3. n \in Nic
      BY <1>1, <3>1 DEF FindInterfaceByName
    <3>4. /\ m.conf.nics = s.nics \ {n} /\ m.conf.routes = s.routes /\ m.dirty /\ m.nic = n
          /\ m \in Memory
      <4> DEFINE base == SetNics(p, WithoutNic(Nics(p), n))
      <4>1. WithoutNic(Nics(p), n) = s.nics \ {n}
        BY <1>2 DEF WithoutNic
      <4>2. base \in Memory
        BY <1>1, <4>1, SetTypes
      <4>3. base.conf.nics = s.nics \ {n} /\ base.conf.routes = s.routes /\ base.dirty
        BY <1>1, <1>2, <4>1, SetFields
      <4>4. m = [base EXCEPT !.nic = n]
        OBVIOUS
      <4> HIDE DEF base, m
      <4> QED
        BY <3>3, <4>2, <4>3, <4>4, FieldTypes DEF Memory
    <3>5. Served(pc'[p], mem'[p], q, err'[p], s)
      <4> HIDE DEF m, s, q
      <4>1. Removes(m, q, s)
        BY <3>1, <3>4 DEF Removes
      <4>2. Writes(m, q, FALSE, s)
        BY <1>1, <1>2, <3>1, <3>4, <4>1, RemovedWrites
      <4> QED
        BY <1>2, <3>1, <3>2, <3>4, <4>1, <4>2 DEF Served
    <3> QED
      BY <3>5
  <2> QED
    BY <2>1, <2>2
<1>6. CASE UpdateNic(p)
  <2>1. Old(p) = {e \in s.nics : e.ctr = q.nic.ctr} /\ q.op = "update-nic"
    BY <1>1, <1>2, <1>6, OldByName DEF Old, UpdateNic
  <2>2. CASE GiveUp(p, TRUE)
    BY <1>3, <2>2
  <2>3. ASSUME NEW old \in Old(p), IsSameInterface(Nics(p), Merged(old, q.nic)), GiveUp(p, FALSE)
        PROVE  Served(pc'[p], mem'[p], q, err'[p], s)
    <3>1. old \in s.nics /\ old.ctr = q.nic.ctr /\ old \in Nic
      BY <1>1, <2>1, <2>3
    <3>2. PICK e \in s.nics : IsSameNic(Merged(old, q.nic), e)
      BY <1>2, <2>3 DEF IsSameInterface
    <3>3. Merged(old, q.nic).ctr = old.ctr /\ old.ctr # Empty
      BY <1>1, <3>1, NetNamesAssumption DEF Merged, Nic
    <3>4. e = old
      BY <1>2, <3>1, <3>2, <3>3 DEF IsSameNic, Agrees, Distinct
    <3>5. Writes(mem[p], q, FALSE, s)
      BY <1>2, <2>1, <3>1, <3>2, <3>4, SameOperators DEF Writes, Store!Effect, Store!UpdateEffect
    <3> QED
      BY <1>3, <2>3, <3>5
  <2>4. ASSUME NEW old \in Old(p), ~ IsConflictInterface(WithoutNic(Nics(p), old), Merged(old, q.nic)),
               UNCHANGED err,
               IF Applies(p)
               THEN /\ Remember(p, [mem[p] EXCEPT !.nic = Merged(old, q.nic)])
                    /\ \E l \in {"confhost", "confctr"} : Goto(p, l)
               ELSE Remember(p, Updated(p, Merged(old, q.nic))) /\ Goto(p, "flush")
        PROVE  Served(pc'[p], mem'[p], q, err'[p], s)
    <3> DEFINE m == [mem[p] EXCEPT !.nic = Merged(old, q.nic)]
               w == Updated(p, Merged(old, q.nic))
    <3>1. old \in s.nics /\ old.ctr = q.nic.ctr /\ old \in Nic /\ Merged(old, q.nic) \in Nic
      BY <1>1, <2>1, <2>4, MergedType
    <3>2. /\ m \in Memory /\ m.nic = Merged(old, q.nic) /\ m.conf = s /\ ~ m.dirty
      BY <1>1, <1>2, <3>1, FieldTypes DEF Memory
    <3>3. Updates(m, q, s)
      BY <1>2, <2>4, <3>1, <3>2 DEF Updates, WithoutNic
    <3>4. CASE Applies(p)
      <4>1. mem'[p] = m /\ pc'[p] \in {"confhost", "confctr"} /\ err'[p] = err[p]
        BY <1>1, <2>4, <3>4, Reads
      <4> HIDE DEF m, s, q
      <4> QED
        BY <1>2, <2>1, <3>2, <3>3, <4>1 DEF Served
    <3>5. CASE ~ Applies(p)
      <4>1. mem'[p] = w /\ pc'[p] = "flush" /\ err'[p] = err[p]
        BY <1>1, <2>4, <3>5, Reads
      <4>2. (Nics(p) \ Old(p)) \cup {Merged(old, q.nic)} \in SUBSET Nic
        BY <1>1, <1>2, <3>1
      <4>3. /\ w \in Memory /\ w.dirty /\ w.conf.routes = s.routes
            /\ w.conf.nics = (s.nics \ Old(p)) \cup {m.nic}
        BY <1>1, <1>2, <3>2, <4>2, SetTypes, SetFields DEF Updated
      <4>4. s.nics \ Old(p) = {e \in s.nics : e.ctr # q.nic.ctr}
        BY <2>1
      <4> HIDE DEF m, w, s, q
      <4>5. Writes(w, q, FALSE, s)
        BY <1>1, <1>2, <2>1, <3>2, <3>3, <4>3, <4>4, UpdatedWrites
      <4> QED
        BY <1>2, <4>1, <4>5 DEF Served
    <3> QED
      BY <3>4, <3>5
  <2> QED
    BY <1>6, <2>2, <2>3, <2>4 DEF UpdateNic
<1> QED
  BY <1>4, <1>5, <1>6

\* The drivers' reports leave what is to be written.
LEMMA DriverInv ==
  ASSUME NetInv, StoreInv, NEW p \in Command, DriverStep(p)
  PROVE  Served(pc'[p], mem'[p], Req(p), err'[p], file[Cid(p)])
<1> NetTypeOK
  BY DEF NetInv
<1> DEFINE s == file[Cid(p)]  q == Req(p)  m == mem[p]
<1>1. /\ p \in Actor /\ q \in Request /\ s \in Conf /\ s.nics \in SUBSET Nic /\ m \in Memory
      /\ Distinct(s.nics) /\ Served(pc[p], m, q, err[p], s)
      /\ pc[p] \in {"create", "joinhost", "joinctr", "delete", "delhost"}
  BY CommandCid, DriverMoves DEF StoreInv, CommandInv, NicsDistinct
<1>2. err[p] = FALSE /\ m.dirty
  BY <1>1 DEF Served, NetTypeOK, NetProcessesTypeOK
<1>3. ASSUME NEW fewer \in SUBSET Nic
      PROVE  /\ SetNics(p, fewer).conf.nics = fewer
             /\ SetNics(p, fewer).conf.routes = m.conf.routes /\ SetNics(p, fewer).dirty
  BY <1>1, SetFields DEF Routes
<1>4. CASE pc[p] \in {"create", "joinhost", "joinctr"}
  <2>1. q.op = "add-nic" /\ Adds(m, q, s)
    BY <1>1, <1>4 DEF Served
  <2>2. CASE Added(p)
    <3>1. pc'[p] = "flush" /\ mem'[p] = m /\ err'[p] = FALSE
      BY <1>1, <1>2, <2>2, Reads DEF Added
    <3>2. Writes(m, q, FALSE, s)
      BY <1>2, <2>1, AddedWrites
    <3> HIDE DEF m, q, s
    <3>3. Served(pc'[p], mem'[p], q, err'[p], s)
      BY <3>1, <3>2 DEF Served
    <3> QED
      BY <3>3 DEF q, s
  <2>3. CASE AddFailed(p)
    <3> DEFINE w == SetNics(p, WithoutNic(Nics(p), ThisNic(p)))
    <3>1. pc'[p] = "flush" /\ mem'[p] = w /\ err'[p] = TRUE
      BY <1>1, <2>3, Reads DEF AddFailed
    <3>2. WithoutNic(Nics(p), ThisNic(p)) = s.nics
      BY <2>1 DEF WithoutNic, Nics, ThisNic, Adds
    <3>3. w.conf.nics = s.nics /\ w.conf.routes = s.routes /\ w.dirty
      BY <1>1, <1>3, <2>1, <3>2 DEF Adds
    <3> HIDE DEF w, m, q, s
    <3>4. Writes(w, q, TRUE, s)
      BY <1>1, <2>1, <3>3, RestoredWrites
    <3>5. Served(pc'[p], mem'[p], q, err'[p], s)
      BY <3>1, <3>4 DEF Served
    <3> QED
      BY <3>5 DEF q, s
  <2>4. CASE CreatePair(p) \/ TakeEth(p) \/ JoinHost(p)
    <3>1. pc'[p] \in {"joinhost", "joinctr"} /\ err'[p] = FALSE
      BY <1>1, <1>2, <2>4, Reads DEF CreatePair, TakeEth, JoinHost
    <3>2. mem'[p] = m \/ \E l : mem'[p] = [m EXCEPT !.lnk = l]
      BY <1>1, <2>4, Reads DEF CreatePair, TakeEth, JoinHost
    <3>3. mem'[p].conf = m.conf /\ mem'[p].nic = m.nic /\ mem'[p].dirty = m.dirty
      BY <1>1, <3>2 DEF Memory
    <3> HIDE DEF m, q, s
    <3>4. Served(pc'[p], mem'[p], q, err'[p], s)
      BY <1>2, <2>1, <3>1, <3>3 DEF Served, Adds
    <3> QED
      BY <3>4 DEF q, s
  <2> QED
    BY <1>4, <2>2, <2>3, <2>4
    DEF DriverStep, CreatePairFails, TakeEthFails, JoinHostFails, JoinCtr, JoinCtrFails,
        DeletePair, DeletePairFails, DeleteEth, DeleteEthFails, NameEth, NameEthFails, EthNotFound
<1>5. CASE pc[p] \in {"delete", "delhost"}
  <2>1. q.op = "remove-nic" /\ Removes(m, q, s)
    BY <1>1, <1>5 DEF Served
  <2>2. CASE Deleted(p)
    <3>1. pc'[p] = "flush" /\ mem'[p] = m /\ err'[p] = FALSE
      BY <1>1, <1>2, <2>2, Reads DEF Deleted
    <3>2. Writes(m, q, FALSE, s)
      BY <1>1, <1>2, <2>1, RemovedWrites
    <3> HIDE DEF m, q, s
    <3>3. Served(pc'[p], mem'[p], q, err'[p], s)
      BY <3>1, <3>2 DEF Served
    <3> QED
      BY <3>3 DEF q, s
  <2>3. CASE DeleteFailed(p)
    <3> DEFINE w == SetNics(p, Nics(p) \cup {ThisNic(p)})
    <3>1. pc'[p] = "flush" /\ mem'[p] = w /\ err'[p] = TRUE
      BY <1>1, <2>3, Reads DEF DeleteFailed
    <3>2. Nics(p) \cup {ThisNic(p)} = s.nics
      BY <2>1 DEF Nics, ThisNic, Removes, FindInterfaceByName
    <3>3. w.conf.nics = s.nics /\ w.conf.routes = s.routes /\ w.dirty
      BY <1>1, <1>3, <2>1, <3>2 DEF Removes
    <3> HIDE DEF w, m, q, s
    <3>4. Writes(w, q, TRUE, s)
      BY <1>1, <2>1, <3>3, RestoredWrites
    <3>5. Served(pc'[p], mem'[p], q, err'[p], s)
      BY <3>1, <3>4 DEF Served
    <3> QED
      BY <3>5 DEF q, s
  <2>4. CASE DeleteEth(p) /\ ~ Deleted(p)
    <3>1. PICK l : Remember(p, [m EXCEPT !.lnk = l]) /\ Goto(p, "delhost") /\ UNCHANGED err
      BY <2>4 DEF DeleteEth
    <3>2. pc'[p] = "delhost" /\ err'[p] = FALSE /\ mem'[p] = [m EXCEPT !.lnk = l]
      BY <1>1, <1>2, <3>1, Reads
    <3>3. mem'[p].conf = m.conf /\ mem'[p].nic = m.nic /\ mem'[p].dirty = m.dirty
      BY <1>1, <3>2 DEF Memory
    <3> HIDE DEF m, q, s
    <3>4. Served(pc'[p], mem'[p], q, err'[p], s)
      BY <1>2, <2>1, <3>2, <3>3 DEF Served, Removes
    <3> QED
      BY <3>4 DEF q, s
  <2> QED
    BY <1>5, <2>2, <2>3, <2>4
    DEF DriverStep, CreatePair, CreatePairFails, TakeEth, TakeEthFails, JoinHost, JoinHostFails,
        JoinCtr, JoinCtrFails, DeletePair, DeletePairFails, DeleteEthFails, NameEth,
        NameEthFails, EthNotFound
<1> QED
  BY <1>1, <1>4, <1>5

\* UpdateNic saves when the container has been changed, and only then.
LEMMA ConfigureInv ==
  ASSUME NetInv, StoreInv, NEW p \in Command,
         \/ ConfigureHost(p) \/ ConfigureHostFails(p)
         \/ ConfigureCtr(p) \/ ConfigureCtrFails(p)
  PROVE  Served(pc'[p], mem'[p], Req(p), err'[p], file[Cid(p)])
<1> NetTypeOK
  BY DEF NetInv
<1> DEFINE s == file[Cid(p)]  q == Req(p)  m == mem[p]
<1>1. /\ p \in Actor /\ q \in Request /\ q.nic \in NicArg /\ s \in Conf /\ s.nics \in SUBSET Nic
      /\ m \in Memory /\ m.nic \in Nic /\ Distinct(s.nics) /\ Served(pc[p], m, q, err[p], s)
      /\ pc[p] \in {"confhost", "confctr"}
  BY CommandCid
  DEF StoreInv, CommandInv, NicsDistinct, Memory, ConfigureHost, ConfigureHostFails, ConfigureCtr,
      ConfigureCtrFails
<1>2. /\ err[p] = FALSE /\ m.conf = s /\ ~ m.dirty /\ q.op = "update-nic" /\ Updates(m, q, s)
  BY <1>1 DEF Served, NetTypeOK, NetProcessesTypeOK
<1>3. CASE ConfigureHost(p)
  <2>1. pc'[p] = "confctr" /\ mem'[p] = m /\ err'[p] = FALSE
    BY <1>1, <1>2, <1>3, Reads DEF ConfigureHost
  <2> HIDE DEF m, q, s
  <2>2. Served(pc'[p], mem'[p], q, err'[p], s)
    BY <1>2, <2>1 DEF Served
  <2> QED
    BY <2>2 DEF q, s
<1>4. CASE UpdateFailed(p)
  <2>1. pc'[p] = "flush" /\ mem'[p] = m /\ err'[p] = TRUE
    BY <1>1, <1>4, Reads DEF UpdateFailed
  <2> HIDE DEF m, q, s
  <2>2. Writes(m, q, TRUE, s)
    BY <1>1, <1>2, RestoredWrites
  <2>3. Served(pc'[p], mem'[p], q, err'[p], s)
    BY <2>1, <2>2 DEF Served
  <2> QED
    BY <2>3 DEF q, s
<1>5. CASE ConfigureCtr(p)
  <2> DEFINE w == Updated(p, ThisNic(p))
  <2>1. pc'[p] = "flush" /\ mem'[p] = w /\ err'[p] = FALSE
    BY <1>1, <1>2, <1>5, Reads DEF ConfigureCtr
  <2>2. Nics(p) = s.nics /\ Routes(p) = s.routes /\ ThisNic(p) = m.nic
    BY <1>2 DEF Nics, Routes, ThisNic
  <2>3. Nics(p) \ Old(p) = {e \in s.nics : e.ctr # q.nic.ctr}
    BY <1>1, <2>2, OldByName DEF Old
  <2>4. (Nics(p) \ Old(p)) \cup {ThisNic(p)} \in SUBSET Nic
    BY <1>1, <2>2, <2>3
  <2>5. /\ w \in Memory /\ w.dirty /\ w.conf.routes = s.routes
        /\ w.conf.nics = {e \in s.nics : e.ctr # q.nic.ctr} \cup {m.nic}
    BY <1>1, <2>2, <2>3, <2>4, SetTypes, SetFields DEF Updated
  <2> HIDE DEF w, m, q, s
  <2>6. Writes(w, q, FALSE, s)
    BY <1>1, <1>2, <2>5, UpdatedWrites
  <2>7. Served(pc'[p], mem'[p], q, err'[p], s)
    BY <2>1, <2>6 DEF Served
  <2> QED
    BY <2>7 DEF q, s
<1> QED
  BY <1>3, <1>4, <1>5 DEF ConfigureHostFails, ConfigureCtrFails

\* What AddRoutes and DelRoutes have in memory when they return.
LEMMA AddedRoutesWrites ==
  ASSUME NEW m, NEW q, NEW e \in BOOLEAN, NEW s, Distinct(s.nics), q.op = "add-route",
         m.conf.nics = s.nics, ~ m.dirty => m.conf = s,
         s.routes \subseteq m.conf.routes, m.conf.routes \subseteq s.routes \cup q.routes,
         ~ e => q.routes \subseteq m.conf.routes
  PROVE  Writes(m, q, e, s)
  BY DEF Writes, Store!Effect, Store!AddRoutesEffect

LEMMA RemovedRoutesWrites ==
  ASSUME NEW m, NEW q, NEW e \in BOOLEAN, NEW s, Distinct(s.nics), q.op = "remove-route",
         m.conf.nics = s.nics, ~ m.dirty => m.conf = s,
         m.conf.routes \subseteq s.routes, \A x \in s.routes \ m.conf.routes : Means(q, x),
         ~ e => \A x \in m.conf.routes : ~ Means(q, x)
  PROVE  Writes(m, q, e, s)
<1>1. \A x : Store!Meant(q.routes, x) <=> Means(q, x)
  BY SameOperators DEF Store!Meant, Means
<1> QED
  BY <1>1 DEF Writes, Store!Effect, Store!RemoveRoutesEffect

\* AddRoutes adds one route after another until one is refused or fails.
LEMMA AddRoutesInv ==
  ASSUME NetInv, StoreInv, NEW p \in Command, Req(p).op = "add-route",
         \/ \E r \in mem[p].routes : RefuseRoute(p, r) \/ AddRoute(p, r) \/ AddRouteFails(p, r)
         \/ RoutesDone(p)
  PROVE  Served(pc'[p], mem'[p], Req(p), err'[p], file[Cid(p)])
<1> NetTypeOK
  BY DEF NetInv
<1> DEFINE s == file[Cid(p)]  q == Req(p)  m == mem[p]
<1>1. /\ p \in Actor /\ q \in Request /\ s \in Conf /\ m \in Memory /\ Distinct(s.nics)
      /\ Served(pc[p], m, q, err[p], s) /\ pc[p] = "routes" /\ q.op = "add-route"
  BY CommandCid
  DEF StoreInv, CommandInv, NicsDistinct, RefuseRoute, AddRoute, AddRouteFails, RoutesDone
<1>2. /\ err[p] = FALSE /\ AddsRoutes(m, q, s) /\ m.conf.nics = s.nics /\ m.routes \subseteq q.routes
      /\ ~ m.dirty => m.conf = s
  BY <1>1 DEF Served, NetTypeOK, NetProcessesTypeOK
<1>3. ASSUME NEW r \in m.routes, AddRoute(p, r)
      PROVE  Served(pc'[p], mem'[p], q, err'[p], s)
  <2> DEFINE base == SetRoutes(p, Routes(p) \cup {r})
             w == [base EXCEPT !.routes = @ \ {r}]
  <2>1. mem'[p] = w /\ pc'[p] = "routes" /\ err'[p] = FALSE
    BY <1>1, <1>2, <1>3, Reads DEF AddRoute
  <2>2. r \in Route /\ Routes(p) \cup {r} \in SUBSET Route
    BY <1>1, ThisNicType DEF Memory
  <2>3. base \in Memory
    BY <1>1, <2>2, SetTypes
  <2>4. /\ base.conf.nics = s.nics /\ base.conf.routes = m.conf.routes \cup {r} /\ base.dirty
        /\ base.routes = m.routes
    BY <1>1, <1>2, SetFields DEF Nics, Routes
  <2> HIDE DEF base, q, s, m
  <2>5. /\ w.conf = base.conf /\ w.dirty /\ w.routes = m.routes \ {r}
    BY <2>3, <2>4 DEF Memory
  <2>6. AddsRoutes(w, q, s)
    BY <1>2, <1>3, <2>4, <2>5 DEF AddsRoutes
  <2> QED
    BY <1>1, <1>2, <2>1, <2>4, <2>5, <2>6 DEF Served
<1>4. ASSUME NEW r \in m.routes, RefuseRoute(p, r) \/ AddRouteFails(p, r)
      PROVE  Served(pc'[p], mem'[p], q, err'[p], s)
  <2> DEFINE w == SetRoutes(p, Routes(p))
  <2>1. (mem'[p] = m \/ mem'[p] = w) /\ pc'[p] = "flush" /\ err'[p] = TRUE
    BY <1>1, <1>4, Reads DEF RefuseRoute, AddRouteFails
  <2>2. w.conf.nics = s.nics /\ w.conf.routes = m.conf.routes /\ w.dirty
    BY <1>1, <1>2, SetFields DEF Nics, Routes
  <2> HIDE DEF w, q, s, m
  <2>3. Writes(m, q, TRUE, s)
    BY <1>1, <1>2, AddedRoutesWrites DEF AddsRoutes
  <2>4. Writes(w, q, TRUE, s)
    BY <1>1, <1>2, <2>2, AddedRoutesWrites DEF AddsRoutes
  <2> QED
    BY <2>1, <2>3, <2>4 DEF Served
<1>5. ASSUME RoutesDone(p) PROVE Served(pc'[p], mem'[p], q, err'[p], s)
  <2>1. mem'[p] = m /\ pc'[p] = "flush" /\ err'[p] = FALSE /\ m.routes = {}
    BY <1>1, <1>2, <1>5, Reads DEF RoutesDone
  <2> HIDE DEF q, s, m
  <2>2. Writes(m, q, FALSE, s)
    BY <1>1, <1>2, <2>1, AddedRoutesWrites DEF AddsRoutes
  <2> QED
    BY <2>1, <2>2 DEF Served
<1> QED
  BY <1>3, <1>4, <1>5

\* DelRoutes removes what each of the patterns means, and goes on after a failure.
LEMMA DelRoutesInv ==
  ASSUME NetInv, StoreInv, NEW p \in Command, Req(p).op = "remove-route",
         \/ \E r \in mem[p].routes : TakePattern(p, r)
         \/ \E r \in mem[p].matching : DelRoute(p, r) \/ DelRouteFails(p, r)
         \/ RoutesDone(p)
  PROVE  Served(pc'[p], mem'[p], Req(p), err'[p], file[Cid(p)])
<1> NetTypeOK
  BY DEF NetInv
<1> DEFINE s == file[Cid(p)]  q == Req(p)  m == mem[p]  e == err[p]
<1>1. /\ p \in Actor /\ q \in Request /\ s \in Conf /\ m \in Memory /\ Distinct(s.nics)
      /\ Served(pc[p], m, q, e, s) /\ pc[p] = "routes" /\ q.op = "remove-route" /\ e \in BOOLEAN
  BY CommandCid
  DEF StoreInv, CommandInv, NicsDistinct, TakePattern, DelRoute, DelRouteFails, RoutesDone,
      NetTypeOK, NetProcessesTypeOK
<1>2. /\ RemovesRoutes(m, q, e, s) /\ m.conf.nics = s.nics /\ m.routes \subseteq q.routes
      /\ ~ m.dirty => m.conf = s
  BY <1>1 DEF Served
<1>3. ASSUME NEW r \in m.routes, TakePattern(p, r)
      PROVE  Served(pc'[p], mem'[p], q, err'[p], s)
  <2> DEFINE found == GetRoutes(Routes(p), r)
             w == [m EXCEPT !.routes = @ \ {r}, !.matching = found]
  <2>1. /\ mem'[p] = w /\ pc'[p] = "routes" /\ m.matching = {}
        /\ ~ err'[p] => ~ e
    BY <1>1, <1>3, Reads DEF TakePattern, NetTypeOK, NetProcessesTypeOK
  <2>2. found = {x \in m.conf.routes : IsSameRoute(r, x)}
    BY DEF GetRoutes, Routes
  <2> HIDE DEF found, q, s, m, e
  <2>3. /\ w.conf = m.conf /\ w.dirty = m.dirty /\ w.routes = m.routes \ {r}
        /\ w.matching = found
    BY <1>1 DEF Memory
  <2>4. RemovesRoutes(w, q, err'[p], s)
    BY <1>2, <1>3, <2>1, <2>2, <2>3 DEF RemovesRoutes, Means
  <2> HIDE DEF w
  <2> QED
    BY <1>1, <1>2, <2>1, <2>3, <2>4 DEF Served
<1>4. ASSUME NEW r \in m.matching, DelRoute(p, r)
      PROVE  Served(pc'[p], mem'[p], q, err'[p], s)
  <2> DEFINE base == SetRoutes(p, WithoutRoute(Routes(p), r))
             w == [base EXCEPT !.matching = @ \ {r}]
  <2>1. mem'[p] = w /\ pc'[p] = "routes" /\ err'[p] = e
    BY <1>1, <1>4, Reads DEF DelRoute
  <2>2. WithoutRoute(Routes(p), r) = m.conf.routes \ {r}
    BY DEF WithoutRoute, Routes
  <2>3. base \in Memory
    BY <1>1, <2>2, SetTypes DEF Memory, Conf
  <2>4. /\ base.conf.nics = s.nics /\ base.conf.routes = m.conf.routes \ {r} /\ base.dirty
        /\ base.routes = m.routes /\ base.matching = m.matching
    BY <1>1, <1>2, <2>2, SetFields DEF Nics
  <2> HIDE DEF base, q, s, m, e
  <2>5. /\ w.conf = base.conf /\ w.dirty /\ w.routes = m.routes
        /\ w.matching = m.matching \ {r}
    BY <2>3, <2>4 DEF Memory
  <2>6. RemovesRoutes(w, q, e, s)
    BY <1>2, <1>4, <2>4, <2>5 DEF RemovesRoutes
  <2> HIDE DEF w
  <2> QED
    BY <1>1, <1>2, <2>1, <2>4, <2>5, <2>6 DEF Served
<1>5. ASSUME NEW r \in m.matching, DelRouteFails(p, r)
      PROVE  Served(pc'[p], mem'[p], q, err'[p], s)
  <2> DEFINE base == SetRoutes(p, Routes(p))
             w == [base EXCEPT !.matching = @ \ {r}]
  <2>1. mem'[p] = w /\ pc'[p] = "routes" /\ err'[p] = TRUE
    BY <1>1, <1>5, Reads DEF DelRouteFails
  <2>2. base \in Memory
    BY <1>1, ThisNicType, SetTypes
  <2>3. /\ base.conf.nics = s.nics /\ base.conf.routes = m.conf.routes /\ base.dirty
        /\ base.routes = m.routes /\ base.matching = m.matching
    BY <1>1, <1>2, SetFields DEF Nics, Routes
  <2> HIDE DEF base, q, s, m, e
  <2>4. /\ w.conf = base.conf /\ w.dirty /\ w.routes = m.routes
        /\ w.matching = m.matching \ {r}
    BY <2>2, <2>3 DEF Memory
  <2>5. RemovesRoutes(w, q, TRUE, s)
    BY <1>2, <2>3, <2>4 DEF RemovesRoutes
  <2> HIDE DEF w
  <2> QED
    BY <1>1, <1>2, <2>1, <2>3, <2>4, <2>5 DEF Served
<1>6. ASSUME RoutesDone(p) PROVE Served(pc'[p], mem'[p], q, err'[p], s)
  <2>1. mem'[p] = m /\ pc'[p] = "flush" /\ err'[p] = e /\ m.routes = {} /\ m.matching = {}
    BY <1>1, <1>6, Reads DEF RoutesDone
  <2> HIDE DEF q, s, m, e
  <2>2. Writes(m, q, e, s)
    BY <1>1, <1>2, <2>1, RemovedRoutesWrites DEF RemovesRoutes, Means
  <2> QED
    BY <2>1, <2>2 DEF Served
<1> QED
  BY <1>3, <1>4, <1>5, <1>6

-----------------------------------------------------------------------------
(***************************************************************************)
(* The invariant holds                                                     *)
(***************************************************************************)
\* Between the load and the flush a command leaves the files alone.
LEMMA MiddleSteps ==
  ASSUME NetTypeOK, NEW p \in Command, CommandNext(p), ~ LockAndLoad(p), ~ Flush(p)
  PROVE  UNCHANGED <<file, flock, job>> /\ pc[p] \in Locked /\ pc'[p] \in Locked
<1> p \in Actor
  BY CommandCid
<1>1. CASE DriverStep(p)
  <2>1. UNCHANGED <<file, flock, job>> /\ pc[p] \in Locked
    BY <1>1, DriverMoves DEF DriverStep, CreatePair, CreatePairFails, TakeEth, TakeEthFails,
       JoinHost, JoinHostFails, JoinCtr, JoinCtrFails, DeletePair, DeletePairFails, DeleteEth,
       DeleteEthFails, NameEth, NameEthFails, EthNotFound, lockVars, Locked, CommandStep
  <2>2. \E l \in {"joinhost", "joinctr", "delhost", "flush"} : Goto(p, l)
    BY <1>1 DEF DriverStep, CreatePair, CreatePairFails, TakeEth, TakeEthFails,
       JoinHost, JoinHostFails, JoinCtr, JoinCtrFails, DeletePair, DeletePairFails, DeleteEth,
       DeleteEthFails, NameEth, NameEthFails, EthNotFound, Added, AddFailed, Deleted, DeleteFailed
  <2> QED
    BY <2>1, <2>2, Reads DEF Locked, CommandStep
<1>2. CASE AddNic(p) \/ DelNic(p) \/ UpdateNic(p)
  <2>1. \E l \in {"create", "delete", "confhost", "confctr", "flush"} : Goto(p, l)
    BY <1>2 DEF AddNic, DelNic, UpdateNic, GiveUp
  <2> QED
    BY <1>2, <2>1, Reads DEF AddNic, DelNic, UpdateNic, lockVars, Locked, CommandStep
<1>3. CASE \/ ConfigureHost(p) \/ ConfigureHostFails(p)
           \/ ConfigureCtr(p) \/ ConfigureCtrFails(p)
  BY <1>3, Reads DEF ConfigureHost, ConfigureHostFails, ConfigureCtr, ConfigureCtrFails,
     UpdateFailed, lockVars, Locked, CommandStep
<1>4. CASE \/ \E r \in mem[p].routes : \/ RefuseRoute(p, r) \/ AddRoute(p, r)
                                       \/ AddRouteFails(p, r) \/ TakePattern(p, r)
           \/ \E r \in mem[p].matching : DelRoute(p, r) \/ DelRouteFails(p, r)
           \/ RoutesDone(p)
  BY <1>4, Reads DEF RefuseRoute, AddRoute, AddRouteFails, TakePattern, DelRoute, DelRouteFails,
     RoutesDone, lockVars, Locked, CommandStep
<1> QED
  BY <1>1, <1>2, <1>3, <1>4 DEF CommandNext

\* The steps of a command keep its part of the invariant.
LEMMA OwnStoreInv ==
  ASSUME NetInv, StoreInv, NEW p \in Command, StepOf(p)
  PROVE  CommandInv(p)'
<1> NetTypeOK /\ p \in Actor /\ p \notin Container
  BY CommandCid DEF NetInv
<1>1. CASE pc'[p] = "done"
  BY <1>1 DEF CommandInv, Served, Locked
<1>2. CASE CommandNext(p) /\ ~ LockAndLoad(p) /\ ~ Flush(p)
  <2>1. Req(p).op \in {"add-route", "remove-route"} \/ pc[p] # "routes"
    BY DEF StoreInv, CommandInv, Served
  <2>2. Served(pc'[p], mem'[p], Req(p), err'[p], file[Cid(p)])
    <3>1. ASSUME \/ \E r \in mem[p].routes : \/ RefuseRoute(p, r) \/ AddRoute(p, r)
                                             \/ AddRouteFails(p, r)
          PROVE  Served(pc'[p], mem'[p], Req(p), err'[p], file[Cid(p)])
      BY <3>1, AddRoutesInv DEF RefuseRoute, AddRoute, AddRouteFails
    <3>2. ASSUME \/ \E r \in mem[p].routes : TakePattern(p, r)
                 \/ \E r \in mem[p].matching : DelRoute(p, r) \/ DelRouteFails(p, r)
          PROVE  Served(pc'[p], mem'[p], Req(p), err'[p], file[Cid(p)])
      BY <3>2, DelRoutesInv DEF TakePattern, DelRoute, DelRouteFails
    <3>3. ASSUME RoutesDone(p)
          PROVE  Served(pc'[p], mem'[p], Req(p), err'[p], file[Cid(p)])
      BY <2>1, <3>3, AddRoutesInv, DelRoutesInv DEF RoutesDone
    <3> QED
      BY <1>2, <3>1, <3>2, <3>3, NicStepInv, ConfigureInv, DriverInv DEF CommandNext
  <2>3. UNCHANGED <<file, flock, job>> /\ pc[p] \in Locked
    BY <1>2, MiddleSteps
  <2> QED
    BY <2>2, <2>3, StaysServed DEF StoreInv
<1>3. CASE Flush(p) \/ Crash(p)
  BY <1>1, <1>3, Reads DEF Flush, Crash
<1> QED
  BY <1>2, <1>3, BeginInv, LoadInv DEF StepOf

\* Flush writes what the command has in memory.
LEMMA FlushWrites ==
  ASSUME NetTypeOK, StoreInv, NEW p \in Command, Flush(p)
  PROVE  /\ file' = [file EXCEPT ![Cid(p)] = mem[p].conf]
         /\ Writes(mem[p], Req(p), err[p], file[Cid(p)])
<1>1. Writes(mem[p], Req(p), err[p], file[Cid(p)])
  BY DEF StoreInv, CommandInv, Served, Flush
<1>2. CASE mem[p].dirty
  BY <1>1, <1>2 DEF Flush
<1>3. CASE ~ mem[p].dirty
  BY <1>1, <1>3 DEF Flush, Writes, NetTypeOK, NetContainersTypeOK
<1> QED
  BY <1>1, <1>2, <1>3

\* No conflict is ever written.
LEMMA DistinctKept ==
  ASSUME NetTypeOK, StoreInv, NEW a \in Actor, StepOf(a)
  PROVE  NicsDistinct'
<1>1. NicsDistinct /\ file \in [Container -> Conf]
  BY DEF StoreInv, NetTypeOK, NetContainersTypeOK
<1>2. CASE a \in Command /\ Flush(a)
  <2>1. Distinct(mem[a].conf.nics) /\ file' = [file EXCEPT ![Cid(a)] = mem[a].conf]
    BY <1>2, FlushWrites DEF Writes
  <2> QED
    BY <1>1, <1>2, <2>1, CommandCid DEF NicsDistinct
<1>3. CASE UNCHANGED file
  BY <1>1, <1>3 DEF NicsDistinct
<1> QED
  BY <1>2, <1>3, LockSteps DEF LockAndLoad, Crash

\* Initially no command is under way; later every step keeps the invariant.
LEMMA StoreInvCorrect == Spec => []StoreInv
<1>1. Init => StoreInv
  <2> SUFFICES ASSUME Init PROVE StoreInv
    OBVIOUS
  <2>1. \A c \in Container : Distinct(file[c].nics)
    BY NetRequestsAssumption DEF Init
  <2>2. \A p \in Command : pc[p] = "idle" /\ ~ err[p]
    BY ActorTypes DEF Init
  <2> QED
    BY <2>1, <2>2 DEF StoreInv, NicsDistinct, CommandInv, Served, Locked
<1>2. NetInv /\ NetInv' /\ StoreInv /\ [Next]_vars => StoreInv'
  <2> SUFFICES ASSUME NetInv, NetInv', StoreInv, [Next]_vars PROVE StoreInv'
    OBVIOUS
  <2>1. NetTypeOK /\ NetTypeOK'
    BY DEF NetInv
  <2>2. ASSUME NEW a \in Actor, StepOf(a) PROVE StoreInv'
    <3>1. ASSUME NEW p \in Command PROVE CommandInv(p)'
      BY <2>1, <2>2, <3>1, OthersStoreInv, OwnStoreInv
    <3> QED
      BY <2>1, <2>2, <3>1, DistinctKept DEF StoreInv
  <2>3. ASSUME UNCHANGED <<file, flock, pc, job, mem, err>> PROVE StoreInv'
    <3>1. \A p \in Command : Req(p)' = Req(p) /\ Cid(p)' = Cid(p)
      BY <2>3 DEF Req, Cid
    <3> QED
      BY <2>3, <3>1 DEF StoreInv, NicsDistinct, CommandInv
  <2>4. ASSUME NEW l \in Link, NamespaceGone(l) PROVE StoreInv'
    BY <2>3, <2>4 DEF NamespaceGone, lockVars
  <2> QED
    BY <2>2, <2>3, <2>4, NextIsStep DEF vars, lockVars
<1> QED
  BY <1>1, <1>2, NetInvCorrect, PTL DEF Spec

\* No two nics of a container share a name, an address or a hardware address: the
\* checks of AddNic and UpdateNic are made under the lock, on what is written.
THEOREM NicsAlwaysDistinct == Spec => []NicsDistinct
<1>1. StoreInv => NicsDistinct
  BY DEF StoreInv
<1> QED
  BY <1>1, StoreInvCorrect, PTL

-----------------------------------------------------------------------------
(***************************************************************************)
(* The refinement                                                          *)
(***************************************************************************)
\* Flush has the whole effect, and reports what is true.
LEMMA FlushApplies ==
  ASSUME NetTypeOK, StoreInv, NEW p \in Command, Flush(p)
  PROVE  Store!Apply(p)
<1>1. /\ p \in Actor /\ Cid(p) = job[p].req.cid /\ Cid(p) \in Container
      /\ file \in [Container -> Conf] /\ pc \in [Actor -> CommandStep \cup HookStep]
  BY CommandCid DEF Req, NetTypeOK, NetContainersTypeOK, NetProcessesTypeOK
<1>2. pc[p] = "flush" /\ pc'[p] = "done" /\ UNCHANGED <<job, err>>
  BY <1>1, Reads DEF Flush
<1>3. \A x \in Command : x # p => pc'[x] = pc[x]
  BY <1>1, CommandCid DEF Flush, Goto
<1>4. /\ file' = [file EXCEPT ![Cid(p)] = mem[p].conf]
      /\ Store!Effect(job[p].req, file[Cid(p)], mem[p].conf, ~ err[p])
  BY FlushWrites DEF Writes, Req
<1> DEFINE phase == [x \in Command |-> IF Busy(x) THEN "pending" ELSE pc[x]]
           order == [x \in Command |-> job[x].req]
           ok    == [x \in Command |-> pc[x] = "done" /\ ~ err[x]]
<1>5. phase[p] = "pending" /\ phase' = [phase EXCEPT ![p] = "done"]
  <2>1. \A x \in Command : phase'[x] = IF x = p THEN "done" ELSE phase[x]
    BY <1>2, <1>3 DEF Busy
  <2> QED
    BY <1>2, <2>1 DEF Busy
<1>6. ok' = [ok EXCEPT ![p] = ~ err[p]] /\ ok'[p] = ~ err[p]
  <2>1. \A x \in Command : ok'[x] = IF x = p THEN ~ err[p] ELSE ok[x]
    BY <1>2, <1>3
  <2> QED
    BY <2>1
<1>7. order' = order /\ order[p] = job[p].req
  BY <1>2
<1>8. file'[Cid(p)] = mem[p].conf
  BY <1>1, <1>4
<1> HIDE DEF phase, order, ok
<1>9. /\ Store!Effect(order[p], file[order[p].cid], file'[order[p].cid], ok'[p])
      /\ file' = [file EXCEPT ![order[p].cid] = file'[order[p].cid]]
      /\ ok' = [ok EXCEPT ![p] = ok'[p]]
  BY <1>1, <1>4, <1>6, <1>7, <1>8
<1> QED
  BY <1>5, <1>7, <1>9 DEF Store!Apply, phase, order, ok

\* A command that begins is submitted.
LEMMA BeginSubmits ==
  ASSUME NetTypeOK, NEW p \in Command, NEW r \in Requests, Begin(p, r)
  PROVE  Store!Submit(p)
<1>1. p \in Actor /\ pc \in [Actor -> CommandStep \cup HookStep]
      /\ job \in [Command -> [req: Request, pid: Nat]]
  BY ActorTypes DEF NetTypeOK, NetProcessesTypeOK
<1>2. pc[p] = "idle" /\ pc'[p] = "lock" /\ UNCHANGED <<file, err>>
  BY <1>1 DEF Begin, Goto, lockVars
<1>3. \A x \in Command : x # p => pc'[x] = pc[x] /\ job'[x] = job[x]
  BY <1>1, ActorTypes DEF Begin, Goto
<1>4. job'[p].req = r
  BY <1>1 DEF Begin
<1> DEFINE phase == [x \in Command |-> IF Busy(x) THEN "pending" ELSE pc[x]]
           order == [x \in Command |-> job[x].req]
           ok    == [x \in Command |-> pc[x] = "done" /\ ~ err[x]]
<1>5. phase[p] = "idle" /\ phase' = [phase EXCEPT ![p] = "pending"]
  <2>1. \A x \in Command : phase'[x] = IF x = p THEN "pending" ELSE phase[x]
    BY <1>2, <1>3 DEF Busy
  <2> QED
    BY <1>2, <2>1 DEF Busy
<1>6. order' = [order EXCEPT ![p] = r]
  <2>1. \A x \in Command : order'[x] = IF x = p THEN r ELSE order[x]
    BY <1>3, <1>4
  <2> QED
    BY <2>1
<1>7. ok' = ok
  <2>1. \A x \in Command : ok'[x] = ok[x]
    BY <1>2, <1>3
  <2> QED
    BY <2>1
<1> HIDE DEF phase, order, ok
<1>8. \E s \in Requests \cup {NoJob(CHOOSE c \in Container : TRUE).req} :
         order' = [order EXCEPT ![p] = s]
  BY <1>6
<1> QED
  BY <1>2, <1>5, <1>7, <1>8 DEF Store!Submit, phase, order, ok

\* A command that is killed has had no effect.
LEMMA CrashAbandons ==
  ASSUME NetTypeOK, NEW p \in Command, Crash(p)
  PROVE  Store!Abandon(p)
<1>1. /\ p \in Actor /\ err \in [Actor -> BOOLEAN] /\ pc \in [Actor -> CommandStep \cup HookStep]
  BY CommandCid DEF NetTypeOK, NetProcessesTypeOK
<1>2. /\ Busy(p) /\ pc'[p] = "done" /\ err'[p] = TRUE /\ UNCHANGED <<file, job>>
      /\ \A x \in Command : x # p => pc'[x] = pc[x] /\ err'[x] = err[x]
  BY <1>1, CommandCid DEF Crash, Busy, Goto, Fail
<1> DEFINE phase == [x \in Command |-> IF Busy(x) THEN "pending" ELSE pc[x]]
           ok    == [x \in Command |-> pc[x] = "done" /\ ~ err[x]]
<1>3. phase[p] = "pending" /\ phase' = [phase EXCEPT ![p] = "done"]
  <2>1. \A x \in Command : phase'[x] = IF x = p THEN "done" ELSE phase[x]
    BY <1>2 DEF Busy
  <2> QED
    BY <1>2, <2>1
<1>4. ok' = ok
  <2>1. \A x \in Command : ok'[x] = ok[x]
    BY <1>2 DEF Busy
  <2> QED
    BY <2>1
<1>5. [x \in Command |-> job[x].req]' = [x \in Command |-> job[x].req]
  BY <1>2
<1> HIDE DEF phase, ok
<1> QED
  BY <1>2, <1>3, <1>4, <1>5 DEF Store!Abandon, phase, ok

\* Whatever moves no command from outside its work into it, or out of it, is
\* not seen.
LEMMA Unseen ==
  ASSUME UNCHANGED <<file, job>>,
         \A x \in Command : \/ Busy(x) /\ Busy(x)'
                            \/ pc'[x] = pc[x] /\ err'[x] = err[x]
  PROVE  UNCHANGED Store!storeVars
<1> DEFINE phase == [x \in Command |-> IF Busy(x) THEN "pending" ELSE pc[x]]
           ok    == [x \in Command |-> pc[x] = "done" /\ ~ err[x]]
<1>1. phase' = phase
  <2>1. \A x \in Command : phase'[x] = phase[x]
    BY DEF Busy
  <2> QED
    BY <2>1
<1>2. ok' = ok
  <2>1. \A x \in Command : ok'[x] = ok[x]
    BY DEF Busy
  <2> QED
    BY <2>1
<1>3. [x \in Command |-> job[x].req]' = [x \in Command |-> job[x].req]
  OBVIOUS
<1> HIDE DEF phase, ok
<1> QED
  BY <1>1, <1>2, <1>3 DEF Store!storeVars, phase, ok

\* Every step of a process is a step of NetStore, or is not seen there.
LEMMA StepImplements ==
  ASSUME NetTypeOK, StoreInv, NEW a \in Actor, StepOf(a)
  PROVE  [Store!StoreNext]_Store!storeVars
<1>1. \A x \in Command : x # a => pc'[x] = pc[x] /\ err'[x] = err[x]
  BY OthersStay, ActorTypes DEF Kept
<1>2. ASSUME a \in Command, Flush(a) PROVE Store!StoreNext
  BY <1>2, FlushApplies DEF Store!StoreNext
<1>3. ASSUME a \in Command, Crash(a) PROVE Store!StoreNext
  BY <1>3, CrashAbandons DEF Store!StoreNext
<1>4. ASSUME a \in Command, NEW r \in Requests, Begin(a, r) PROVE Store!StoreNext
  BY <1>4, BeginSubmits DEF Store!StoreNext
<1>5. ASSUME a \in Command, CommandNext(a), ~ Flush(a) PROVE UNCHANGED Store!storeVars
  <2>1. Busy(a) /\ Busy(a)' /\ UNCHANGED <<file, job>>
    <3>1. CASE LockAndLoad(a)
      <4>1. pc'[a] \in {"routes", "begin"} /\ pc[a] = "lock"
        BY <3>1, Reads DEF LockAndLoad
      <4> QED
        BY <3>1, <4>1 DEF LockAndLoad, Busy
    <3>2. CASE ~ LockAndLoad(a)
      BY <1>5, <3>2, MiddleSteps DEF Locked, Busy
    <3> QED
      BY <3>1, <3>2
  <2> QED
    BY <1>1, <2>1, Unseen
<1>6. ASSUME a \in Container PROVE UNCHANGED Store!storeVars
  <2>1. UNCHANGED file
    BY <1>6, LockSteps, ActorTypes DEF Crash
  <2>2. UNCHANGED job
    BY <1>6, HookMoves, ActorTypes DEF StepOf, Crash
  <2> QED
    BY <1>1, <1>6, <2>1, <2>2, ActorTypes, Unseen
<1> QED
  BY <1>2, <1>3, <1>4, <1>5, <1>6 DEF StepOf, Actor

\* add-nic, remove-nic, update-nic, add-route and remove-route are the atomic
\* commands of NetStore: whatever call fails in the kernel and is rolled back,
\* whatever container starts or stops meanwhile, and whoever is killed, a
\* configuration changes at once, by what was asked for only, no command undoes
\* another's change, and success means that it was done.
THEOREM NetStoreImplemented == Spec => NetStoreRefined
<1>1. Init => Store!StoreInit
  <2> SUFFICES ASSUME Init PROVE Store!StoreInit
    OBVIOUS
  <2>1. file \in [Container -> InitialFile] /\ \A p \in Command : pc[p] = "idle"
    BY ActorTypes DEF Init
  <2>2. \A p \in Command : job[p].req = NoJob(CHOOSE c \in Container : TRUE).req
    BY DEF Init
  <2>3. [p \in Command |-> IF Busy(p) THEN "pending" ELSE pc[p]] = [p \in Command |-> "idle"]
    BY <2>1 DEF Busy
  <2>4. [p \in Command |-> pc[p] = "done" /\ ~ err[p]] = [p \in Command |-> FALSE]
    BY <2>1
  <2>5. [p \in Command |-> job[p].req]
          \in [Command -> Requests \cup {NoJob(CHOOSE c \in Container : TRUE).req}]
    BY <2>2
  <2> QED
    BY <2>1, <2>3, <2>4, <2>5 DEF Store!StoreInit
<1>2. NetInv /\ StoreInv /\ [Next]_vars => [Store!StoreNext]_Store!storeVars
  <2>1. ASSUME NEW l \in Link, NamespaceGone(l) PROVE UNCHANGED Store!storeVars
    BY <2>1, Unseen DEF NamespaceGone, lockVars
  <2>2. ASSUME NetInv, StoreInv, Next PROVE [Store!StoreNext]_Store!storeVars
    BY <2>1, <2>2, NextIsStep, StepImplements DEF NetInv
  <2>3. ASSUME UNCHANGED vars PROVE UNCHANGED Store!storeVars
    BY <2>3, Unseen DEF vars, lockVars
  <2> QED
    BY <2>2, <2>3
<1> QED
  BY <1>1, <1>2, NetInvCorrect, StoreInvCorrect, PTL
  DEF Spec, NetStoreRefined, Store!StoreSpec

=============================================================================

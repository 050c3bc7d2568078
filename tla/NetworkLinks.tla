------------------------------ MODULE NetworkLinks -------------------------------
(***************************************************************************)
(* Whose interfaces the processes of Network work on, for any containers,  *)
(* commands, interfaces and requests.                                      *)
(*                                                                         *)
(* A driver works on an interface in two functions, on the host and in the *)
(* container, and between them knows it by a random name.  The invariant   *)
(* says where it is then, that one process at a time has it, and that a    *)
(* new pair is known to its maker only.                                    *)
(***************************************************************************)
EXTENDS NetworkStore

\* Process a is between the two functions of a driver, and has link l in its hands.
InHand(a, l) ==
  \/ pc[a] = "joinctr" /\ Joining(a) = l
  \/ pc[a] = "delhost" /\ mem[a].lnk = l

\* Where the interface is that a is moving.
Place(a) == IF pc[a] = "delhost" THEN HostNs ELSE NsOf(a)

\* It is there under the random name, unless the pair was deleted by its other end,
\* and nobody else is moving it.
CarriedAlone ==
  \A a \in Actor, l \in Link : InHand(a, l) =>
    /\ link[l] = Moved(Place(a), Tmp) \/ (IsPair(l) /\ link[l] = Absent)
    /\ \A b \in Actor : InHand(b, l) => b = a

\* A veth driver works on the pair that it has made, which is still as it was made
\* at first, and of which nobody else knows.
PairsFresh ==
  \A a \in Actor :
    pc[a] \in {"joinhost", "joinctr"} /\ ThisNic(a).type = "veth" =>
      \E k \in Pair :
        /\ mem[a].lnk = <<k, "host">>
        /\ pc[a] = "joinhost" =>
             \A l \in Ends(<<k, "host">>) :
               /\ link[l] = Moved(HostNs, Tmp)
               /\ \A b \in Actor : mem[b].lnk = l => b = a

\* A hook works while its container is started or stopped, and creates interfaces
\* only then, or deletes them only then.
HookStages ==
  \A c \in Container :
    /\ pc[c] = "idle" <=> st[c] \in {"stopped", "running"}
    /\ pc[c] \in {"mount", "create", "joinhost", "joinctr", "routes", "abort"} => st[c] = "creating"
    /\ pc[c] \in {"open", "delete", "delhost", "unmount"} => st[c] = "stopping"
    /\ st[c] \in {"creating", "running"} => inc[c] > 0

\* A route goes over a link of its namespace, and no two go to one destination.
RoutesPlaced ==
  /\ \A k \in rtable : link[k.lnk].ns = k.ns /\ k.ns \in Container \X Nat
  /\ \A k, m \in rtable : k.ns = m.ns /\ k.dest = m.dest => k = m

\* There is no namespace of a start to come.
NoFuture ==
  \A c \in Container :
    /\ \A l \in Link, i \in Nat : link[l].ns = <<c, i>> => i <= inc[c]
    /\ \A j \in DOMAIN netns[c] : netns[c][j] <= inc[c]

LinksInv == CarriedAlone /\ PairsFresh /\ HookStages /\ RoutesPlaced /\ NoFuture

-----------------------------------------------------------------------------
(***************************************************************************)
(* Facts about the kernel's operations                                     *)
(***************************************************************************)
LEMMA LinkNames ==
  /\ \A l \in Link : ~ IsPair(l) => l \in Eth \X {"phys"}
  /\ \A k \in Pair : /\ <<k, "host">> \in Link /\ <<k, "ctr">> \in Link
                     /\ IsPair(<<k, "host">>) /\ IsPair(<<k, "ctr">>)
  /\ \A l, m : l \in Ends(m) => /\ IsPair(l) /\ IsPair(m)
                                /\ Ends(l) = Ends(m) /\ l \in Ends(l)
  /\ \A m \in Link : IsPair(m) => m \in Ends(m) /\ Ends(m) \subseteq Link
  /\ \A k : Ends(<<k, "host">>) = {<<k, "host">>, <<k, "ctr">>}
  /\ \A n \in Nic : n.host # Tmp /\ n.ctr # Tmp
<1>1. \A l \in Link : ~ IsPair(l) => l \in Eth \X {"phys"}
  BY DEF Link, IsPair
<1>2. \A k \in Pair : /\ <<k, "host">> \in Link /\ <<k, "ctr">> \in Link
                      /\ IsPair(<<k, "host">>) /\ IsPair(<<k, "ctr">>)
  BY DEF Link, IsPair
<1>3. \A l, m : l \in Ends(m) => /\ IsPair(l) /\ IsPair(m)
                                 /\ Ends(l) = Ends(m) /\ l \in Ends(l)
  BY DEF Ends, IsPair
<1>4. \A m \in Link : IsPair(m) => m \in Ends(m) /\ Ends(m) \subseteq Link
  BY DEF Link, Ends, IsPair
<1>5. \A k : Ends(<<k, "host">>) = {<<k, "host">>, <<k, "ctr">>}
  BY DEF Ends, IsPair
<1>6. \A n \in Nic : n.host # Tmp /\ n.ctr # Tmp
  BY LinksAssumption DEF Nic
<1> QED
  BY <1>1, <1>2, <1>3, <1>4, <1>5, <1>6

\* A namespace of a container is not the host's, and it is the container's own.
LEMMA Namespaces ==
  ASSUME NEW c \in Container, NEW i \in Nat
  PROVE  /\ <<c, i>> # HostNs /\ <<c, i>> # Nowhere /\ HostNs # Nowhere
         /\ \A a \in Actor : NsOf(a) = <<c, i>> => Cid(a) = c
<1>1. <<c, i>> \in Container \X Nat
  OBVIOUS
<1> QED
  BY <1>1, LinksAssumption, ActorTypes DEF NsOf, Cid, Actor

\* To change one interface leaves the others and their routes alone.
LEMMA OneChanged ==
  ASSUME NetTypeOK, NEW m, NEW s, Change(m, s), NEW l \in Link
  PROVE  /\ rtable' \subseteq rtable
         /\ IF l = m THEN link'[l] = s /\ \A k \in rtable' : k.lnk # l
            ELSE link'[l] = link[l] /\ \A k \in rtable : k.lnk = l => k \in rtable'
  BY DEF Change, RoutesOver, NetTypeOK, KernelTypeOK

\* To delete pairs leaves the other interfaces and their routes alone.
LEMMA OnesDeleted ==
  ASSUME NetTypeOK, NEW links, Delete(links), NEW l \in Link
  PROVE  /\ rtable' \subseteq rtable
         /\ IF \E m \in links : l \in Ends(m)
            THEN link'[l] = Absent /\ \A k \in rtable' : k.lnk # l
            ELSE link'[l] = link[l] /\ \A k \in rtable : k.lnk = l => k \in rtable'
  BY DEF Delete, RoutesOver, NetTypeOK, KernelTypeOK

-----------------------------------------------------------------------------
(***************************************************************************)
(* What a step does to a link                                              *)
(***************************************************************************)
\* Link l is an end of the pair that a has just made.
Fresh(a, l) ==
  /\ pc[a] = "joinhost" /\ ThisNic(a).type = "veth"
  /\ l \in Ends(mem[a].lnk)

\* It has the name on the host that a looks for, to bring it into the container, ...
Brings(a, l) ==
  /\ link[l].ns = HostNs /\ link[l].name = ThisNic(a).host
  /\ l = <<ThisNic(a).host, "phys">> \/ \A c \in Owners({l}) : disturbed'[c]

\* ... to delete the pair, ...
Deletes(a, l) ==
  /\ \E m \in Victims(a) : l \in Ends(m)
  /\ link'[l] = Absent
  /\ \A c \in Owners(Victims(a)) : c = Cid(a) \/ disturbed'[c]

\* ... or to set it up.
SetsUp(a, l) ==
  /\ link[l].ns = HostNs /\ link[l].name = ThisNic(a).host
  /\ link'[l] = [link[l] EXCEPT !.up = TRUE] \/ \A c \in Owners({l}) : disturbed'[c]

\* It has the name in the container that a looks for.
Configures(a, l) ==
  /\ link[l].ns = NsOf(a) /\ link[l].name = ThisNic(a).ctr
  /\ a \in Command \/ CanEnter(a)

\* It is an end of a pair that a makes, and that no process remembers.
Makes(a, l) ==
  /\ IsPair(l) /\ link[l].ns = Nowhere /\ link'[l] = Moved(HostNs, Tmp)
  /\ \A b \in Actor : mem[b].lnk \notin Ends(l)

Finds(a, l) ==
  \/ InHand(a, l) \/ Fresh(a, l) \/ Brings(a, l) \/ Deletes(a, l) \/ SetsUp(a, l)
  \/ Configures(a, l) \/ Makes(a, l)

\* A link moves to the host or into the container that a works in, and its routes go.
Lands(a, l) ==
  /\ \/ link'[l].ns \in {link[l].ns, HostNs, Nowhere}
     \/ CanEnter(a) /\ link'[l].ns = NsOf(a)
  /\ link[l].ns \in {HostNs, Nowhere} \/ \A k \in rtable' : k.lnk # l

Touches(a, l) == Finds(a, l) /\ Lands(a, l) /\ pc'[a] # pc[a] /\ rtable' \subseteq rtable

Spares(a, l) ==
  /\ link'[l] = link[l]
  /\ \A k \in rtable : k.lnk = l /\ k.ns # NsOf(a) => k \in rtable'

\* Every step of a driver moves the process on.
LEMMA DriverGoesOn ==
  ASSUME NetTypeOK, NEW a \in Actor, DriverStep(a)
  PROVE  pc'[a] # pc[a]
<1>1. pc \in [Actor -> CommandStep \cup HookStep]
  BY DEF NetTypeOK, NetProcessesTypeOK
<1> QED
  BY <1>1 DEF DriverStep, CreatePair, CreatePairFails, TakeEth, TakeEthFails, JoinHost,
     JoinHostFails, JoinCtr, JoinCtrFails, DeletePair, DeletePairFails, DeleteEth,
     DeleteEthFails, NameEth, NameEthFails, EthNotFound, Added, AddFailed, Deleted,
     DeleteFailed, Goto

\* Links that are marked with their owners.
LEMMA Marks ==
  ASSUME NetTypeOK, NEW cs
  PROVE  DisturbAll(cs) => \A c \in Container : c \in cs => disturbed'[c]
  BY DEF DisturbAll

\* What is found or missed in a step that changes one interface.
LEMMA ChangeTouches ==
  ASSUME NetTypeOK, NEW a \in Actor, NEW m, NEW s, Change(m, s), pc'[a] # pc[a],
         \/ s.ns \in {link[m].ns, HostNs, Nowhere}
         \/ CanEnter(a) /\ s.ns = NsOf(a),
         NEW l \in Link, m = l => Finds(a, l)
  PROVE  Touches(a, l) \/ Spares(a, l)
<1>1. CASE m = l
  <2>1. link'[l] = s /\ (\A k \in rtable' : k.lnk # l) /\ rtable' \subseteq rtable
    BY <1>1, OneChanged
  <2> QED
    BY <1>1, <2>1 DEF Touches, Lands
<1>2. CASE m # l
  BY <1>2, OneChanged DEF Spares
<1> QED
  BY <1>1, <1>2

LEMMA DeleteTouches ==
  ASSUME NetTypeOK, NEW a \in Actor, NEW links, Delete(links), pc'[a] # pc[a],
         NEW l \in Link, (\E m \in links : l \in Ends(m)) /\ link'[l] = Absent => Finds(a, l)
  PROVE  Touches(a, l) \/ Spares(a, l)
<1>1. CASE \E m \in links : l \in Ends(m)
  <2>1. link'[l] = Absent /\ (\A k \in rtable' : k.lnk # l) /\ rtable' \subseteq rtable
    BY <1>1, OnesDeleted
  <2> QED
    BY <1>1, <2>1 DEF Touches, Lands, Absent
<1>2. CASE ~ \E m \in links : l \in Ends(m)
  BY <1>2, OnesDeleted DEF Spares
<1> QED
  BY <1>1, <1>2

\* The drivers (CreateIf, JoinAndConfigure, DeleteIf and their recoveries).
LEMMA DriverTouches ==
  ASSUME NetTypeOK, PairsFresh, NEW a \in Actor, DriverStep(a), NEW l \in Link
  PROVE  Touches(a, l) \/ Spares(a, l)
<1> DEFINE n == ThisNic(a)
<1>1. /\ n \in Nic /\ n.host # Tmp /\ n.ctr # Tmp /\ mem[a] \in Memory
      /\ n.type = "eth" \/ n.type = "veth"
      /\ link \in [Link -> LinkState] /\ pc'[a] # pc[a]
  BY ThisNicType, LinkNames, DriverGoesOn DEF Nic, Type, NetTypeOK, KernelTypeOK
<1> HIDE DEF n
<1>2. ASSUME UNCHANGED kernelVars PROVE Spares(a, l)
  BY <1>2 DEF Spares, kernelVars
<1>3. CASE CreatePair(a) \/ CreatePairFails(a)
  <2>1. UNCHANGED link \/ (FreePairs # {} /\ Make(CHOOSE k \in FreePairs : TRUE))
    BY <1>3 DEF CreatePair, CreatePairFails
  <2>2. UNCHANGED rtable
    BY <1>3 DEF CreatePair, CreatePairFails
  <2>3. CASE FreePairs # {} /\ Make(CHOOSE k \in FreePairs : TRUE)
    <3>1. PICK k \in FreePairs : Make(k)
      BY <2>3
    <3>2. CASE l \in Ends(<<k, "host">>)
      <4>1. link[l].ns = Nowhere /\ link'[l] = Moved(HostNs, Tmp)
        BY <3>1, <3>2, LinkNames DEF FreePairs, Make
      <4>2. IsPair(l) /\ Ends(l) = Ends(<<k, "host">>)
        BY <3>2, LinkNames
      <4>3. Makes(a, l)
        BY <3>1, <4>1, <4>2 DEF FreePairs, Makes
      <4> QED
        BY <1>1, <2>2, <4>1, <4>3 DEF Touches, Finds, Lands, Moved
    <3>3. CASE l \notin Ends(<<k, "host">>)
      BY <2>2, <3>1, <3>3 DEF Make, Spares
    <3> QED
      BY <3>2, <3>3
  <2> QED
    BY <1>2, <2>1, <2>2, <2>3 DEF kernelVars
<1>4. CASE TakeEth(a) \/ TakeEthFails(a) \/ DeletePairFails(a)
  BY <1>2, <1>4 DEF TakeEth, TakeEthFails, DeletePairFails
<1>5. CASE JoinHost(a)
  <2>1. pc[a] = "joinhost" /\ CanEnter(a) /\ n = ThisNic(a)
    BY <1>5, JoinHostMoves DEF n
  <2>2. ASSUME NEW m, rtable' = rtable \ RoutesOver({m})
        PROVE  rtable' \subseteq rtable /\ \A k \in rtable : k.lnk # m => k \in rtable'
    BY <2>2 DEF RoutesOver
  <2>3. CASE n.type = "veth"
    <3> DEFINE m == mem[a].lnk
    <3>6. rtable' \subseteq rtable /\ \A k \in rtable : k.lnk # m => k \in rtable'
      BY <1>5, <2>1, <2>2, <2>3, JoinHostMoves
    <3>1. PICK k \in Pair : m = <<k, "host">> /\ \A x \in Ends(m) : link[x] = Moved(HostNs, Tmp)
      BY <2>1, <2>3 DEF PairsFresh
    <3>2. link' = [link EXCEPT ![m].name = n.host, ![m].up = TRUE,
                               ![Peer(m)] = Moved(NsOf(a), Tmp)]
      BY <1>5, <2>1, <2>3, JoinHostMoves
    <3>3. Peer(m) = <<k, "ctr">> /\ m # Peer(m) /\ Ends(m) = {m, Peer(m)}
      BY <3>1, LinkNames DEF Peer
    <3> HIDE DEF m
    <3>4. CASE l \in Ends(m)
      <4>1. link[l].ns = HostNs
        BY <3>1, <3>4 DEF Moved
      <4>2. link'[l].ns = HostNs \/ link'[l].ns = NsOf(a)
        <5>1. CASE l = Peer(m)
          BY <1>1, <3>2, <5>1 DEF Moved
        <5>2. CASE l = m
          <6>1. l # Peer(m)
            BY <3>3, <5>2
          <6>2. link'[l].ns = link[l].ns
            BY <1>1, <3>2, <5>2, <6>1 DEF LinkState
          <6> QED
            BY <4>1, <6>2
        <5> QED
          BY <3>3, <3>4, <5>1, <5>2
      <4>3. Finds(a, l)
        BY <2>1, <2>3, <3>4 DEF Finds, Fresh, m
      <4> QED
        BY <1>1, <2>1, <3>6, <4>1, <4>2, <4>3 DEF Touches, Lands
    <3>5. CASE l \notin Ends(m)
      BY <1>1, <3>2, <3>3, <3>5, <3>6 DEF Spares
    <3> QED
      BY <3>4, <3>5
  <2>4. CASE n.type # "veth"
    <3>1. PICK m \in LinksNamed(HostNs, n.host) :
            /\ link' = [link EXCEPT ![m] = Moved(NsOf(a), Tmp)]
            /\ rtable' = rtable \ RoutesOver({m})
            /\ m = <<n.host, "phys">> \/ DisturbAll(Owners({m}) \cup {Cid(a)})
      BY <1>5, <2>1, <2>4, JoinHostMoves
    <3>2. m \in LinksNamed(HostNs, n.host)
      OBVIOUS
    <3>3. m = <<n.host, "phys">> \/ \A c \in Owners({m}) : disturbed'[c]
      <4>1. CASE DisturbAll(Owners({m}) \cup {Cid(a)})
        BY <4>1, Marks DEF Owners
      <4> QED
        BY <3>1, <4>1
    <3>6. rtable' \subseteq rtable /\ \A k \in rtable : k.lnk # m => k \in rtable'
      BY <2>2, <3>1
    <3>4. CASE l = m
      <4>1. Brings(a, l)
        BY <2>1, <3>2, <3>3, <3>4 DEF Brings, LinksNamed
      <4>2. link'[l].ns = NsOf(a)
        BY <1>1, <3>1, <3>4 DEF Moved
      <4> QED
        BY <1>1, <2>1, <3>6, <4>1, <4>2 DEF Touches, Finds, Lands, Brings
    <3>5. CASE l # m
      BY <1>1, <3>1, <3>5, <3>6 DEF Spares
    <3> QED
      BY <3>4, <3>5
  <2> QED
    BY <2>3, <2>4
<1>6. CASE JoinHostFails(a)
  <2>1. CASE n.type = "veth"
    <3>1. Delete({mem[a].lnk}) /\ pc[a] = "joinhost" /\ n = ThisNic(a)
      BY <1>6, <2>1 DEF JoinHostFails, n
    <3>2. l \in Ends(mem[a].lnk) => Finds(a, l)
      BY <2>1, <3>1 DEF Fresh, Finds
    <3> QED
      BY <1>1, <3>1, <3>2, DeleteTouches
  <2>2. CASE n.type # "veth"
    BY <1>2, <1>6, <2>2 DEF JoinHostFails, n
  <2> QED
    BY <2>1, <2>2
<1>7. CASE JoinCtr(a)
  <2>1. Change(Joining(a), Configured(NsOf(a), n)) /\ link[Joining(a)].ns = NsOf(a)
    BY <1>7 DEF JoinCtr, CanConfigure, n
  <2>2. Configured(NsOf(a), n).ns = link[Joining(a)].ns
    BY <2>1 DEF Configured
  <2>3. Joining(a) = l => Finds(a, l)
    BY <1>7 DEF JoinCtr, Finds, InHand
  <2> QED
    BY <1>1, <2>1, <2>2, <2>3, ChangeTouches
<1>8. CASE JoinCtrFails(a)
  <2>1. pc[a] = "joinctr" /\ n = ThisNic(a)
    BY <1>8 DEF JoinCtrFails, n
  <2>2. CASE Delete(Victims(a)) /\ DisturbAll(Owners(Victims(a)) \ {Cid(a)})
    BY <1>1, <2>2, DeleteTouches, Marks DEF Finds, Deletes, Owners
  <2>3. CASE n.type # "veth" /\ Change(mem[a].lnk, Moved(HostNs, NameBack(n.host, Tmp)))
    <3>1. Joining(a) = mem[a].lnk
      BY <2>1, <2>3 DEF Joining
    <3>2. mem[a].lnk = l => Finds(a, l)
      BY <2>1, <3>1 DEF Finds, InHand
    <3>3. Moved(HostNs, NameBack(n.host, Tmp)).ns = HostNs
      BY DEF Moved
    <3> QED
      BY <1>1, <2>3, <3>2, <3>3, ChangeTouches
  <2> QED
    BY <1>2, <1>8, <2>1, <2>2, <2>3 DEF JoinCtrFails, TakeBack
<1>9. CASE DeletePair(a)
  BY <1>1, <1>9, DeleteTouches, Marks DEF DeletePair, Finds, Deletes, Owners
<1>10. CASE DeleteEth(a)
  <2>1. CASE UNCHANGED kernelVars
    BY <1>2, <2>1
  <2>2. ASSUME CanEnter(a), NEW m \in LinksNamed(NsOf(a), n.ctr), Change(m, Moved(HostNs, Tmp))
        PROVE  Touches(a, l) \/ Spares(a, l)
    <3>1. m = l => Finds(a, l)
      BY <2>2 DEF LinksNamed, Finds, Configures, n
    <3>2. Moved(HostNs, Tmp).ns = HostNs
      BY DEF Moved
    <3> QED
      BY <1>1, <2>2, <3>1, <3>2, ChangeTouches
  <2> QED
    BY <1>10, <2>1, <2>2 DEF DeleteEth, n
<1>11. CASE DeleteEthFails(a)
  <2>1. CASE UNCHANGED kernelVars
    BY <1>2, <2>1
  <2>2. ASSUME CanEnter(a), NEW m \in LinksNamed(NsOf(a), n.ctr), NEW x,
               Change(m, [link[m] EXCEPT !.name = x, !.up = FALSE])
        PROVE  Touches(a, l) \/ Spares(a, l)
    <3>1. m = l => Finds(a, l)
      BY <2>2 DEF LinksNamed, Finds, Configures, n
    <3>2. [link[m] EXCEPT !.name = x, !.up = FALSE].ns = link[m].ns
      BY <1>1, <2>2 DEF LinksNamed, LinkState
    <3> QED
      BY <1>1, <2>2, <3>1, <3>2, ChangeTouches
  <2> QED
    BY <1>11, <2>1, <2>2 DEF DeleteEthFails, n
<1>12. CASE NameEth(a) \/ NameEthFails(a) \/ EthNotFound(a)
  <2>1. pc[a] = "delhost"
    BY <1>12 DEF NameEth, NameEthFails, EthNotFound
  <2>2. \/ UNCHANGED kernelVars
        \/ \E x : Change(mem[a].lnk, Moved(HostNs, x))
        \/ CanEnter(a) /\ Change(mem[a].lnk, Moved(NsOf(a), Tmp))
    BY <1>12 DEF NameEth, NameEthFails, EthNotFound
  <2>3. mem[a].lnk = l => Finds(a, l)
    BY <2>1 DEF Finds, InHand
  <2>4. \A ns, x : Moved(ns, x).ns = ns
    BY DEF Moved
  <2> QED
    BY <1>1, <1>2, <2>2, <2>3, <2>4, ChangeTouches
<1> QED
  BY <1>3, <1>4, <1>5, <1>6, <1>7, <1>8, <1>9, <1>10, <1>11, <1>12 DEF DriverStep

\* update-nic, which looks for the interface by its names.
LEMMA ConfigureTouches ==
  ASSUME NetTypeOK, NEW a \in Command, NEW l \in Link,
         \/ ConfigureHost(a) \/ ConfigureHostFails(a)
         \/ ConfigureCtr(a) \/ ConfigureCtrFails(a)
  PROVE  Touches(a, l) \/ Spares(a, l)
<1> DEFINE n == ThisNic(a)
<1>1. a \in Actor /\ link \in [Link -> LinkState] /\ pc \in [Actor -> CommandStep \cup HookStep]
  BY ActorTypes DEF NetTypeOK, KernelTypeOK, NetProcessesTypeOK
<1>2. pc'[a] # pc[a]
  BY <1>1 DEF ConfigureHost, ConfigureHostFails, ConfigureCtr, ConfigureCtrFails, UpdateFailed,
     Goto
<1> HIDE DEF n
<1>3. ASSUME UNCHANGED kernelVars PROVE Spares(a, l)
  BY <1>3 DEF Spares, kernelVars
<1>4. ASSUME NEW up \in BOOLEAN, UNCHANGED rtable,
             link' = [m \in Link |-> IF m \in LinksNamed(HostNs, n.host)
                                     THEN [link[m] EXCEPT !.up = up] ELSE link[m]],
             up \/ \A c \in Owners(LinksNamed(HostNs, n.host)) : disturbed'[c]
      PROVE  Touches(a, l) \/ Spares(a, l)
  <2>1. CASE l \in LinksNamed(HostNs, n.host)
    <3>1. link'[l] = [link[l] EXCEPT !.up = up] /\ link[l].ns = HostNs /\ link[l].name = n.host
      BY <1>4, <2>1 DEF LinksNamed
    <3>2. link'[l].ns = HostNs
      BY <1>1, <3>1 DEF LinkState
    <3>3. Owners({l}) \subseteq Owners(LinksNamed(HostNs, n.host))
      BY <2>1 DEF Owners
    <3>4. SetsUp(a, l)
      BY <1>4, <3>1, <3>3 DEF SetsUp, n
    <3> QED
      BY <1>2, <1>4, <3>1, <3>2, <3>4 DEF Touches, Finds, Lands
  <2>2. CASE l \notin LinksNamed(HostNs, n.host)
    BY <1>4, <2>2 DEF Spares
  <2> QED
    BY <2>1, <2>2
<1>5. ASSUME NEW m \in LinksNamed(NsOf(a), n.ctr), NEW ip, NEW up,
             Change(m, [link[m] EXCEPT !.ip = ip, !.up = up])
      PROVE  Touches(a, l) \/ Spares(a, l)
  <2>1. m = l => Finds(a, l)
    BY <1>5 DEF LinksNamed, Finds, Configures, n
  <2>2. [link[m] EXCEPT !.ip = ip, !.up = up].ns = link[m].ns
    BY <1>1, <1>5 DEF LinksNamed, LinkState
  <2> QED
    BY <1>1, <1>2, <1>5, <2>1, <2>2, ChangeTouches
<1>6. CASE ConfigureHost(a)
  BY <1>4, <1>6 DEF ConfigureHost, n
<1>7. CASE ConfigureHostFails(a)
  <2>1. CASE UNCHANGED link
    BY <1>3, <1>7, <2>1 DEF ConfigureHostFails, kernelVars
  <2>2. CASE ~ UNCHANGED link
    <3> DEFINE found == LinksNamed(HostNs, n.host)
    <3>1. PICK up \in BOOLEAN :
            /\ link' = [m \in Link |-> IF m \in found THEN [link[m] EXCEPT !.up = up] ELSE link[m]]
            /\ DisturbAll(IF up /\ \A m \in found : IsPair(m) THEN {}
                          ELSE Owners(found) \cup {Cid(a)})
      BY <1>7, <2>2 DEF ConfigureHostFails, n
    <3>2. up \/ \A c \in Owners(found) : disturbed'[c]
      <4>1. CASE ~ up
        <5>1. DisturbAll(Owners(found) \cup {Cid(a)})
          BY <3>1, <4>1
        <5> QED
          BY <5>1, Marks DEF Owners
      <4> QED
        BY <4>1
    <3>3. UNCHANGED rtable
      BY <1>7 DEF ConfigureHostFails
    <3> QED
      BY <1>4, <3>1, <3>2, <3>3
  <2> QED
    BY <2>1, <2>2
<1>8. CASE ConfigureCtr(a)
  BY <1>5, <1>8 DEF ConfigureCtr, n
<1>9. CASE ConfigureCtrFails(a)
  <2>1. CASE UNCHANGED kernelVars
    BY <1>3, <2>1
  <2>2. CASE ~ UNCHANGED kernelVars
    BY <1>5, <1>9, <2>2 DEF ConfigureCtrFails, n
  <2> QED
    BY <2>1, <2>2
<1> QED
  BY <1>6, <1>7, <1>8, <1>9

\* Process a adds a route over a link of the namespace it works in.
AddsRoute(a) ==
  /\ UNCHANGED link
  /\ \E r \in Route : RoutePossible(NsOf(a), r) /\ RouteAdd(NsOf(a), r)
  /\ NsOf(a) \in Container \X Nat

\* Nobody else touches a link or its routes.
LEMMA StepTouches ==
  ASSUME NetTypeOK, PairsFresh, HookStages, NEW a \in Actor, StepOf(a)
  PROVE  /\ \A l \in Link : Touches(a, l) \/ Spares(a, l)
         /\ rtable' \subseteq rtable \/ AddsRoute(a)
<1>1. CASE UNCHANGED kernelVars
  BY <1>1 DEF Spares, kernelVars
<1>2. ASSUME UNCHANGED link, \A k \in rtable : k \in rtable' \/ k.ns = NsOf(a)
      PROVE  \A l \in Link : Spares(a, l)
  BY <1>2 DEF Spares
<1>3. CASE /\ DriverStep(a) \/ (a \in Command /\ (ConfigureHost(a) \/ ConfigureHostFails(a)
                                                  \/ ConfigureCtr(a) \/ ConfigureCtrFails(a)))
  <2>1. \A l \in Link : Touches(a, l) \/ Spares(a, l)
    BY <1>3, DriverTouches, ConfigureTouches
  <2>2. rtable' \subseteq rtable
    BY <1>3 DEF DriverStep, CreatePair, CreatePairFails, TakeEth, TakeEthFails, JoinHost,
       JoinHostFails, JoinCtr, JoinCtrFails, TakeBack, DeletePair, DeletePairFails, DeleteEth,
       DeleteEthFails, NameEth, NameEthFails, EthNotFound, ConfigureHost, ConfigureHostFails,
       ConfigureCtr, ConfigureCtrFails, Delete, Change, kernelVars
  <2> QED
    BY <2>1, <2>2
<1>4. ASSUME a \in Command, NEW r \in mem[a].routes, AddRoute(a, r)
      PROVE  UNCHANGED kernelVars \/ AddsRoute(a)
  <2>1. r \in Route /\ NsOf(a) \in Container \X Nat
    BY <1>4, CidType, ThisNicType DEF Memory, NsOf, NetTypeOK, NetProcessesTypeOK
  <2> QED
    BY <1>4, <2>1 DEF AddRoute, AddsRoute, kernelVars
<1>5. ASSUME a \in Command, NEW r \in mem[a].matching, DelRoute(a, r)
      PROVE  /\ UNCHANGED link /\ rtable' \subseteq rtable
             /\ \A k \in rtable : k \in rtable' \/ k.ns = NsOf(a)
  BY <1>5 DEF DelRoute, RoutesMeant
<1>6. ASSUME a \in Container, NEW r \in mem[a].routes, HookRoute(a, r)
      PROVE  AddsRoute(a)
  <2>1. r \in Route /\ st[a] = "creating" /\ inc[a] \in Nat /\ a \notin Command
    BY <1>6, ThisNicType, ActorTypes
    DEF Memory, HookRoute, HookStages, NetTypeOK, NetContainersTypeOK
  <2> QED
    BY <1>6, <2>1 DEF HookRoute, AddsRoute, NsOf
<1>7. ASSUME AddsRoute(a) PROVE \A l \in Link : Spares(a, l)
  BY <1>2, <1>7 DEF AddsRoute, RouteAdd
<1>8. CASE a \in Command /\ CommandNext(a)
  <2>1. CASE \E r \in mem[a].routes : AddRoute(a, r)
    BY <1>1, <1>4, <1>7, <1>8, <2>1 DEF kernelVars
  <2>2. CASE \E r \in mem[a].matching : DelRoute(a, r)
    BY <1>2, <1>5, <1>8, <2>2
  <2> QED
    BY <1>1, <1>3, <1>8, <2>1, <2>2
    DEF CommandNext, LockAndLoad, AddNic, DelNic, UpdateNic, RefuseRoute, AddRouteFails,
        TakePattern, DelRouteFails, RoutesDone, Flush, kernelVars
<1>9. CASE a \in Container /\ (HookNext(a) \/ StartContainer(a) \/ StopContainer(a))
  <2>1. CASE \E r \in mem[a].routes : HookRoute(a, r)
    BY <1>6, <1>7, <1>9, <2>1
  <2> QED
    BY <1>1, <1>3, <1>9, <2>1
    DEF HookNext, ReadConfig, MountNetns, StartFails, OpenNetns, HookNicsDone, HookRoutesDone,
        UnmountNetns, HookNic, HookRouteFails, AbortStart, HookReturns, StartContainer,
        StopContainer, kernelVars
<1> QED
  BY <1>1, <1>8, <1>9 DEF StepOf, Begin, Crash, kernelVars

-----------------------------------------------------------------------------
(***************************************************************************)
(* The invariant                                                           *)
(***************************************************************************)
\* A container is started and stopped by its own steps only.
LEMMA LifeStays ==
  ASSUME NetTypeOK, NEW a \in Actor, StepOf(a), NEW c \in Container, c # a
  PROVE  st'[c] = st[c] /\ inc'[c] = inc[c]
<1>1. /\ UNCHANGED st \/ (a \in Container /\ \E v : st' = [st EXCEPT ![a] = v])
      /\ UNCHANGED inc \/ (a \in Container /\ \E v : inc' = [inc EXCEPT ![a] = v])
  <2>1. CASE a \in Command /\ CommandNext(a)
    BY <2>1, CommandMoves DEF ctrVars
  <2>2. CASE DriverStep(a)
    BY <2>2 DEF DriverStep, CreatePair, CreatePairFails, TakeEth, TakeEthFails, JoinHost,
       JoinHostFails, JoinCtr, JoinCtrFails, DeletePair, DeletePairFails, DeleteEth,
       DeleteEthFails, NameEth, NameEthFails, EthNotFound, ctrVars
  <2>3. CASE a \in Container /\ (HookNext(a) \/ StartContainer(a) \/ StopContainer(a))
    BY <2>2, <2>3 DEF HookNext, ReadConfig, MountNetns, StartFails, OpenNetns, HookNicsDone,
       HookRoutesDone, UnmountNetns, HookNic, HookRoute, HookRouteFails, AbortStart,
       HookReturns, StartContainer, StopContainer, ctrVars
  <2>4. CASE Crash(a) \/ \E r \in Requests : Begin(a, r)
    BY <2>4 DEF Crash, Begin, ctrVars
  <2> QED
    BY <2>1, <2>3, <2>4 DEF StepOf
<1> QED
  BY <1>1 DEF NetTypeOK, NetContainersTypeOK

\* The namespace a process means is not changed by another process.
LEMMA NsStays ==
  ASSUME NetTypeOK, NEW a \in Actor, StepOf(a), NEW x \in Actor, x # a
  PROVE  NsOf(x)' = NsOf(x)
<1>1. Kept(x)
  BY OthersStay
<1>2. CASE x \in Command
  BY <1>1, <1>2, ActorTypes DEF Kept, NsOf, Cid
<1>3. CASE x \in Container
  BY <1>1, <1>3, LifeStays, ActorTypes DEF Kept, NsOf
<1> QED
  BY <1>2, <1>3 DEF Actor

\* Hooks create interfaces at a start and delete them at a stop.
LEMMA StagesKept ==
  ASSUME NetTypeOK, HookStages, NEW a \in Actor, StepOf(a)
  PROVE  HookStages'
<1> DEFINE Stage(c) ==
             /\ pc[c] = "idle" <=> st[c] \in {"stopped", "running"}
             /\ pc[c] \in {"mount", "create", "joinhost", "joinctr", "routes", "abort"}
                  => st[c] = "creating"
             /\ pc[c] \in {"open", "delete", "delhost", "unmount"} => st[c] = "stopping"
             /\ st[c] \in {"creating", "running"} => inc[c] > 0
<1>1. ASSUME NEW c \in Container, c # a PROVE Stage(c)'
  BY <1>1, OthersStay, LifeStays, ActorTypes DEF Kept, HookStages
<1>2. ASSUME a \in Container PROVE Stage(a)'
  <2>1. /\ pc \in [Actor -> CommandStep \cup HookStep] /\ a \notin Command
        /\ st \in [Container -> {"stopped", "creating", "running", "stopping"}]
        /\ inc \in [Container -> Nat] /\ Stage(a)
    BY <1>2, ActorTypes DEF NetTypeOK, NetProcessesTypeOK, NetContainersTypeOK, HookStages
  <2>2. CASE DriverStep(a)
    <3>1. UNCHANGED <<st, inc>>
      BY <2>2 DEF DriverStep, CreatePair, CreatePairFails, TakeEth, TakeEthFails, JoinHost,
         JoinHostFails, JoinCtr, JoinCtrFails, DeletePair, DeletePairFails, DeleteEth,
         DeleteEthFails, NameEth, NameEthFails, EthNotFound, ctrVars
    <3>2. \/ pc[a] \in {"create", "joinhost", "joinctr"}
             /\ (Goto(a, "joinhost") \/ Goto(a, "joinctr") \/ Goto(a, "each") \/ Goto(a, "abort"))
          \/ pc[a] \in {"delete", "delhost"} /\ (Goto(a, "each") \/ Goto(a, "delhost"))
      BY <2>1, <2>2 DEF DriverStep, CreatePair, CreatePairFails, TakeEth, TakeEthFails, JoinHost,
         JoinHostFails, JoinCtr, JoinCtrFails, DeletePair, DeletePairFails, DeleteEth,
         DeleteEthFails, NameEth, NameEthFails, EthNotFound, Added, AddFailed, Deleted,
         DeleteFailed
    <3> QED
      BY <2>1, <3>1, <3>2 DEF Goto
  <2>3. CASE \/ ReadConfig(a) \/ MountNetns(a) \/ StartFails(a) \/ OpenNetns(a)
             \/ HookNicsDone(a) \/ HookRoutesDone(a) \/ UnmountNetns(a)
             \/ (\E n \in mem[a].nics : HookNic(a, n))
             \/ (\E r \in mem[a].routes : HookRoute(a, r) \/ HookRouteFails(a, r))
    <3>1. UNCHANGED <<st, inc>>
      BY <2>3 DEF ReadConfig, MountNetns, StartFails, OpenNetns, HookNicsDone,
         HookRoutesDone, UnmountNetns, HookNic, HookRoute, HookRouteFails, ctrVars
    <3>2. \A l : Goto(a, l) => pc'[a] = l
      BY <2>1 DEF Goto
    <3>3. pc[a] # "idle" => st[a] = "creating" \/ st[a] = "stopping"
      BY <1>2, <2>1
    <3>4. st'[a] = st[a] /\ inc'[a] = inc[a]
      BY <3>1
    <3>5. CASE \/ ReadConfig(a) \/ MountNetns(a) \/ StartFails(a) \/ OpenNetns(a)
               \/ HookNicsDone(a) \/ HookRoutesDone(a) \/ UnmountNetns(a)
      BY <2>1, <3>5, <3>2, <3>3, <3>4 DEF ReadConfig, MountNetns, StartFails, OpenNetns,
         HookNicsDone, HookRoutesDone, UnmountNetns
    <3>6. CASE \E n \in mem[a].nics : HookNic(a, n)
      BY <2>1, <3>6, <3>2, <3>3, <3>4 DEF HookNic
    <3>7. CASE \E r \in mem[a].routes : HookRoute(a, r) \/ HookRouteFails(a, r)
      BY <2>1, <3>2, <3>3, <3>4, <3>7 DEF HookRoute, HookRouteFails
    <3> QED
      BY <2>3, <3>5, <3>6, <3>7
  <2>4. CASE AbortStart(a) \/ HookReturns(a) \/ StopContainer(a)
    BY <1>2, <2>1, <2>4 DEF AbortStart, HookReturns, StopContainer, Goto
  <2>5. CASE StartContainer(a)
    BY <1>2, <2>1, <2>5 DEF StartContainer, Goto
  <2>6. CASE Crash(a)
    BY <1>2, <2>1, <2>6 DEF Crash, Goto, ctrVars
  <2> QED
    BY <1>2, <2>1, <2>2, <2>3, <2>4, <2>5, <2>6 DEF StepOf, HookNext
<1> QED
  BY <1>1, <1>2 DEF HookStages

\* Which steps take an interface in hand, or lead to the driver's second function.
LEMMA MovingSteps ==
  ASSUME NetTypeOK, NEW a \in Actor, StepOf(a)
  PROVE  /\ pc'[a] = "joinctr" => JoinHost(a)
         /\ pc'[a] = "delhost" => DeleteEth(a)
         /\ pc'[a] = "joinhost" => CreatePair(a) \/ TakeEth(a)
<1>1. pc \in [Actor -> CommandStep \cup HookStep]
  BY DEF NetTypeOK, NetProcessesTypeOK
<1>2. CASE DriverStep(a)
  BY <1>1, <1>2 DEF DriverStep, CreatePair, CreatePairFails, TakeEth, TakeEthFails, JoinHost,
     JoinHostFails, JoinCtr, JoinCtrFails, DeletePair, DeletePairFails, DeleteEth,
     DeleteEthFails, NameEth, NameEthFails, EthNotFound, Added, AddFailed, Deleted,
     DeleteFailed, Goto
<1>3. CASE a \in Command /\ CommandNext(a) /\ ~ DriverStep(a)
  BY <1>1, <1>3 DEF CommandNext, LockAndLoad, AddNic, DelNic, UpdateNic, GiveUp, ConfigureHost,
     ConfigureHostFails, ConfigureCtr, ConfigureCtrFails, UpdateFailed, RefuseRoute, AddRoute,
     AddRouteFails, TakePattern, DelRoute, DelRouteFails, RoutesDone, Flush, Goto
<1>4. CASE /\ a \in Container /\ ~ DriverStep(a)
           /\ HookNext(a) \/ StartContainer(a) \/ StopContainer(a)
  BY <1>1, <1>4 DEF HookNext, ReadConfig, MountNetns, StartFails, OpenNetns, HookNicsDone,
     HookRoutesDone, UnmountNetns, HookNic, HookRoute, HookRouteFails, AbortStart,
     HookReturns, StartContainer, StopContainer, Goto
<1>5. CASE Crash(a) \/ \E r \in Requests : Begin(a, r)
  BY <1>1, <1>5 DEF Crash, Begin, Goto
<1> QED
  BY <1>2, <1>3, <1>4, <1>5 DEF StepOf

\* A process comes to know a link by its name, or as the pair that it makes.
LEMMA LinksKnown ==
  ASSUME NetTypeOK, NEW a \in Actor, StepOf(a)
  PROVE  \/ mem'[a].lnk \in {mem[a].lnk, NoOne}
         \/ CreatePair(a)
         \/ link[mem'[a].lnk].name \in {ThisNic(a).host, ThisNic(a).ctr}
<1>1. /\ mem \in [Actor -> Memory] /\ mem[a] \in Memory
      /\ \A m : Remember(a, m) => mem'[a] = m
      /\ \A nics : SetNics(a, nics).lnk = mem[a].lnk
      /\ \A routes : SetRoutes(a, routes).lnk = mem[a].lnk
      /\ NoMemory.lnk = NoOne
  BY DEF NetTypeOK, NetProcessesTypeOK, Remember, SetNics, SetRoutes, Memory, NoMemory
<1>2. CASE DriverStep(a)
  <2>1. CASE JoinHost(a) \/ DeleteEth(a)
    BY <1>1, <2>1, JoinHostMoves DEF DeleteEth, Deleted, LinksNamed, Memory
  <2>2. CASE ~ (JoinHost(a) \/ DeleteEth(a) \/ CreatePair(a))
    <3>1. \/ UNCHANGED mem
          \/ \E nics : Remember(a, SetNics(a, nics))
      BY <1>2, <2>2 DEF DriverStep, CreatePairFails, TakeEth, TakeEthFails, JoinHostFails,
         JoinCtr, JoinCtrFails, DeletePair, DeletePairFails, DeleteEthFails, NameEth,
         NameEthFails, EthNotFound, Added, AddFailed, Deleted, DeleteFailed
    <3> QED
      BY <1>1, <3>1
  <2> QED
    BY <2>1, <2>2
<1>3. CASE a \in Command /\ CommandNext(a) /\ ~ DriverStep(a)
  <2>1. CASE AddNic(a) \/ DelNic(a) \/ UpdateNic(a)
    <3>1. ASSUME NEW n, NEW nics, Remember(a, [SetNics(a, nics) EXCEPT !.nic = n])
          PROVE  mem'[a].lnk = mem[a].lnk
      <4>1. mem'[a] = [SetNics(a, nics) EXCEPT !.nic = n]
        BY <1>1, <3>1
      <4> QED
        BY <1>1, <4>1 DEF SetNics, Memory
    <3>2. ASSUME NEW n, Remember(a, [mem[a] EXCEPT !.nic = n]) PROVE mem'[a].lnk = mem[a].lnk
      <4>1. mem'[a] = [mem[a] EXCEPT !.nic = n]
        BY <1>1, <3>2
      <4> QED
        BY <1>1, <4>1 DEF Memory
    <3>3. ASSUME NEW n, Remember(a, Updated(a, n)) PROVE mem'[a].lnk = mem[a].lnk
      BY <1>1, <3>3 DEF Updated
    <3> QED
      BY <2>1, <3>1, <3>2, <3>3 DEF AddNic, DelNic, UpdateNic, GiveUp
  <2>2. CASE \/ ConfigureHost(a) \/ ConfigureHostFails(a) \/ ConfigureCtr(a)
             \/ ConfigureCtrFails(a) \/ RoutesDone(a)
    BY <1>1, <2>2 DEF ConfigureHost, ConfigureHostFails, ConfigureCtr, ConfigureCtrFails,
       UpdateFailed, Updated, RoutesDone
  <2>3. CASE \/ \E r \in mem[a].routes : \/ RefuseRoute(a, r) \/ AddRoute(a, r)
                                         \/ AddRouteFails(a, r) \/ TakePattern(a, r)
             \/ \E r \in mem[a].matching : DelRoute(a, r) \/ DelRouteFails(a, r)
    <3>1. ASSUME NEW routes, NEW rs, Remember(a, [SetRoutes(a, routes) EXCEPT !.routes = rs])
          PROVE  mem'[a].lnk = mem[a].lnk
      <4>1. mem'[a] = [SetRoutes(a, routes) EXCEPT !.routes = rs]
        BY <1>1, <3>1
      <4> QED
        BY <1>1, <4>1 DEF SetRoutes, Memory
    <3>2. ASSUME NEW routes, NEW ms, Remember(a, [SetRoutes(a, routes) EXCEPT !.matching = ms])
          PROVE  mem'[a].lnk = mem[a].lnk
      <4>1. mem'[a] = [SetRoutes(a, routes) EXCEPT !.matching = ms]
        BY <1>1, <3>2
      <4> QED
        BY <1>1, <4>1 DEF SetRoutes, Memory
    <3>3. ASSUME NEW rs, NEW ms, Remember(a, [mem[a] EXCEPT !.routes = rs, !.matching = ms])
          PROVE  mem'[a].lnk = mem[a].lnk
      <4>1. mem'[a] = [mem[a] EXCEPT !.routes = rs, !.matching = ms]
        BY <1>1, <3>3
      <4> QED
        BY <1>1, <4>1 DEF Memory
    <3>4. ASSUME NEW routes, Remember(a, SetRoutes(a, routes)) PROVE mem'[a].lnk = mem[a].lnk
      BY <1>1, <3>4
    <3> QED
      BY <2>3, <3>1, <3>2, <3>3, <3>4
      DEF RefuseRoute, AddRoute, AddRouteFails, TakePattern, DelRoute, DelRouteFails
  <2>4. CASE LockAndLoad(a) \/ Flush(a)
    <3>1. CASE LockAndLoad(a)
      <4>1. mem'[a] = [NoMemory EXCEPT !.conf = file[Cid(a)], !.routes = Req(a).routes]
        BY <1>1, <3>1 DEF LockAndLoad
      <4> QED
        BY <4>1 DEF NoMemory
    <3> QED
      BY <1>1, <2>4, <3>1 DEF Flush, Forget
  <2> QED
    BY <1>3, <2>1, <2>2, <2>3, <2>4 DEF CommandNext
<1>4. CASE /\ a \in Container /\ ~ DriverStep(a)
           /\ HookNext(a) \/ StartContainer(a) \/ StopContainer(a)
  <2>1. CASE ReadConfig(a)
    BY <1>1, <2>1 DEF ReadConfig, NoMemory
  <2>2. CASE \E n \in mem[a].nics : HookNic(a, n)
    BY <1>1, <2>2 DEF HookNic, Memory
  <2>3. CASE \E r \in mem[a].routes : HookRoute(a, r) \/ HookRouteFails(a, r)
    BY <1>1, <2>3 DEF HookRoute, HookRouteFails, Memory
  <2> QED
    BY <1>1, <1>4, <2>1, <2>2, <2>3
    DEF HookNext, MountNetns, StartFails, OpenNetns, HookNicsDone, HookRoutesDone, UnmountNetns,
        AbortStart, HookReturns, StartContainer, StopContainer, Forget
<1>5. CASE Crash(a) \/ \E r \in Requests : Begin(a, r)
  BY <1>1, <1>5 DEF Crash, Begin, Forget
<1> QED
  BY <1>2, <1>3, <1>4, <1>5 DEF StepOf

\* What a process has in hand it remembers, or it is the other end of that.
LEMMA HandsKnow ==
  ASSUME PairsFresh, NEW x \in Actor, NEW l \in Link, InHand(x, l)
  PROVE  mem[x].lnk = l \/ mem[x].lnk \in Ends(l)
<1>1. CASE pc[x] = "joinctr" /\ ThisNic(x).type = "veth"
  <2>1. PICK k \in Pair : mem[x].lnk = <<k, "host">>
    BY <1>1 DEF PairsFresh
  <2>2. l = <<k, "ctr">>
    BY <1>1, <2>1 DEF InHand, Joining, Peer
  <2> QED
    BY <2>1, <2>2 DEF Ends, IsPair
<1> QED
  BY <1>1 DEF InHand, Joining

\* Whoever has a link in hand after a step that is its own has just brought or taken
\* it.
LEMMA NewlyInHand ==
  ASSUME NetTypeOK, PairsFresh, NEW a \in Actor, StepOf(a), NEW l \in Link, InHand(a, l)'
  PROVE  /\ Fresh(a, l) \/ Brings(a, l) \/ Configures(a, l)
         /\ link'[l] = Moved(Place(a)', Tmp)
<1>1. /\ ThisNic(a).type = "eth" \/ ThisNic(a).type = "veth"
      /\ pc \in [Actor -> CommandStep \cup HookStep] /\ mem \in [Actor -> Memory]
      /\ link \in [Link -> LinkState]
  BY ThisNicType DEF Nic, Type, NetTypeOK, NetProcessesTypeOK, KernelTypeOK
<1>2. JoinHost(a) \/ DeleteEth(a)
  BY MovingSteps DEF InHand
<1>3. CASE JoinHost(a)
  <2>1. /\ UNCHANGED <<job, st, inc, netns>> /\ pc[a] = "joinhost" /\ pc'[a] = "joinctr"
        /\ DriverStep(a)
    BY <1>1, <1>3 DEF JoinHost, Goto, ctrVars, DriverStep
  <2>2. NsOf(a)' = NsOf(a) /\ ThisNic(a)' = ThisNic(a)
    BY <1>3, <2>1, JoinHostMoves DEF NsOf, Cid
  <2>3. /\ l = Joining(a)' /\ Place(a)' = NsOf(a)
        /\ Joining(a)' = IF ThisNic(a).type = "veth" THEN Peer(mem'[a].lnk) ELSE mem'[a].lnk
    BY <2>1, <2>2 DEF InHand, Place, Joining, Peer
  <2>4. CASE ThisNic(a).type = "veth"
    <3>1. PICK k \in Pair : mem[a].lnk = <<k, "host">>
      BY <2>1, <2>4 DEF PairsFresh
    <3>2. l = Peer(mem[a].lnk) /\ l \in Ends(mem[a].lnk) /\ l # mem[a].lnk
      <4>1. mem' = mem
        BY <1>3, <2>4, JoinHostMoves
      <4>2. l = Peer(mem[a].lnk)
        BY <2>3, <2>4, <4>1
      <4>3. l = <<k, "ctr">>
        BY <3>1, <4>2 DEF Peer
      <4> QED
        BY <3>1, <4>2, <4>3, LinkNames DEF Ends, IsPair
    <3>3. link' = [link EXCEPT ![mem[a].lnk].name = ThisNic(a).host, ![mem[a].lnk].up = TRUE,
                               ![Peer(mem[a].lnk)] = Moved(NsOf(a), Tmp)]
      BY <1>3, <2>4, JoinHostMoves
    <3>4. link'[l] = Moved(NsOf(a), Tmp)
      BY <1>1, <3>2, <3>3
    <3> QED
      BY <2>1, <2>3, <2>4, <3>2, <3>4 DEF Fresh
  <2>5. CASE ThisNic(a).type # "veth"
    <3>1. PICK m \in LinksNamed(HostNs, ThisNic(a).host) :
            /\ mem'[a].lnk = m /\ link' = [link EXCEPT ![m] = Moved(NsOf(a), Tmp)]
            /\ m = <<ThisNic(a).host, "phys">> \/ DisturbAll(Owners({m}) \cup {Cid(a)})
      BY <1>3, <2>5, JoinHostMoves
    <3>2. l = m /\ link'[l] = Moved(NsOf(a), Tmp)
      BY <1>1, <2>3, <2>5, <3>1
    <3>3. l = <<ThisNic(a).host, "phys">> \/ \A c \in Owners({l}) : disturbed'[c]
      <4>1. CASE DisturbAll(Owners({l}) \cup {Cid(a)})
        BY <4>1, Marks DEF Owners
      <4> QED
        BY <3>1, <3>2, <4>1
    <3> QED
      BY <2>3, <3>1, <3>2, <3>3 DEF Brings, LinksNamed
  <2> QED
    BY <2>4, <2>5
<1>4. CASE DeleteEth(a)
  <2>1. pc[a] = "delete" /\ pc'[a] = "delhost"
    BY <1>1, <1>4 DEF DeleteEth, Deleted, Goto, InHand
  <2>2. PICK m \in LinksNamed(NsOf(a), ThisNic(a).ctr) :
          /\ Change(m, Moved(HostNs, Tmp))
          /\ Remember(a, [mem[a] EXCEPT !.lnk = m])
          /\ CanEnter(a)
    BY <1>1, <1>4, <2>1 DEF DeleteEth, Deleted, Goto
  <2>3. mem'[a].lnk = m
    BY <1>1, <2>2 DEF Remember, Memory
  <2>4. m = l
    BY <2>1, <2>3 DEF InHand
  <2>5. Configures(a, l) /\ link'[l] = Moved(HostNs, Tmp)
    BY <1>1, <2>2, <2>4 DEF LinksNamed, Change, Configures
  <2> QED
    BY <2>1, <2>5 DEF Place
<1> QED
  BY <1>2, <1>3, <1>4

\* What a process has in hand, another one does not touch, but that it may delete the
\* pair by its other end.
LEMMA CarriedKept ==
  ASSUME NetTypeOK, PairsFresh, HookStages, CarriedAlone, NEW a \in Actor, StepOf(a)
  PROVE  CarriedAlone'
<1>1. ASSUME NEW x \in Actor, x # a, NEW l \in Link, InHand(x, l)'
      PROVE  /\ InHand(x, l) /\ Place(x)' = Place(x) /\ ~ InHand(a, l)'
             /\ link'[l] = link[l] \/ (IsPair(l) /\ link'[l] = Absent)
  <2>1. InHand(x, l) /\ pc'[x] = pc[x]
    BY <1>1, OthersStay DEF Kept, InHand, Joining, ThisNic, Peer
  <2>2. link[l].name = Tmp /\ ~ InHand(a, l)
    <3>1. link[l] = Moved(Place(x), Tmp) \/ link[l] = Absent
      BY <2>1 DEF CarriedAlone
    <3>2. link[l].name = Tmp
      BY <3>1 DEF Moved, Absent
    <3> QED
      BY <1>1, <2>1, <3>2 DEF CarriedAlone
  <2>3. ~ Fresh(a, l)
    <3>1. ASSUME Fresh(a, l) PROVE FALSE
      <4>1. PICK k \in Pair :
              /\ mem[a].lnk = <<k, "host">>
              /\ \A m \in Ends(<<k, "host">>) : \A b \in Actor : mem[b].lnk = m => b = a
        BY <3>1 DEF Fresh, PairsFresh
      <4>2. l \in Ends(<<k, "host">>) /\ Ends(l) = Ends(<<k, "host">>)
        BY <3>1, <4>1, LinkNames DEF Fresh
      <4> QED
        BY <1>1, <2>1, <4>1, <4>2, HandsKnow
    <3> QED
      BY <3>1
  <2>4. /\ ~ Brings(a, l) /\ ~ SetsUp(a, l) /\ ~ Configures(a, l)
    BY <2>2, ThisNicType, LinkNames DEF Brings, SetsUp, Configures
  <2>5. ~ Makes(a, l)
    BY <1>1, <2>1, HandsKnow, LinkNames DEF Makes
  <2>6. Deletes(a, l) => IsPair(l) /\ link'[l] = Absent
    BY LinkNames DEF Deletes
  <2>7. link'[l] = link[l] \/ (IsPair(l) /\ link'[l] = Absent)
    BY <2>2, <2>3, <2>4, <2>5, <2>6, StepTouches DEF Touches, Finds, Spares
  <2>8. ~ InHand(a, l)'
    BY <2>3, <2>4, NewlyInHand
  <2>9. Place(x)' = Place(x)
    BY <1>1, <2>1, NsStays DEF Place
  <2> QED
    BY <2>1, <2>7, <2>8, <2>9
<1>2. ASSUME NEW x \in Actor, NEW l \in Link, InHand(x, l)'
      PROVE  /\ link'[l] = Moved(Place(x)', Tmp) \/ (IsPair(l) /\ link'[l] = Absent)
             /\ \A y \in Actor : InHand(y, l)' => y = x
  <2>1. CASE x = a
    BY <1>1, <1>2, <2>1, NewlyInHand
  <2>2. CASE x # a
    <3>1. /\ InHand(x, l) /\ Place(x)' = Place(x) /\ ~ InHand(a, l)'
          /\ link'[l] = link[l] \/ (IsPair(l) /\ link'[l] = Absent)
      BY <1>1, <1>2, <2>2
    <3>2. \A y \in Actor : InHand(y, l)' => y # a /\ InHand(y, l)
      BY <1>1, <3>1
    <3>3. /\ link[l] = Moved(Place(x), Tmp) \/ (IsPair(l) /\ link[l] = Absent)
          /\ \A y \in Actor : InHand(y, l) => y = x
      BY <3>1 DEF CarriedAlone
    <3> QED
      BY <3>1, <3>2, <3>3
  <2> QED
    BY <2>1, <2>2
<1> QED
  BY <1>2 DEF CarriedAlone

\* Of a new pair nobody knows but its maker.
LEMMA FreshKept ==
  ASSUME NetTypeOK, PairsFresh, HookStages, CarriedAlone, NEW a \in Actor, StepOf(a)
  PROVE  PairsFresh'
<1> DEFINE Known(x, k) ==
             /\ mem[x].lnk = <<k, "host">>
             /\ pc[x] = "joinhost" =>
                  \A l \in Ends(<<k, "host">>) :
                    /\ link[l] = Moved(HostNs, Tmp)
                    /\ \A b \in Actor : mem[b].lnk = l => b = x
           Has(x) == pc[x] \in {"joinhost", "joinctr"} /\ ThisNic(x).type = "veth"
                       => \E k \in Pair : Known(x, k)
<1>1. /\ mem \in [Actor -> Memory] /\ ThisNic(a) \in Nic
      /\ ThisNic(a).host # Tmp /\ ThisNic(a).ctr # Tmp
  BY ThisNicType, LinkNames DEF NetTypeOK, NetProcessesTypeOK
<1>2. ASSUME NEW x \in Actor, x # a PROVE Has(x)'
  <2> SUFFICES ASSUME pc'[x] \in {"joinhost", "joinctr"}, ThisNic(x)'.type = "veth"
               PROVE  \E k \in Pair : Known(x, k)'
    OBVIOUS
  <2>1. pc'[x] = pc[x] /\ mem'[x] = mem[x]
    BY <1>2, OthersStay DEF Kept
  <2>2. PICK k \in Pair : Known(x, k)
    BY <2>1 DEF PairsFresh, ThisNic
  <2>3. ASSUME pc[x] = "joinhost", NEW l \in Ends(<<k, "host">>)
        PROVE  link'[l] = Moved(HostNs, Tmp) /\ \A b \in Actor : mem'[b].lnk = l => b = x
    <3>1. /\ link[l] = Moved(HostNs, Tmp) /\ l \in Link
          /\ Ends(l) = Ends(<<k, "host">>)
          /\ \A m \in Ends(l) : \A b \in Actor : mem[b].lnk = m => b = x
      BY <2>2, <2>3, LinkNames
    <3>2. link[l].ns = HostNs /\ link[l].name = Tmp
      BY <3>1 DEF Moved
    <3>3. ~ InHand(a, l)
      BY <1>2, <3>1, HandsKnow, LinkNames
    <3>4. ~ Fresh(a, l)
      <4>1. ASSUME Fresh(a, l) PROVE FALSE
        <5>1. mem[a].lnk \in Ends(l)
          <6>1. PICK j \in Pair : mem[a].lnk = <<j, "host">>
            BY <4>1 DEF Fresh, PairsFresh
          <6> QED
            BY <4>1, <6>1, LinkNames DEF Fresh
        <5> QED
          BY <1>2, <3>1, <5>1
      <4> QED
        BY <4>1
    <3>5. ~ Brings(a, l) /\ ~ SetsUp(a, l) /\ ~ Configures(a, l)
      BY <1>1, <3>2 DEF Brings, SetsUp, Configures
    <3>6. ~ Deletes(a, l)
      <4>1. ASSUME NEW m \in Victims(a), l \in Ends(m) PROVE FALSE
        <5>1. m \in Ends(l) /\ link[m].name = ThisNic(a).host
          BY <4>1, LinkNames DEF Victims, LinksNamed
        <5>2. link[m] = Moved(HostNs, Tmp)
          BY <2>2, <2>3, <3>1, <5>1
        <5> QED
          BY <1>1, <5>1, <5>2 DEF Moved
      <4> QED
        BY <4>1 DEF Deletes
    <3>7. ~ Makes(a, l)
      BY <3>2, LinksAssumption DEF Makes
    <3>8. link'[l] = link[l]
      BY <3>1, <3>3, <3>4, <3>5, <3>6, <3>7, StepTouches DEF Touches, Finds, Spares
    <3>9. mem'[a].lnk # l
      <4>1. CASE CreatePair(a)
        <5>1. \E j \in FreePairs : Remember(a, [mem[a] EXCEPT !.lnk = <<j, "host">>])
          BY <4>1 DEF CreatePair
        <5>2. PICK j \in FreePairs : mem'[a] = [mem[a] EXCEPT !.lnk = <<j, "host">>]
          BY <1>1, <5>1 DEF Remember
        <5>3. mem'[a].lnk = <<j, "host">> /\ link[<<j, "host">>].ns = Nowhere
          BY <1>1, <5>2 DEF Memory, FreePairs
        <5> QED
          BY <3>2, <5>3, LinksAssumption
      <4>2. CASE mem'[a].lnk \in {mem[a].lnk, NoOne}
        BY <1>2, <3>1, <4>2, LinkNames, NetActorsAssumption
      <4>3. CASE link[mem'[a].lnk].name \in {ThisNic(a).host, ThisNic(a).ctr}
        BY <1>1, <3>2, <4>3
      <4> QED
        BY <4>1, <4>2, <4>3, LinksKnown
    <3>10. ASSUME NEW b \in Actor, mem'[b].lnk = l PROVE b = x
      <4>1. b # a
        BY <3>9, <3>10
      <4>2. mem'[b] = mem[b]
        BY <4>1, OthersStay DEF Kept
      <4> QED
        BY <3>1, <3>10, <4>2, LinkNames
    <3> QED
      BY <3>1, <3>8, <3>10
  <2> QED
    BY <2>1, <2>2, <2>3
<1>3. Has(a)'
  <2>1. CASE JoinHost(a)
    <3>1. /\ ThisNic(a)' = ThisNic(a) /\ pc[a] = "joinhost" /\ pc'[a] = "joinctr"
          /\ ThisNic(a).type = "veth" => UNCHANGED mem
      BY <2>1, JoinHostMoves DEF Goto, NetTypeOK, NetProcessesTypeOK
    <3> QED
      BY <3>1 DEF PairsFresh
  <2>2. CASE CreatePair(a)
    <3>1. PICK k \in FreePairs : Make(k) /\ mem' = [mem EXCEPT ![a] = [mem[a] EXCEPT !.lnk = <<k, "host">>]]
      BY <2>2 DEF CreatePair, Remember
    <3>2. mem'[a].lnk = <<k, "host">> /\ \A b \in Actor : b # a => mem'[b] = mem[b]
      BY <1>1, <3>1 DEF Memory
    <3>3. k \in Pair /\ \A b \in Actor : mem[b].lnk \notin Ends(<<k, "host">>)
      BY DEF FreePairs
    <3>4. \A l \in Ends(<<k, "host">>) : link'[l] = Moved(HostNs, Tmp)
      BY <3>1, <3>3, LinkNames DEF Make
    <3> QED
      BY <3>2, <3>3, <3>4
  <2>3. CASE TakeEth(a)
    <3>1. ThisNic(a)' = ThisNic(a) /\ ThisNic(a).type = "eth"
      BY <2>3 DEF TakeEth, ThisNic
    <3> QED
      BY <3>1
  <2> QED
    BY <2>1, <2>2, <2>3, MovingSteps
<1>4. \A x \in Actor : Has(x)'
  <2> HIDE DEF Has
  <2> QED
    BY <1>2, <1>3
<1> QED
  BY <1>4 DEF PairsFresh

\* A link that moves loses its routes, and a new route is over a link where it is.
LEMMA RoutesKept ==
  ASSUME NetTypeOK, PairsFresh, HookStages, RoutesPlaced, NEW a \in Actor, StepOf(a)
  PROVE  RoutesPlaced'
<1>1. \A k \in rtable : k.lnk \in Link
  BY DEF NetTypeOK, KernelTypeOK, KernelRoute
<1>2. CASE rtable' \subseteq rtable
  <2>1. ASSUME NEW k \in rtable' PROVE link'[k.lnk] = link[k.lnk]
    <3>1. k \in rtable /\ k.lnk \in Link /\ link[k.lnk].ns \notin {HostNs, Nowhere}
      BY <1>1, <1>2, <2>1, LinksAssumption DEF RoutesPlaced
    <3> QED
      BY <2>1, <3>1, StepTouches DEF Touches, Lands, Spares
  <2> QED
    BY <1>2, <2>1 DEF RoutesPlaced
<1>3. CASE AddsRoute(a)
  <2>1. PICK r \in Route : RoutePossible(NsOf(a), r) /\ RouteAdd(NsOf(a), r)
    BY <1>3 DEF AddsRoute
  <2>2. PICK l \in RouteLinks(NsOf(a), r) :
          rtable' = rtable \cup {[ns |-> NsOf(a), dest |-> KernelDest(r.dest),
                                  gw |-> r.gw, lnk |-> l]}
    BY <2>1 DEF RouteAdd
  <2>3. link[l].ns = NsOf(a) /\ link' = link /\ NsOf(a) \in Container \X Nat
    BY <1>3, <2>2 DEF RouteLinks, AddsRoute
  <2>4. \A k \in rtable : k.ns = NsOf(a) => k.dest # KernelDest(r.dest)
    BY <2>1 DEF RoutePossible, DestsIn
  <2>5. \A k \in rtable' : link'[k.lnk].ns = k.ns /\ k.ns \in Container \X Nat
    BY <2>2, <2>3 DEF RoutesPlaced
  <2>6. \A k, m \in rtable' : k.ns = m.ns /\ k.dest = m.dest => k = m
    BY <2>2, <2>4 DEF RoutesPlaced
  <2> QED
    BY <2>5, <2>6 DEF RoutesPlaced
<1> QED
  BY <1>2, <1>3, StepTouches

\* The namespaces mounted on a netns file are those of starts up to now.
LEMMA MountsKept ==
  ASSUME NetTypeOK, NoFuture, NEW a \in Actor, StepOf(a), NEW c \in Container
  PROVE  /\ inc[c] <= inc'[c] /\ inc'[c] \in Nat
         /\ \A j \in DOMAIN netns'[c] : netns'[c][j] <= inc'[c]
<1>1. /\ netns \in [Container -> Seq(Nat)] /\ inc \in [Container -> Nat]
      /\ \A j \in DOMAIN netns[c] : netns[c][j] <= inc[c]
  BY DEF NetTypeOK, KernelTypeOK, NetContainersTypeOK, NoFuture
<1>2. CASE c # a
  BY <1>1, <1>2, OthersStay, LifeStays, ActorTypes DEF Kept
<1>3. ASSUME netns'[c] = netns[c], inc'[c] = inc[c] \/ inc'[c] = inc[c] + 1
      PROVE  /\ inc[c] <= inc'[c] /\ inc'[c] \in Nat
             /\ \A j \in DOMAIN netns'[c] : netns'[c][j] <= inc'[c]
  <2>1. \A j \in DOMAIN netns[c] : netns[c][j] \in Nat
    BY <1>1
  <2> QED
    BY <1>1, <1>3, <2>1
<1>4. CASE c = a
  <2> USE <1>4
  <2>1. c \notin Command
    BY ActorTypes
  <2>2. DEFINE m == netns[c]
  <2>3. m \in Seq(Nat) /\ \A j \in DOMAIN m : m[j] <= inc[c]
    BY <1>1
  <2> HIDE DEF m
  <2>4. FileIn(m) \in Seq(Nat) /\ \A j \in DOMAIN FileIn(m) : FileIn(m)[j] <= inc[c]
    BY <1>1, <2>3 DEF FileIn
  <2>5. CASE MountNetns(c)
    <3>1. netns'[c] = <<inc[c]>> \o FileIn(m) /\ inc'[c] = inc[c]
      BY <1>1, <2>5 DEF MountNetns, m
    <3> DEFINE f == FileIn(m)
    <3>2. f \in Seq(Nat) /\ (\A j \in DOMAIN f : f[j] <= inc[c]) /\ inc[c] \in Nat
      BY <1>1, <2>4
    <3> HIDE DEF f
    <3>3. \A j \in DOMAIN (<<inc[c]>> \o f) : (<<inc[c]>> \o f)[j] <= inc[c]
      BY <3>2
    <3> QED
      BY <3>1, <3>2, <3>3 DEF f
  <2>6. CASE StartFails(c)
    <3>1. netns'[c] = m \/ netns'[c] = FileIn(m)
      BY <1>1, <2>6 DEF StartFails, m
    <3>2. inc'[c] = inc[c]
      BY <2>6 DEF StartFails
    <3> QED
      BY <1>1, <2>3, <2>4, <3>1, <3>2
  <2>7. CASE UnmountNetns(c)
    <3>1. netns'[c] = Unmounted(m) /\ inc'[c] = inc[c]
      BY <1>1, <2>7 DEF UnmountNetns, m
    <3>2. \A j \in DOMAIN Unmounted(m) : Unmounted(m)[j] <= inc[c]
      <4>1. CASE m = <<>>
        BY <2>3, <4>1 DEF Unmounted
      <4>2. CASE m # <<>>
        BY <2>3, <4>2 DEF Unmounted
      <4> QED
        BY <4>1, <4>2
    <3> QED
      BY <1>1, <3>1, <3>2
  <2>8. CASE StartContainer(c)
    BY <1>1, <1>3, <2>8 DEF StartContainer
  <2>9. CASE /\ ~ MountNetns(c) /\ ~ StartFails(c) /\ ~ UnmountNetns(c)
             /\ ~ StartContainer(c)
    <3>1. UNCHANGED <<netns, inc>>
      BY <2>1, <2>9 DEF StepOf, HookNext, DriverStep, CreatePair, CreatePairFails, TakeEth,
         TakeEthFails, JoinHost, JoinHostFails, JoinCtr, JoinCtrFails, DeletePair,
         DeletePairFails, DeleteEth, DeleteEthFails, NameEth, NameEthFails, EthNotFound,
         ReadConfig, OpenNetns, HookNicsDone, HookRoutesDone, HookNic, HookRoute,
         HookRouteFails, AbortStart, HookReturns, StopContainer, Crash, ctrVars
    <3> QED
      BY <1>3, <3>1
  <2> QED
    BY <2>5, <2>6, <2>7, <2>8, <2>9
<1> QED
  BY <1>2, <1>4

\* Links go to the host, or to where their container is now.
LEMMA FutureKept ==
  ASSUME NetTypeOK, PairsFresh, HookStages, NoFuture, NEW a \in Actor, StepOf(a)
  PROVE  NoFuture'
<1>1. ASSUME NEW c \in Container, NEW l \in Link, NEW i \in Nat, link'[l].ns = <<c, i>>
      PROVE  i <= inc'[c]
  <2>1. inc[c] <= inc'[c] /\ inc[c] \in Nat /\ inc'[c] \in Nat
    BY MountsKept DEF NetTypeOK, NetContainersTypeOK
  <2>2. link[l].ns = <<c, i>> \/ (CanEnter(a) /\ NsOf(a) = <<c, i>>)
    <3>1. Touches(a, l) \/ Spares(a, l)
      BY StepTouches
    <3> QED
      BY <1>1, <3>1, Namespaces DEF Touches, Lands, Spares
  <2>3. ASSUME CanEnter(a), NsOf(a) = <<c, i>> PROVE i <= inc[c]
    <3>1. CASE a \in Command
      BY <2>1, <2>3, <3>1 DEF CanEnter, Alive, NsOf
    <3>2. CASE a \notin Command
      <4>1. a \in Container /\ a = c
        BY <2>3, <3>2 DEF Actor, NsOf
      <4>2. CASE st[a] = "creating"
        BY <2>1, <2>3, <3>2, <4>1, <4>2 DEF NsOf
      <4>3. CASE st[a] # "creating"
        <5>1. netns[c] \in Seq(Nat) /\ netns[c] # <<>> /\ i = Head(netns[c])
          BY <2>3, <3>2, <4>1, <4>3 DEF CanEnter, NsOf, NetTypeOK, KernelTypeOK
        <5>2. 1 \in DOMAIN netns[c] /\ i = netns[c][1]
          BY <5>1
        <5> QED
          BY <5>2 DEF NoFuture
      <4> QED
        BY <4>2, <4>3
    <3> QED
      BY <3>1, <3>2
  <2>4. i <= inc[c]
    BY <2>2, <2>3 DEF NoFuture
  <2> QED
    BY <2>1, <2>4
<1> QED
  BY <1>1, MountsKept DEF NoFuture

\* The kernel takes back a link, or deletes its pair, when the namespace is dead.
LEMMA GoneTouches ==
  ASSUME NetTypeOK, NEW m \in Link, NamespaceGone(m)
  PROVE  /\ UNCHANGED <<lockVars, ctrVars, pc, job, mem, err, noteVars, envVars>>
         /\ rtable' \subseteq rtable
         /\ \E c \in Container, i \in Nat :
              /\ link[m].ns = <<c, i>> /\ ~ NsAlive(c, i)
              /\ \A l \in Link :
                   \/ link'[l] = link[l] /\ \A k \in rtable : k.lnk = l => k \in rtable'
                   \/ /\ \A k \in rtable' : k.lnk # l
                      /\ \/ l \in Ends(m) /\ link'[l] = Absent
                         \/ l = m /\ ~ IsPair(l) /\ link'[l].ns = HostNs
<1>1. PICK c \in Container, i \in 1..MaxStarts :
        /\ link[m].ns = <<c, i>>
        /\ ~ NsAlive(c, i)
        /\ IF IsPair(m) THEN Delete({m})
           ELSE Change(m, Moved(HostNs, NameBack(link[m].name, Tmp)))
        /\ UNCHANGED <<lockVars, ctrVars, pc, job, mem, err, noteVars, envVars>>
  BY DEF NamespaceGone
<1>2. i \in Nat
  BY NetRequestsAssumption
<1>3. CASE IsPair(m)
  <2>1. Delete({m})
    BY <1>1, <1>3
  <2> QED
    BY <1>1, <1>2, <2>1, OnesDeleted
<1>4. CASE ~ IsPair(m)
  <2>1. Change(m, Moved(HostNs, NameBack(link[m].name, Tmp)))
    BY <1>1, <1>4
  <2>2. Moved(HostNs, NameBack(link[m].name, Tmp)).ns = HostNs
    BY DEF Moved
  <2> QED
    BY <1>1, <1>2, <1>4, <2>1, <2>2, OneChanged
<1> QED
  BY <1>3, <1>4

\* It waits while a process has the namespace open.
LEMMA GoneKept ==
  ASSUME NetTypeOK, LinksInv, NEW m \in Link, NamespaceGone(m)
  PROVE  LinksInv'
<1> CarriedAlone /\ PairsFresh /\ HookStages /\ RoutesPlaced /\ NoFuture
  BY DEF LinksInv
<1>1. UNCHANGED <<ctrVars, pc, job, mem>> /\ rtable' \subseteq rtable
  BY GoneTouches
<1>2. PICK c \in Container, i \in Nat :
        /\ link[m].ns = <<c, i>> /\ ~ NsAlive(c, i)
        /\ \A l \in Link :
             \/ link'[l] = link[l] /\ \A k \in rtable : k.lnk = l => k \in rtable'
             \/ /\ \A k \in rtable' : k.lnk # l
                /\ \/ l \in Ends(m) /\ link'[l] = Absent
                   \/ l = m /\ ~ IsPair(l) /\ link'[l].ns = HostNs
  BY GoneTouches
<1>3. CarriedAlone'
  <2>1. ASSUME NEW x \in Actor, NEW l \in Link, InHand(x, l)'
        PROVE  /\ link'[l] = Moved(Place(x)', Tmp) \/ (IsPair(l) /\ link'[l] = Absent)
               /\ \A y \in Actor : InHand(y, l)' => y = x
    <3>1. InHand(x, l) /\ Place(x)' = Place(x) /\ \A y \in Actor : InHand(y, l)' => InHand(y, l)
      BY <1>1, <2>1 DEF InHand, Joining, ThisNic, Peer, Place, NsOf, Cid, ctrVars
    <3>2. ~ (l = m /\ ~ IsPair(l))
      <4>1. ASSUME l = m, ~ IsPair(l) PROVE FALSE
        <5>1. link[l] = Moved(Place(x), Tmp)
          BY <3>1, <4>1 DEF CarriedAlone
        <5>2. Place(x) = <<c, i>>
          BY <1>2, <4>1, <5>1 DEF Moved
        <5>3. pc[x] = "joinctr" /\ NsOf(x) = <<c, i>>
          BY <3>1, <5>2, Namespaces DEF Place, InHand
        <5> QED
          BY <1>2, <5>3 DEF NsAlive, Holds
      <4> QED
        BY <4>1
    <3>3. l \in Ends(m) => IsPair(l)
      BY LinkNames
    <3> QED
      BY <1>2, <3>1, <3>2, <3>3 DEF CarriedAlone
  <2> QED
    BY <2>1 DEF CarriedAlone
<1>4. PairsFresh'
  <2> DEFINE Known(x, k) ==
               /\ mem[x].lnk = <<k, "host">>
               /\ pc[x] = "joinhost" =>
                    \A l \in Ends(<<k, "host">>) :
                      /\ link[l] = Moved(HostNs, Tmp)
                      /\ \A b \in Actor : mem[b].lnk = l => b = x
             Has(x) == pc[x] \in {"joinhost", "joinctr"} /\ ThisNic(x).type = "veth"
                         => \E k \in Pair : Known(x, k)
  <2>1. ASSUME NEW x \in Actor PROVE Has(x)'
    <3> SUFFICES ASSUME pc[x] \in {"joinhost", "joinctr"}, ThisNic(x).type = "veth"
                 PROVE  \E k \in Pair : Known(x, k)'
      BY <1>1 DEF ThisNic
    <3>1. PICK k \in Pair : Known(x, k)
      BY DEF PairsFresh
    <3>2. ASSUME pc[x] = "joinhost", NEW l \in Ends(<<k, "host">>) PROVE link'[l] = link[l]
      <4>1. l \in Link /\ \A j \in Ends(l) : link[j].ns = HostNs
        <5>1. l \in Link /\ Ends(l) = Ends(<<k, "host">>)
          BY <3>2, LinkNames
        <5>2. \A j \in Ends(l) : link[j] = Moved(HostNs, Tmp)
          BY <3>1, <3>2, <5>1
        <5> QED
          BY <5>1, <5>2 DEF Moved
      <4>2. m \notin Ends(l) /\ m # l
        BY <1>2, <3>2, <4>1, Namespaces, LinkNames
      <4>3. l \notin Ends(m)
        BY <4>2, LinkNames
      <4> QED
        BY <1>2, <4>1, <4>2, <4>3
    <3>3. pc' = pc /\ mem' = mem
      BY <1>1
    <3> QED
      BY <3>1, <3>2, <3>3
  <2> HIDE DEF Has
  <2>2. \A x \in Actor : Has(x)'
    BY <2>1
  <2> QED
    BY <2>2 DEF Has, PairsFresh
<1>5. RoutesPlaced'
  <2>1. ASSUME NEW k \in rtable' PROVE link'[k.lnk] = link[k.lnk]
    <3>1. k \in rtable /\ k.lnk \in Link
      BY <1>1, <2>1 DEF NetTypeOK, KernelTypeOK, KernelRoute
    <3> QED
      BY <1>2, <2>1, <3>1
  <2> QED
    BY <1>1, <2>1 DEF RoutesPlaced
<1>6. NoFuture'
  <2>1. ASSUME NEW d \in Container, NEW l \in Link, NEW j \in Nat, link'[l].ns = <<d, j>>
        PROVE  link[l].ns = <<d, j>>
    <3>1. Absent.ns = Nowhere
      BY DEF Absent
    <3> QED
      BY <1>2, <2>1, <3>1, Namespaces
  <2> QED
    BY <1>1, <2>1 DEF NoFuture, ctrVars
<1>7. HookStages'
  BY <1>1 DEF HookStages, ctrVars
<1> QED
  BY <1>3, <1>4, <1>5, <1>6, <1>7 DEF LinksInv

\* The invariant.
LEMMA LinksInvCorrect == Spec => []LinksInv
<1>1. Init => LinksInv
  <2> SUFFICES ASSUME Init PROVE LinksInv
    OBVIOUS
  <2>1. CarriedAlone /\ PairsFresh
    BY DEF Init, CarriedAlone, InHand, PairsFresh
  <2>2. HookStages
    BY ActorTypes DEF Init, HookStages
  <2>3. RoutesPlaced
    BY DEF Init, RoutesPlaced
  <2>4. \A l \in Link : link[l].ns \in {HostNs, Nowhere}
    BY DEF Init, AtHome, Absent
  <2>5. \A c \in Container, l \in Link, i \in Nat : link[l].ns # <<c, i>>
    BY <2>4, Namespaces
  <2>6. \A c \in Container : DOMAIN netns[c] = {}
    BY DEF Init
  <2>7. NoFuture
    BY <2>5, <2>6 DEF NoFuture
  <2> QED
    BY <2>1, <2>2, <2>3, <2>7 DEF LinksInv
<1>2. NetInv /\ LinksInv /\ [Next]_vars => LinksInv'
  <2> SUFFICES ASSUME NetInv, LinksInv, [Next]_vars PROVE LinksInv'
    OBVIOUS
  <2> NetTypeOK /\ CarriedAlone /\ PairsFresh /\ HookStages /\ RoutesPlaced /\ NoFuture
    BY DEF NetInv, LinksInv
  <2>1. ASSUME NEW a \in Actor, StepOf(a) PROVE LinksInv'
    BY <2>1, CarriedKept, FreshKept, StagesKept, RoutesKept, FutureKept DEF LinksInv
  <2>2. ASSUME UNCHANGED vars PROVE LinksInv'
    <3>1. UNCHANGED <<pc, mem, job, st, inc, netns, link, rtable>>
      BY <2>2 DEF vars, ctrVars, kernelVars
    <3>2. \A x \in Actor : Place(x)' = Place(x)
      BY <3>1 DEF Place, NsOf, Cid
    <3>3. \A x \in Actor, l \in Link : InHand(x, l)' <=> InHand(x, l)
      BY <3>1 DEF InHand, Joining, ThisNic, Peer
    <3>4. CarriedAlone'
      BY <3>1, <3>2, <3>3 DEF CarriedAlone
    <3>5. PairsFresh'
      BY <3>1 DEF PairsFresh, ThisNic
    <3> QED
      BY <3>1, <3>4, <3>5 DEF LinksInv, HookStages, RoutesPlaced, NoFuture
  <2> QED
    BY <2>1, <2>2, GoneKept, NextIsStep
<1> QED
  BY <1>1, <1>2, NetInvCorrect, PTL DEF Spec

\* Nobody takes a physical interface out of a container that starts or runs but the
\* processes that work for it: the drivers look for an interface in the container's
\* own namespace or on the host, find one that is being moved by nobody, and know it by
\* a random name until they are done (JoinAndConfigure, DeleteIf, NsInvoke).
THEOREM InterfacesKept == Spec => OthersKept
<1> DEFINE Kind(c, e) ==
             /\ link[<<e, "phys">>].ns = <<c, inc[c]>> /\ st[c] \in {"creating", "running"}
             /\ link'[<<e, "phys">>].ns # <<c, inc[c]>>
             => \E a \in Actor : Cid(a) = c /\ pc'[a] # pc[a]
<1>1. NetInv /\ LinksInv /\ [Next]_vars => [\A c \in Container, e \in Eth : Kind(c, e)]_vars
  <2> SUFFICES ASSUME NetInv, LinksInv, Next, NEW c \in Container, NEW e \in Eth,
                      link[<<e, "phys">>].ns = <<c, inc[c]>>,
                      st[c] \in {"creating", "running"},
                      link'[<<e, "phys">>].ns # <<c, inc[c]>>
               PROVE  \E a \in Actor : Cid(a) = c /\ pc'[a] # pc[a]
    OBVIOUS
  <2> NetTypeOK /\ CarriedAlone /\ PairsFresh /\ HookStages
    BY DEF NetInv, LinksInv
  <2> DEFINE l == <<e, "phys">>
  <2>1. l \in Link /\ ~ IsPair(l) /\ link'[l] # link[l] /\ inc[c] \in Nat
    BY DEF Link, IsPair, NetTypeOK, NetContainersTypeOK
  <2> HIDE DEF l
  <2>2. link[l].ns = <<c, inc[c]>> /\ link'[l].ns # <<c, inc[c]>>
    BY DEF l
  <2>3. ASSUME NEW m \in Link, NamespaceGone(m) PROVE FALSE
    <3>1. PICK d \in Container, i \in Nat : link[m].ns = <<d, i>> /\ ~ NsAlive(d, i) /\ m = l
      BY <2>1, <2>3, GoneTouches, LinkNames
    <3>2. d = c /\ i = inc[c]
      BY <2>2, <3>1
    <3> QED
      BY <3>1, <3>2 DEF NsAlive
  <2>4. ASSUME NEW a \in Actor, StepOf(a) PROVE Cid(a) = c /\ pc'[a] # pc[a]
    <3>1. Touches(a, l)
      BY <2>1, <2>4, StepTouches DEF Spares
    <3>2. link[l].ns # HostNs /\ link[l].ns # Nowhere
      BY <2>1, <2>2, Namespaces
    <3>3. InHand(a, l) \/ Configures(a, l)
      <4>1. ~ Fresh(a, l) /\ ~ Deletes(a, l) /\ ~ Makes(a, l)
        BY <2>1, LinkNames DEF Fresh, Deletes, Makes
      <4> QED
        BY <3>1, <3>2, <4>1 DEF Touches, Finds, Brings, SetsUp
    <3>4. NsOf(a) = <<c, inc[c]>>
      <4>1. CASE InHand(a, l)
        <5>1. link[l] = Moved(Place(a), Tmp)
          BY <2>1, <4>1 DEF CarriedAlone
        <5> QED
          BY <2>2, <3>2, <5>1 DEF Moved, Place
      <4> QED
        BY <2>2, <3>3, <4>1 DEF Configures
    <3> QED
      BY <2>1, <3>1, <3>4, Namespaces DEF Touches
  <2> QED
    BY <2>3, <2>4, NextIsStep
<1> QED
  BY <1>1, NetInvCorrect, LinksInvCorrect, PTL DEF Spec, OthersKept

=============================================================================

------------------------------ MODULE NetworkHome -------------------------------
(***************************************************************************)
(* What comes home, for any containers, commands, interfaces and requests: *)
(* when nobody works and nothing has disturbed any container, the host has *)
(* its physical interfaces back under their names, and a pair is left of   *)
(* running containers only.                                                *)
(*                                                                         *)
(* NetworkAgreement says that what is configured is there.  This is the    *)
(* other direction, and it has to hold at a stop as well, and after a      *)
(* start that failed: what is in the namespace of a container belongs to a *)
(* nic that somebody is still to take out.                                 *)
(***************************************************************************)
EXTENDS NetworkAgreement

-----------------------------------------------------------------------------
(***************************************************************************)
(* What is in the namespace of a container belongs to a nic                *)
(***************************************************************************)
\* The nics to which an interface in the container may belong, while a works on it:
\* for the stop hook, those that it has yet to take out.
Held(a) ==
  IF a \in Command THEN Due(a)
  ELSE IF st[a] = "creating" \/ pc[a] = "read" THEN file[a].nics
  ELSE (IF pc[a] \in {"open", "each", "delete", "delhost"} THEN mem[a].nics ELSE {})
         \cup (IF pc[a] = "delete" THEN {ThisNic(a)} ELSE {})

\* What is mounted on the netns file: the namespace from the start hook to the stop
\* hook, over the file itself.
NetnsFits(c) ==
  LET mounted == <<inc[c], 0>>
  IN  /\ st[c] # "stopped" => inc[c] > 0
      /\ st[c] = "stopped" => netns[c] = <<>>
      /\ st[c] = "running" => netns[c] = mounted
      /\ st[c] = "creating" =>
           /\ pc[c] \in {"read", "mount"} => netns[c] = <<>>
           /\ pc[c] = "abort" => netns[c] \in {<<>>, <<0>>, mounted}
           /\ pc[c] \notin {"read", "mount", "abort"} => netns[c] = mounted
      /\ st[c] = "stopping" =>
           /\ pc[c] \in {"read", "open"} => netns[c] \in {<<>>, <<0>>, mounted}
           /\ pc[c] = "done" => netns[c] = <<>>
           /\ pc[c] \notin {"read", "open", "done"} => netns[c] \in {<<0>>, mounted}

\* Interfaces are in the namespace of the last start only, while it is mounted.
Current(c) ==
  \A l \in Link, i \in Nat : link[l].ns = <<c, i>> => i = inc[c] /\ netns[c] = <<i, 0>>

\* Link l has the name that nic n asks for, and a driver finds it by the names of n.
Belongs(l, n) ==
  /\ link[l].name = n.ctr
  /\ IF n.type = "eth" THEN l = <<n.host, "phys">>
     ELSE \E k \in Pair :
            /\ l = <<k, "ctr">>
            /\ link[<<k, "host">>] = [ns |-> HostNs, name |-> n.host, ip |-> Empty, up |-> TRUE]

Accounted(c, nics, carried) ==
  \A l \in LinksIn(<<c, inc[c]>>) \ carried : \E n \in nics : Belongs(l, n)

\* The stop hook goes through what is configured.
StopMem(c) ==
  st[c] = "stopping" =>
    /\ pc[c] \in {"open", "each", "delete", "delhost"} => mem[c].nics \subseteq file[c].nics
    /\ pc[c] \in {"delete", "delhost"} => ThisNic(c) \in file[c].nics

\* What a driver takes out is the interface of the nic.
Returns(a) == pc[a] = "delhost" => mem[a].lnk = <<ThisNic(a).host, "phys">>

Orderly(a) == Accounted(Cid(a), Held(a), Carried(a)) /\ RightHand(a) /\ Returns(a)

Tidy(c) ==
  ~ disturbed[c] =>
    /\ NetnsFits(c) /\ Current(c) /\ StopMem(c)
    /\ \A a \in Actor : Serves(a, c) => Orderly(a)
    /\ (\A a \in Actor : ~ Serves(a, c)) => Accounted(c, file[c].nics, {})

TidyInv == \A c \in Container : Tidy(c)

-----------------------------------------------------------------------------
(***************************************************************************)
(* What is accounted for stays so                                          *)
(***************************************************************************)
\* But for these links, what is in the namespace of c was there, under its name, and
\* with the other end of its pair as it is.
Remains(c, links) ==
  \A l \in Link \ links : link'[l].ns = <<c, inc[c]>> =>
    /\ link[l].ns = <<c, inc[c]>> /\ link'[l].name = link[l].name
    /\ \A k \in Pair :
         LET h == <<k, "host">>
         IN  l = <<k, "ctr">> /\ link[h].ns = HostNs /\ link[h].name # Tmp /\ link[h].up
             => link'[h] = link[h]

LEMMA AccountedStays ==
  ASSUME NEW c \in Container, inc'[c] = inc[c], NEW nics \in SUBSET Nic, NEW links,
         Remains(c, links), Accounted(c, nics, links)
  PROVE  Accounted(c, nics, links)'
<1> SUFFICES ASSUME NEW l \in Link \ links, link'[l].ns = <<c, inc[c]>>
             PROVE  \E n \in nics : Belongs(l, n)'
  BY DEF Accounted, LinksIn
<1>1. link[l].ns = <<c, inc[c]>> /\ link'[l].name = link[l].name
  BY DEF Remains
<1>2. PICK n \in nics : Belongs(l, n)
  BY <1>1 DEF Accounted, LinksIn
<1>3. CASE n.type = "eth"
  BY <1>1, <1>2, <1>3 DEF Belongs
<1>4. CASE n.type # "eth"
  <2>1. PICK k \in Pair :
          /\ l = <<k, "ctr">>
          /\ link[<<k, "host">>] = [ns |-> HostNs, name |-> n.host, ip |-> Empty, up |-> TRUE]
    BY <1>2, <1>4 DEF Belongs
  <2>2. link'[<<k, "host">>] = link[<<k, "host">>]
    BY <2>1, LinkNames DEF Remains
  <2> QED
    BY <1>1, <1>2, <1>4, <2>1, <2>2 DEF Belongs
<1> QED
  BY <1>3, <1>4

\* It is by other nics with the same names, or when less or nothing is there.
LEMMA AccountedBy ==
  ASSUME NEW c, NEW nics, NEW links, Accounted(c, nics, links), NEW others,
         \A n \in nics : \E m \in others : m.ctr = n.ctr /\ m.host = n.host /\ m.type = n.type
  PROVE  Accounted(c, others, links)
<1> SUFFICES ASSUME NEW l \in LinksIn(<<c, inc[c]>>) \ links PROVE \E m \in others : Belongs(l, m)
  BY DEF Accounted
<1>1. PICK n \in nics : Belongs(l, n)
  BY DEF Accounted
<1>2. PICK m \in others : m.ctr = n.ctr /\ m.host = n.host /\ m.type = n.type
  OBVIOUS
<1> QED
  BY <1>1, <1>2 DEF Belongs

LEMMA AccountedNow ==
  ASSUME NEW c \in Container, NEW a, NEW nics, NEW carried, Accounted(c, nics, carried)',
         nics \subseteq Held(a)', Carried(a)' = carried
  PROVE  Accounted(c, Held(a), Carried(a))'
  BY DEF Accounted

LEMMA NoneThere ==
  ASSUME NEW c \in Container, \A l \in Link : link'[l].ns # <<c, inc'[c]>>
  PROVE  \A nics, carried : Accounted(c, nics, carried)'
  BY DEF Accounted, LinksIn

LEMMA MoreCarried ==
  ASSUME NEW c, NEW nics, NEW carried, Accounted(c, nics, {})
  PROVE  Accounted(c, nics, carried)
  BY DEF Accounted

\* What was carried is elsewhere now.
LEMMA CarriedAway ==
  ASSUME NEW c, NEW nics, NEW l, link'[l].ns # <<c, inc'[c]>>, Accounted(c, nics, {l})'
  PROVE  Accounted(c, nics, {})'
  BY DEF Accounted, LinksIn

\* It belongs to one more nic.
LEMMA CarriedIn ==
  ASSUME NEW c, NEW nics, NEW l, NEW n, Belongs(l, n)', Accounted(c, nics, {l})'
  PROVE  Accounted(c, nics \cup {n}, {})'
  BY DEF Accounted, LinksIn

\* Which changes let it remain.
LEMMA UntouchedRemains ==
  ASSUME NEW c, NEW links, Untouched(c, links)
  PROVE  Remains(c, links)
<1> SUFFICES ASSUME NEW l \in Link \ links, link'[l].ns = <<c, inc[c]>>
             PROVE  /\ link[l].ns = <<c, inc[c]>> /\ link'[l].name = link[l].name
                    /\ \A k \in Pair :
                         LET h == <<k, "host">>
                         IN  l = <<k, "ctr">> /\ link[h].ns = HostNs /\ link[h].name # Tmp /\ link[h].up
                             => link'[h] = link[h]
  BY DEF Remains
<1>1. link'[l] = link[l]
  BY DEF Untouched
<1> QED
  BY <1>1 DEF Untouched

LEMMA DeleteRemains ==
  ASSUME NetTypeOK, NEW c \in Container, inc[c] \in Nat, NEW links, Delete(links)
  PROVE  Remains(c, {})
<1> SUFFICES ASSUME NEW l \in Link, link'[l].ns = <<c, inc[c]>>
             PROVE  /\ link[l].ns = <<c, inc[c]>> /\ link'[l].name = link[l].name
                    /\ \A k \in Pair : l = <<k, "ctr">> => link'[<<k, "host">>] = link[<<k, "host">>]
  BY DEF Remains
<1>1. ~ \E m \in links : l \in Ends(m)
  <2>1. link'[l] # Absent
    BY Namespaces DEF Absent
  <2> QED
    BY <2>1, OnesDeleted
<1>2. ASSUME NEW k \in Pair, l = <<k, "ctr">> PROVE link'[<<k, "host">>] = link[<<k, "host">>]
  <2>1. <<k, "host">> \in Link /\ ~ \E m \in links : <<k, "host">> \in Ends(m)
    BY <1>1, <1>2, LinkNames
  <2> QED
    BY <2>1, OnesDeleted
<1> QED
  BY <1>1, <1>2, OnesDeleted

-----------------------------------------------------------------------------
(***************************************************************************)
(* Whoever works on a container works in its namespace                     *)
(***************************************************************************)
LEMMA TidyFacts ==
  ASSUME Known, NEW c \in Container, Own(c), Tidy(c), ~ disturbed[c]
  PROVE  /\ NetnsFits(c) /\ Current(c) /\ StopMem(c) /\ Apart(c) /\ inc[c] \in Nat
         /\ <<c, inc[c]>> # HostNs /\ <<c, inc[c]>> # Nowhere /\ HostNs # Nowhere
         /\ \A a \in Actor : Serves(a, c) =>
              /\ Cid(a) = c /\ Accounted(c, Held(a), Carried(a)) /\ RightHand(a) /\ Returns(a)
         /\ netns[c] = <<>> => \A l \in Link, i \in Nat : link[l].ns # <<c, i>>
<1>1. inc[c] \in Nat
  BY KnownFacts DEF NetTypeOK, NetContainersTypeOK
<1>2. NetnsFits(c) /\ Current(c) /\ StopMem(c) /\ Apart(c)
  BY DEF Tidy, Own
<1>3. ASSUME NEW a \in Actor, Serves(a, c)
      PROVE  Cid(a) = c /\ Accounted(c, Held(a), Carried(a)) /\ RightHand(a) /\ Returns(a)
  <2>1. Cid(a) = c /\ Orderly(a)
    BY <1>3 DEF Serves, Tidy
  <2> QED
    BY <2>1 DEF Orderly
<1>4. ASSUME netns[c] = <<>> PROVE \A l \in Link, i \in Nat : link[l].ns # <<c, i>>
  <2>1. \A i : netns[c] # <<i, 0>>
    BY <1>4
  <2> QED
    BY <1>2, <2>1 DEF Current
<1> QED
  BY <1>1, <1>2, <1>3, <1>4, Namespaces

\* What a hook finds mounted at a driver's step.
LEMMA HookNetns ==
  ASSUME Known, NEW c \in Container, Own(c), Tidy(c), ~ disturbed[c],
         pc[c] \in Creating \cup {"delete", "delhost", "unmount"}
  PROVE  /\ inc[c] > 0
         /\ \/ netns[c] = <<inc[c], 0>>
            \/ netns[c] = <<0>> /\ st[c] = "stopping" /\ \A l \in Link, i \in Nat : link[l].ns # <<c, i>>
<1>1. /\ st[c] = "creating" \/ st[c] = "stopping"
      /\ pc[c] \in Creating => st[c] = "creating"
  BY KnownFacts DEF HookStages, Creating
<1>2. inc[c] > 0 /\ netns[c] \in {<<0>>, <<inc[c], 0>>} /\ (st[c] = "creating" => netns[c] = <<inc[c], 0>>)
  BY <1>1, TidyFacts DEF NetnsFits, Creating
<1>3. netns[c] = <<0>> => \A l \in Link, i \in Nat : link[l].ns # <<c, i>>
  <2>1. \A i : <<0>> # <<i, 0>>
    OBVIOUS
  <2> QED
    BY <2>1, TidyFacts DEF Current
<1> QED
  BY <1>1, <1>2, <1>3

\* The namespace that a process enters is that of the last start, or it can enter
\* none and there is nothing in it.
LEMMA InTouch ==
  ASSUME Known, NEW c \in Container, Own(c), Tidy(c), ~ disturbed[c],
         NEW a \in Actor, Serves(a, c),
         a \in Container => pc[a] \in Creating \cup {"delete", "delhost"}
  PROVE  IF CanEnter(a) THEN NsOf(a) = <<c, inc[c]>> /\ netns[c] = <<inc[c], 0>>
         ELSE \A l \in Link, i \in Nat : link[l].ns # <<c, i>>
<1>1. CASE a \in Command
  <2>1. a \notin Container /\ Cid(a) = c /\ Busy(a)
    BY <1>1, ActorTypes DEF Serves, Busy, Locked
  <2>2. pc[c] = "idle" /\ job[a].pid = IF st[c] = "running" THEN inc[c] ELSE 0
    BY <1>1, <2>1, TidyFacts DEF Apart
  <2>3. st[c] \in {"stopped", "running"} /\ (st[c] = "running" => inc[c] > 0)
    BY <2>2, KnownFacts DEF HookStages
  <2>4. CASE st[c] = "running"
    BY <1>1, <2>1, <2>2, <2>3, <2>4, TidyFacts DEF CanEnter, Alive, NsOf, NetnsFits
  <2>5. CASE st[c] = "stopped"
    <3>1. ~ CanEnter(a) /\ netns[c] = <<>>
      BY <1>1, <2>1, <2>2, <2>5, TidyFacts DEF CanEnter, Alive, NetnsFits
    <3> QED
      BY <3>1, TidyFacts
  <2> QED
    BY <2>3, <2>4, <2>5
<1>2. CASE a \in Container
  <2>1. a = c /\ a \notin Command
    BY <1>2, ActorTypes DEF Serves, Cid
  <2>2. pc[c] \in Creating \cup {"delete", "delhost", "unmount"}
    BY <1>2, <2>1
  <2>3. CASE netns[c] = <<inc[c], 0>>
    <3>1. inc[c] # 0 /\ Head(netns[c]) = inc[c] /\ netns[c] # <<>>
      BY <2>2, <2>3, HookNetns
    <3> QED
      BY <2>1, <2>3, <3>1 DEF CanEnter, NsOf
  <2>4. CASE netns[c] = <<0>> /\ st[c] = "stopping" /\ \A l \in Link, i \in Nat : link[l].ns # <<c, i>>
    <3>1. Head(netns[c]) = 0
      BY <2>4
    <3> QED
      BY <2>1, <2>4, <3>1 DEF CanEnter
  <2> QED
    BY <2>2, <2>3, <2>4, HookNetns
<1> QED
  BY <1>1, <1>2 DEF Actor

\* A link that a process in a driver's second function finds where it looks is in
\* the namespace of the last start.
LEMMA FoundThere ==
  ASSUME Known, NEW c \in Container, Own(c), Tidy(c), ~ disturbed[c],
         NEW a \in Actor, Serves(a, c), pc[a] \in {"joinctr", "confctr"},
         NEW l \in Link, link[l].ns = NsOf(a)
  PROVE  NsOf(a) = <<c, inc[c]>> /\ netns[c] = <<inc[c], 0>>
<1>1. \E i \in Nat : NsOf(a) = <<c, i>>
  <2>1. CASE a \in Command
    BY <2>1, KnownFacts DEF Serves, NsOf, NetTypeOK, NetProcessesTypeOK
  <2>2. CASE a \in Container
    <3>1. a = c /\ a \notin Command /\ pc[a] \in HookStep
      BY <2>2, ActorTypes, KnownFacts DEF Serves, Cid, NetTypeOK, NetProcessesTypeOK
    <3>2. st[c] = "creating"
      BY <3>1, KnownFacts DEF HookStages, HookStep
    <3> QED
      BY <3>1, <3>2, TidyFacts DEF NsOf
  <2> QED
    BY <2>1, <2>2 DEF Actor
<1> QED
  BY <1>1, TidyFacts DEF Current

-----------------------------------------------------------------------------
(***************************************************************************)
(* What stays as it is stays tidy                                          *)
(***************************************************************************)
LEMMA HeldType ==
  ASSUME NetTypeOK, NEW a \in Actor
  PROVE  Held(a) \in SUBSET Nic
<1>1. \A c \in Container : file[c].nics \in SUBSET Nic
  BY DEF NetTypeOK, NetContainersTypeOK, Conf
<1>2. mem[a] \in Memory
  BY DEF NetTypeOK, NetProcessesTypeOK
<1>3. mem[a].nics \in SUBSET Nic /\ ThisNic(a) \in Nic /\ Due(a) \in SUBSET Nic
  BY <1>2, DueType, ThisNicType DEF Memory
<1> QED
  BY <1>1, <1>3 DEF Held, Actor

LEMMA HeldSame ==
  ASSUME NEW x \in Actor, pc'[x] = pc[x], mem'[x] = mem[x],
         x \in Container => st'[x] = st[x] /\ file'[x] = file[x]
  PROVE  Held(x)' = Held(x) /\ Carried(x)' = Carried(x) /\ Returns(x)' = Returns(x)
<1>1. x \in Command \/ x \in Container
  BY DEF Actor
<1>2. Carried(x)' = Carried(x) /\ Returns(x)' = Returns(x)
  BY DEF Carried, Joining, Peer, Returns, ThisNic
<1>3. Due(x)' = Due(x)
  BY DEF Due, Left, Nics, ThisNic
<1> QED
  BY <1>1, <1>2, <1>3 DEF Held, ThisNic

\* A container that nobody works on, or whose process does something else.
LEMMA TidyStays ==
  ASSUME Known, NEW c \in Container, inc'[c] = inc[c], file'[c] = file[c], st'[c] = st[c],
         netns'[c] = netns[c], pc'[c] = pc[c], mem'[c] = mem[c], ~ disturbed[c],
         Own(c), Tidy(c), Untouched(c, {}),
         \A l \in Link, i \in Nat : link'[l].ns = <<c, i>> => link[l].ns = <<c, i>>,
         \A x \in Actor : SameWork(x) \/ (~ Serves(x, c) /\ ~ Serves(x, c)')
  PROVE  Tidy(c)'
<1>1. NetnsFits(c) /\ Current(c) /\ StopMem(c)
  BY TidyFacts
<1>2. NetnsFits(c)' /\ Current(c)' /\ StopMem(c)'
  BY <1>1 DEF NetnsFits, Current, StopMem, ThisNic
<1>3. \A x \in Actor : Serves(x, c)' <=> Serves(x, c)
  BY DEF SameWork, Serves
<1>4. \A y : Remains(c, y)
  BY UntouchedRemains DEF Untouched
<1>5. ASSUME NEW x \in Actor, Serves(x, c) PROVE Orderly(x)'
  <2>1. /\ SameWork(x) /\ pc'[x] = pc[x] /\ mem'[x] = mem[x] /\ Cid(x)' = c
        /\ Accounted(c, Held(x), Carried(x)) /\ RightHand(x) /\ Returns(x)
        /\ x \in Container => x = c
        /\ Held(x) \in SUBSET Nic
    BY <1>5, TidyFacts, HeldType, KnownFacts DEF SameWork, Serves, Cid
  <2>2. Held(x)' = Held(x) /\ Carried(x)' = Carried(x) /\ Returns(x)'
    BY <2>1, HeldSame
  <2>3. pc[x] = "joinctr" /\ ThisNic(x).type = "veth" => NsOf(x) = <<c, inc[c]>>
    <3>1. ASSUME pc[x] = "joinctr", ThisNic(x).type = "veth" PROVE NsOf(x) = <<c, inc[c]>>
      <4>1. Joining(x) \in Link
        BY <2>1, <3>1, InRightHand
      <4>2. link[Joining(x)] = Moved(NsOf(x), Tmp)
        BY <2>1, <3>1 DEF RightHand
      <4>3. link[Joining(x)].ns = NsOf(x)
        BY <4>2 DEF Moved
      <4> QED
        BY <1>5, <3>1, <4>1, <4>3, FoundThere
    <3> QED
      BY <3>1
  <2>4. RightHand(x)'
    BY <2>1, <2>3, RightHandStays
  <2>5. \A h, y : h = Held(x) /\ y = Carried(x) => Accounted(c, h, y)'
    BY <1>4, <2>1, AccountedStays
  <2>6. \A h, y : h = Held(x)' /\ y = Carried(x)' => Accounted(c, h, y)'
    BY <2>2, <2>5
  <2> QED
    BY <2>1, <2>2, <2>4, <2>6 DEF Orderly
<1>6. ASSUME \A x \in Actor : ~ Serves(x, c) PROVE Accounted(c, file[c].nics, {})'
  <2>1. Accounted(c, file[c].nics, {}) /\ file[c].nics \in SUBSET Nic
    BY <1>6, KnownFacts DEF Tidy, NetTypeOK, NetContainersTypeOK, Conf
  <2>2. \A h : h = file[c].nics => Accounted(c, h, {})'
    BY <1>4, <2>1, AccountedStays
  <2>3. \A h : h = file'[c].nics => Accounted(c, h, {})'
    BY <2>2
  <2> QED
    BY <2>3
<1> QED
  BY <1>2, <1>3, <1>5, <1>6 DEF Tidy

\* A step for another container.
LEMMA OthersTidy ==
  ASSUME Known, NEW a \in Actor, StepOf(a), NEW c \in Container, Own(c), Tidy(c), Cid(a) # c
  PROVE  Tidy(c)'
<1> SUFFICES ASSUME ~ disturbed'[c] PROVE Tidy(c)'
  BY DEF Tidy
<1>1. a # c /\ NetTypeOK /\ c \in Actor /\ ~ disturbed[c] /\ Untouched(c, {})
  BY KnownFacts, ActorTypes, MarksStay, Elsewhere DEF Cid
<1>2. /\ st'[c] = st[c] /\ inc'[c] = inc[c] /\ pc'[c] = pc[c] /\ mem'[c] = mem[c]
      /\ netns'[c] = netns[c]
  BY <1>1, LifeStays, OthersStay DEF Kept
<1>3. file'[c] = file[c]
  <2>1. CASE a \in Command /\ Flush(a)
    BY <1>1, <2>1, CidType DEF Flush, NetTypeOK, NetContainersTypeOK
  <2> QED
    BY <2>1, LockSteps DEF LockAndLoad, Crash
<1>4. ASSUME NEW l \in Link, NEW i \in Nat, link'[l].ns = <<c, i>> PROVE link[l].ns = <<c, i>>
  <2>1. NsOf(a) # <<c, i>> /\ HostNs # <<c, i>> /\ Nowhere # <<c, i>>
    BY Namespaces
  <2>2. Touches(a, l) \/ Spares(a, l)
    BY StepTouches, KnownFacts
  <2> QED
    BY <1>4, <2>1, <2>2 DEF Touches, Lands, Spares
<1> QED
  BY <1>1, <1>2, <1>3, <1>4, OthersServe, TidyStays

\* The pairs of an undisturbed container have their other ends on the host.
LEMMA TidyPeers ==
  ASSUME Known, NEW c \in Container, Own(c), Tidy(c), ~ disturbed[c], NEW l \in Link,
         NEW i \in Nat, link[l].ns = <<c, i>>, NEW m \in Ends(l), m # l
  PROVE  link[m].ns = HostNs
<1>1. IsPair(l) /\ i = inc[c]
  BY LinkNames, TidyFacts DEF Current
<1>2. ASSUME NEW nics, NEW carried, Accounted(c, nics, carried), l \notin carried
      PROVE  link[m].ns = HostNs
  <2>1. PICK n \in nics : Belongs(l, n)
    BY <1>1, <1>2 DEF Accounted, LinksIn
  <2>2. n.type # "eth"
    BY <1>1, <2>1 DEF Belongs, IsPair
  <2>3. PICK k \in Pair :
          /\ l = <<k, "ctr">>
          /\ link[<<k, "host">>] = [ns |-> HostNs, name |-> n.host, ip |-> Empty, up |-> TRUE]
    BY <2>1, <2>2 DEF Belongs
  <2>4. m = <<k, "host">>
    BY <2>3, LinkNames
  <2> QED
    BY <2>3, <2>4
<1>3. CASE \A a \in Actor : ~ Serves(a, c)
  <2>1. Accounted(c, file[c].nics, {})
    BY <1>3 DEF Tidy
  <2> QED
    BY <1>2, <2>1
<1>4. ASSUME NEW a \in Actor, Serves(a, c) PROVE link[m].ns = HostNs
  <2>1. Accounted(c, Held(a), Carried(a)) /\ RightHand(a)
    BY <1>4, TidyFacts
  <2>2. CASE l \notin Carried(a)
    BY <1>2, <2>1, <2>2
  <2>3. CASE l \in Carried(a)
    <3>1. pc[a] = "joinctr" /\ l = Joining(a)
      BY <2>3 DEF Carried
    <3>2. \E k \in Pair :
            /\ mem[a].lnk = <<k, "host">> /\ Joining(a) = <<k, "ctr">> /\ Joining(a) \in Link
            /\ link[<<k, "host">>] =
                 [ns |-> HostNs, name |-> ThisNic(a).host, ip |-> Empty, up |-> TRUE]
      <4>1. Joining(a) # <<ThisNic(a).host, "phys">>
        BY <1>1, <3>1 DEF IsPair
      <4> QED
        BY <2>1, <3>1, <4>1, InRightHand
    <3>3. PICK k \in Pair : Joining(a) = <<k, "ctr">> /\ link[<<k, "host">>].ns = HostNs
      BY <3>2
    <3>4. m = <<k, "host">>
      BY <3>1, <3>3, LinkNames
    <3> QED
      BY <3>3, <3>4
  <2> QED
    BY <2>2, <2>3
<1> QED
  BY <1>3, <1>4

\* The kernel cleans up no namespace of an undisturbed container, nor its pairs.
LEMMA GoneTidy ==
  ASSUME Known, NEW m \in Link, NamespaceGone(m), NEW c \in Container, Own(c), Tidy(c)
  PROVE  /\ Tidy(c)'
         /\ disturbed[c] \/ \A i \in Nat : link[m].ns # <<c, i>>
<1>1. UNCHANGED <<file, st, inc, netns, pc, job, mem, disturbed>>
  BY GoneTouches, KnownFacts DEF lockVars, ctrVars, noteVars
<1> SUFFICES ASSUME ~ disturbed[c] PROVE Tidy(c)' /\ \A i \in Nat : link[m].ns # <<c, i>>
  BY <1>1 DEF Tidy
<1>2. PICK d \in Container, i \in Nat :
        /\ link[m].ns = <<d, i>> /\ ~ NsAlive(d, i)
        /\ \A l \in Link :
             \/ link'[l] = link[l] /\ \A k \in rtable : k.lnk = l => k \in rtable'
             \/ /\ \A k \in rtable' : k.lnk # l
                /\ \/ l \in Ends(m) /\ link'[l] = Absent
                   \/ l = m /\ ~ IsPair(l) /\ link'[l].ns = HostNs
  BY GoneTouches, KnownFacts
<1>3. d # c
  <2>1. ASSUME d = c PROVE FALSE
    <3>1. netns[c] = <<i, 0>>
      BY <1>2, <2>1, TidyFacts DEF Current
    <3>2. 1 \in DOMAIN netns[c] /\ netns[c][1] = i
      BY <3>1
    <3> QED
      BY <1>2, <2>1, <3>2 DEF NsAlive
  <2> QED
    BY <2>1
<1>4. /\ \A j \in Nat : link[m].ns # <<c, j>> /\ <<c, j>> # HostNs /\ <<c, j>> # Nowhere
      /\ link[m].ns # HostNs /\ inc[c] \in Nat /\ HostNs # Nowhere
  BY <1>2, <1>3, Namespaces, TidyFacts
<1>5. ASSUME NEW l \in Link, NEW j \in Nat, link[l].ns = <<c, j>>
      PROVE  link'[l] = link[l]
  <2>1. l # m
    BY <1>4, <1>5
  <2>2. l \notin Ends(m)
    <3>1. ASSUME l \in Ends(m) PROVE FALSE
      <4>1. m \in Ends(l)
        BY <3>1, LinkNames
      <4>2. link[m].ns = HostNs
        BY <1>5, <2>1, <4>1, TidyPeers
      <4> QED
        BY <1>4, <4>2
    <3> QED
      BY <3>1
  <2> QED
    BY <1>2, <2>1, <2>2
<1>6. ASSUME NEW l \in Link, NEW j \in Nat, link'[l].ns = <<c, j>> PROVE link[l].ns = <<c, j>>
  <2>1. link'[l].ns # HostNs /\ link'[l] # Absent
    BY <1>4, <1>6 DEF Absent
  <2> QED
    BY <1>2, <1>6, <2>1
<1>7. ASSUME NEW k \in Pair, link[<<k, "ctr">>].ns = <<c, inc[c]>>, link[<<k, "host">>].ns = HostNs
      PROVE  link'[<<k, "host">>] = link[<<k, "host">>]
  <2>1. /\ <<k, "host">> \in Link /\ <<k, "ctr">> \in Link /\ <<k, "host">> # <<k, "ctr">>
        /\ \A x : <<k, "host">> \in Ends(x) => x \in {<<k, "host">>, <<k, "ctr">>} \/ x \notin Link
    BY LinkNames DEF Ends, Link
  <2> QED
    BY <1>2, <1>4, <1>7, <2>1
<1>8. Untouched(c, {})
  <2>1. \A l \in Link : <<c, inc[c]>> \in {link[l].ns, link'[l].ns} => link'[l] = link[l]
    BY <1>4, <1>5, <1>6
  <2> QED
    BY <1>7, <2>1 DEF Untouched
<1>9. \A x \in Actor : SameWork(x)
  BY <1>1 DEF SameWork, Cid, NsOf
<1> QED
  BY <1>1, <1>4, <1>6, <1>8, <1>9, TidyStays

-----------------------------------------------------------------------------
(***************************************************************************)
(* A step of who works on the container                                    *)
(***************************************************************************)
\* The others do not begin to work on it.
LEMMA WorkerTidy ==
  ASSUME Known, NEW c \in Container, NEW a \in Actor, StepOf(a), ~ disturbed'[c],
         \A x \in Actor : Serves(x, c) => x = a,
         NetnsFits(c)', Current(c)', StopMem(c)',
         Serves(a, c)' => Orderly(a)',
         ~ Serves(a, c)' => Accounted(c, file[c].nics, {})'
  PROVE  Tidy(c)'
<1>1. ASSUME NEW x \in Actor, x # a, Serves(x, c)' PROVE Serves(x, c)
  <2>1. Kept(x)
    BY <1>1, OthersStay, KnownFacts
  <2> QED
    BY <1>1, <2>1 DEF Kept, Serves, Cid, Actor
<1>2. \A x \in Actor : Serves(x, c)' => x = a
  BY <1>1
<1> QED
  BY <1>2 DEF Tidy

LEMMA OrderlyNow ==
  ASSUME NEW c \in Container, NEW a \in Actor, Cid(a)' = c, pc'[a] # "joinctr", pc'[a] # "delhost",
         NEW nics, Accounted(c, nics, {})', nics \subseteq Held(a)'
  PROVE  Orderly(a)'
<1>1. Carried(a)' = {} /\ RightHand(a)' /\ Returns(a)'
  BY DEF Carried, RightHand, Returns
<1>2. Accounted(c, Held(a), Carried(a))'
  BY <1>1, AccountedNow
<1> QED
  BY <1>1, <1>2 DEF Orderly

\* It brings interfaces into the namespace of the last start only.
LEMMA CurrentKept ==
  ASSUME Known, NEW c \in Container, Own(c), Tidy(c), ~ disturbed[c],
         inc'[c] = inc[c], netns'[c] = netns[c],
         NEW a \in Actor, StepOf(a), Serves(a, c),
         a \in Container => pc[a] \in Creating \cup {"delete", "delhost"}
  PROVE  Current(c)'
<1> SUFFICES ASSUME NEW l \in Link, NEW i \in Nat, link'[l].ns = <<c, i>>
             PROVE  i = inc[c] /\ netns[c] = <<i, 0>>
  BY DEF Current
<1>1. Touches(a, l) \/ Spares(a, l)
  BY StepTouches, KnownFacts
<1>2. <<c, i>> # HostNs /\ <<c, i>> # Nowhere
  BY Namespaces
<1>3. link[l].ns = <<c, i>> \/ (CanEnter(a) /\ NsOf(a) = <<c, i>>)
  BY <1>1, <1>2 DEF Touches, Lands, Spares
<1>4. CASE link[l].ns = <<c, i>>
  BY <1>4, TidyFacts DEF Current
<1>5. CASE CanEnter(a) /\ NsOf(a) = <<c, i>>
  <2>1. NsOf(a) = <<c, inc[c]>> /\ netns[c] = <<inc[c], 0>>
    BY <1>5, InTouch
  <2> QED
    BY <1>5, <2>1
<1> QED
  BY <1>3, <1>4, <1>5

\* A driver at work.
LEMMA DriverAt ==
  ASSUME Known, NEW c \in Container, Own(c), Tidy(c), NEW a \in Actor, StepOf(a), Cid(a) = c,
         DriverStep(a), ~ disturbed'[c]
  PROVE  /\ ~ disturbed[c] /\ Serves(a, c) /\ Serves(a, c)' /\ Cid(a)' = c /\ NsOf(a)' = NsOf(a)
         /\ UNCHANGED <<file, st, inc, netns, job>> /\ inc[c] \in Nat /\ inc'[c] = inc[c]
         /\ pc[a] \in Creating \cup {"delete", "delhost"}
         /\ a \in Container => a = c /\ a \notin Command
         /\ Accounted(c, Held(a), Carried(a)) /\ RightHand(a) /\ Returns(a)
         /\ Held(a) \in SUBSET Nic /\ ThisNic(a) \in Nic
         /\ ThisNic(a).type = "eth" \/ ThisNic(a).type = "veth"
         /\ ThisNic(a).host # Tmp /\ ThisNic(a).ctr # Tmp
         /\ \A x \in Actor : Serves(x, c) => x = a
         /\ pc'[a] = "joinctr" => JoinHost(a)
         /\ pc'[a] = "delhost" => DeleteEth(a)
<1>1. /\ Cid(a)' = c /\ NsOf(a)' = NsOf(a) /\ UNCHANGED <<file, st, inc, netns, job>>
      /\ pc'[a] \in {"joinhost", "joinctr", "delhost", "abort", "flush", "each"}
      /\ pc'[a] = "flush" => a \in Command
      /\ pc'[a] \in {"abort", "each"} => a \in Container
      /\ a \in Container => a = c /\ a \notin Command
      /\ a \in Command => a \notin Container
      /\ pc[a] \in {"create", "joinhost", "joinctr", "delete", "delhost"}
  BY DriverFrame, DriverMoves, KnownFacts, ActorTypes DEF Cid
<1>2. Serves(a, c) /\ Serves(a, c)'
  BY <1>1 DEF Serves, Locked, CommandStep, Actor
<1>3. ~ disturbed[c]
  BY MarksStay, KnownFacts
<1>4. /\ Accounted(c, Held(a), Carried(a)) /\ RightHand(a) /\ Returns(a) /\ inc[c] \in Nat /\ Apart(c)
  BY <1>2, <1>3, TidyFacts
<1>5. /\ Held(a) \in SUBSET Nic /\ ThisNic(a) \in Nic
      /\ ThisNic(a).type = "eth" \/ ThisNic(a).type = "veth"
      /\ ThisNic(a).host # Tmp /\ ThisNic(a).ctr # Tmp
  BY HeldType, ThisNicType, KnownFacts, LinkNames DEF Nic, Type
<1>6. \A x \in Actor : Serves(x, c) => x = a
  BY <1>2, <1>4, OnlyWorker
<1>7. /\ pc'[a] = "joinctr" => JoinHost(a)
      /\ pc'[a] = "delhost" => DeleteEth(a)
  BY MovingSteps, KnownFacts
<1> QED
  BY <1>1, <1>2, <1>3, <1>4, <1>5, <1>6, <1>7 DEF Creating

\* What a command's driver leaves of what is due.
LEMMA DueKept ==
  ASSUME Known, NEW c \in Container, Own(c), Tidy(c), NEW a \in Actor, StepOf(a), Cid(a) = c,
         DriverStep(a), ~ disturbed'[c], a \in Command
  PROVE  /\ pc[a] # "delete" => Due(a) \subseteq Due(a)'
         /\ Due(a) \ {ThisNic(a)} \subseteq Due(a)'
         /\ JoinCtr(a) => ThisNic(a) \in Due(a)'
         /\ DeletePairFails(a) \/ DeleteEthFails(a) => Due(a) \subseteq Due(a)'
<1>1. /\ Serves(a, c) /\ a \notin Container /\ NetTypeOK /\ mem[a] \in Memory
      /\ \A l : Goto(a, l) => pc'[a] = l
      /\ \A m : Remember(a, m) => mem'[a] = m
  BY DriverAt, ActorTypes, KnownFacts, Reads, ThisNicType DEF NetTypeOK, NetProcessesTypeOK
<1>2. /\ Added(a) /\ pc[a] \in Creating => Due(a)' = Due(a) \cup {ThisNic(a)}
      /\ AddFailed(a) /\ pc[a] \in Creating => Due(a)' = Due(a)
      /\ Deleted(a) /\ pc[a] \in {"delete", "delhost"} => Due(a)' = Due(a) \ {ThisNic(a)}
      /\ DeleteFailed(a) /\ pc[a] = "delete" => Due(a)' = Due(a)
  BY <1>1, ReportDue
<1>3. /\ pc[a] \in Creating => Due(a) = Nics(a) \ {ThisNic(a)}
      /\ pc[a] = "delete" => Due(a) = Nics(a) \cup {ThisNic(a)}
      /\ pc[a] = "delhost" => Due(a) = Nics(a) /\ ThisNic(a) \notin Nics(a)
  <2>1. pc[a] \in Creating => Left(a) = {ThisNic(a)}
    BY <1>1 DEF Left
  <2> QED
    BY <1>1, <2>1, WorkFacts
<1>4. ASSUME pc[a] \in Creating, pc'[a] \in {"joinhost", "joinctr"},
             UNCHANGED mem \/ \E l : mem'[a] = [mem[a] EXCEPT !.lnk = l]
      PROVE  Due(a)' = Due(a)
  <2>1. Nics(a)' = Nics(a) /\ ThisNic(a)' = ThisNic(a)
    BY <1>1, <1>4 DEF Nics, ThisNic, Memory
  <2>2. Due(a)' = (Nics(a)' \ ({} \cup {ThisNic(a)'})) \cup {}
    BY <1>1, <1>4 DEF Due, Left, Creating
  <2> QED
    BY <1>3, <1>4, <2>1, <2>2
<1>5. CASE CreatePair(a) \/ TakeEth(a) \/ JoinHost(a)
  <2>1. /\ pc[a] \in {"create", "joinhost"} /\ pc'[a] \in {"joinhost", "joinctr"}
        /\ UNCHANGED mem \/ \E l : mem'[a] = [mem[a] EXCEPT !.lnk = l]
    BY <1>1, <1>5, JoinHostRemembers DEF CreatePair, TakeEth
  <2>2. Due(a)' = Due(a)
    BY <1>4, <2>1 DEF Creating
  <2> QED
    BY <1>5, <2>1, <2>2 DEF JoinCtr, DeletePairFails, DeleteEthFails
<1>6. CASE CreatePairFails(a) \/ TakeEthFails(a) \/ JoinHostFails(a) \/ JoinCtrFails(a)
  <2>1. AddFailed(a) /\ pc[a] \in Creating
    BY <1>6 DEF CreatePairFails, TakeEthFails, JoinHostFails, JoinCtrFails, Creating
  <2>2. ~ JoinCtr(a)
    <3>1. JoinCtr(a) => Due(a)' = Due(a) \cup {ThisNic(a)}
      BY <1>2, <2>1 DEF JoinCtr
    <3>2. pc[a] \in Creating => ThisNic(a) \notin Due(a)
      BY <1>3
    <3> QED
      BY <1>2, <2>1, <3>1, <3>2
  <2> QED
    BY <1>2, <2>1, <2>2 DEF Creating
<1>7. CASE JoinCtr(a)
  <2>1. Added(a) /\ pc[a] = "joinctr"
    BY <1>7 DEF JoinCtr
  <2> QED
    BY <1>2, <2>1 DEF Creating
<1>8. CASE DeletePairFails(a) \/ DeleteEthFails(a)
  <2>1. DeleteFailed(a) /\ pc[a] = "delete"
    BY <1>8 DEF DeletePairFails, DeleteEthFails
  <2>2. ~ JoinCtr(a)
    BY <2>1 DEF JoinCtr
  <2> QED
    BY <1>2, <2>1, <2>2
<1>9. CASE (DeletePair(a) \/ DeleteEth(a)) /\ ~ (DeletePairFails(a) \/ DeleteEthFails(a))
  <2>1. pc[a] = "delete" /\ ~ JoinCtr(a)
    BY <1>9 DEF DeletePair, DeleteEth, JoinCtr
  <2>2. CASE Deleted(a)
    BY <1>2, <1>9, <2>1, <2>2
  <2>3. CASE ~ Deleted(a)
    <3>1. pc'[a] = "delhost" /\ \E l : mem'[a] = [mem[a] EXCEPT !.lnk = l]
      BY <1>1, <1>9, <2>3 DEF DeletePair, DeleteEth
    <3>2. Nics(a)' = Nics(a)
      BY <1>1, <3>1 DEF Nics, Memory
    <3>3. Due(a)' = (Nics(a)' \ {}) \cup {}
      BY <1>1, <3>1 DEF Due, Left, Creating
    <3> QED
      BY <1>3, <1>9, <2>1, <3>2, <3>3
  <2> QED
    BY <2>2, <2>3
<1>10. CASE NameEth(a)
  <2>1. Deleted(a) /\ pc[a] = "delhost"
    BY <1>10 DEF NameEth
  <2>2. Due(a)' = Due(a) \ {ThisNic(a)} /\ ThisNic(a) \notin Due(a)
    BY <1>2, <1>3, <2>1
  <2> QED
    BY <2>1, <2>2 DEF JoinCtr, DeletePairFails, DeleteEthFails
<1>11. CASE NameEthFails(a) \/ EthNotFound(a)
  BY <1>1, <1>11, Disturbs DEF NameEthFails, EthNotFound
<1> QED
  BY <1>5, <1>6, <1>7, <1>8, <1>9, <1>10, <1>11 DEF DriverStep

\* What a driver leaves of what may be in the container.
LEMMA HeldNow ==
  ASSUME Known, NEW c \in Container, Own(c), Tidy(c), NEW a \in Actor, StepOf(a), Cid(a) = c,
         DriverStep(a), ~ disturbed'[c]
  PROVE  /\ pc[a] # "delete" => Held(a) \subseteq Held(a)'
         /\ Held(a) \ {ThisNic(a)} \subseteq Held(a)'
         /\ JoinCtr(a) => ThisNic(a) \in Held(a)'
         /\ a \in Command /\ (DeletePairFails(a) \/ DeleteEthFails(a)) => Held(a) \subseteq Held(a)'
<1>1. CASE a \in Command
  <2>1. Held(a) = Due(a) /\ Held(a)' = Due(a)'
    BY <1>1 DEF Held
  <2> QED
    BY <1>1, <2>1, DueKept
<1>2. CASE a \in Container
  <2>1. /\ a = c /\ a \notin Command /\ ~ disturbed[c] /\ Serves(c, c)
        /\ UNCHANGED <<file, st>> /\ pc[c] \in Creating \cup {"delete", "delhost"}
        /\ pc'[c] \in {"joinhost", "joinctr", "delhost", "abort", "flush", "each"}
        /\ mem'[c].nics = mem[c].nics /\ ThisNic(c)' = ThisNic(c)
    BY <1>2, DriverAt, DriverFrame, KnownFacts DEF ThisNic
  <2>2. CASE st[c] = "creating"
    <3>1. Held(c) = file[c].nics /\ Held(c)' = file[c].nics
      BY <2>1, <2>2 DEF Held
    <3>2. ASSUME JoinCtr(c) PROVE ThisNic(c) \in file[c].nics
      <4>1. pc[c] = "joinctr" /\ Active(c)
        BY <2>1, <2>2, <3>2 DEF JoinCtr, Active
      <4>2. HookMem(c)
        BY <2>1, <2>2, <4>1, HookAtWork
      <4> QED
        BY <4>1, <4>2 DEF HookMem, Creating, Nics
    <3> QED
      BY <2>1, <3>1, <3>2
  <2>3. CASE st[c] # "creating"
    <3>1. pc[c] \in {"delete", "delhost"}
      BY <2>1, <2>3, KnownFacts DEF HookStages, Creating
    <3>2. /\ Held(c) = mem[c].nics \cup IF pc[c] = "delete" THEN {ThisNic(c)} ELSE {}
          /\ pc'[c] \in {"delhost", "each"} => Held(c)' = mem[c].nics \cup {}
      BY <2>1, <2>3, <3>1 DEF Held
    <3>3. pc'[c] \in {"delhost", "each"}
      <4>1. \A l : Goto(c, l) => pc'[c] = l
        BY KnownFacts, ActorTypes, Reads DEF NetTypeOK, NetProcessesTypeOK
      <4> QED
        BY <2>1, <3>1, <4>1 DEF DriverStep, CreatePair, CreatePairFails, TakeEth, TakeEthFails,
           JoinHost, JoinHostFails, JoinCtr, JoinCtrFails, DeletePair, DeletePairFails,
           DeleteEth, DeleteEthFails, NameEth, NameEthFails, EthNotFound, Deleted, DeleteFailed
    <3> QED
      BY <2>1, <3>1, <3>2, <3>3 DEF JoinCtr
  <2> QED
    BY <2>2, <2>3
<1> QED
  BY <1>1, <1>2 DEF Actor

-----------------------------------------------------------------------------
(***************************************************************************)
(* The drivers                                                             *)
(***************************************************************************)
\* Nothing comes in, and what may be there may go on to be.
LEMMA OrderlyAgain ==
  ASSUME Known, NEW c \in Container, Own(c), Tidy(c), NEW a \in Actor, StepOf(a), Cid(a) = c,
         DriverStep(a), ~ disturbed'[c],
         Remains(c, {}), pc[a] # "joinctr", pc'[a] # "joinctr", pc'[a] # "delhost",
         Held(a) \subseteq Held(a)'
  PROVE  Orderly(a)'
<1>1. /\ Accounted(c, Held(a), {}) /\ Held(a) \in SUBSET Nic /\ inc'[c] = inc[c] /\ Cid(a)' = c
  BY DriverAt DEF Carried
<1>2. PICK held : held = Held(a)
  OBVIOUS
<1>3. Accounted(c, held, {})'
  BY <1>1, <1>2, AccountedStays
<1> QED
  BY <1>1, <1>2, <1>3, OrderlyNow

\* CreateIf.
LEMMA CreateTidy ==
  ASSUME Known, NEW c \in Container, Own(c), Tidy(c), NEW a \in Actor, StepOf(a), Cid(a) = c,
         DriverStep(a), ~ disturbed'[c],
         CreatePair(a) \/ CreatePairFails(a) \/ TakeEth(a) \/ TakeEthFails(a)
  PROVE  Orderly(a)'
<1>1. pc[a] = "create"
  BY DEF CreatePair, CreatePairFails, TakeEth, TakeEthFails
<1>2. Remains(c, {})
  BY CreateSpares, UntouchedRemains, KnownFacts
<1>3. pc'[a] # "joinctr" /\ pc'[a] # "delhost" /\ Held(a) \subseteq Held(a)'
  BY <1>1, DriverAt, HeldNow DEF JoinHost, DeleteEth
<1> QED
  BY <1>1, <1>2, <1>3, OrderlyAgain

\* The first function of JoinAndConfigure, and its recovery.
LEMMA JoinHostTidy ==
  ASSUME Known, NEW c \in Container, Own(c), Tidy(c), NEW a \in Actor, StepOf(a), Cid(a) = c,
         DriverStep(a), ~ disturbed'[c], JoinHost(a)
  PROVE  Orderly(a)'
<1>1. /\ pc[a] = "joinhost" /\ CanEnter(a)
      /\ Accounted(c, Held(a), {}) /\ Held(a) \in SUBSET Nic /\ inc'[c] = inc[c] /\ Cid(a)' = c
      /\ inc[c] \in Nat /\ NsOf(a)' = NsOf(a)
  BY DriverAt, JoinHostMoves, KnownFacts DEF Carried
<1>2. NsOf(a) = <<c, inc[c]>>
  BY <1>1, DriverAt, InTouch
<1>3. PICK j, held : j = Joining(a)' /\ held = Held(a)
  OBVIOUS
<1>4. /\ Untouched(c, {j}) /\ RightHand(a)' /\ Carried(a)' = {j} /\ pc'[a] = "joinctr"
  BY <1>1, <1>2, <1>3, JoinHostBrings
<1>5. Accounted(c, held, {j})'
  BY <1>1, <1>3, <1>4, MoreCarried, UntouchedRemains, AccountedStays
<1>6. held \subseteq Held(a)'
  BY <1>1, <1>3, HeldNow
<1>7. Accounted(c, Held(a), Carried(a))'
  BY <1>4, <1>5, <1>6, AccountedNow
<1> QED
  BY <1>1, <1>4, <1>7 DEF Orderly, Returns

LEMMA JoinHostFailsTidy ==
  ASSUME Known, NEW c \in Container, Own(c), Tidy(c), NEW a \in Actor, StepOf(a), Cid(a) = c,
         DriverStep(a), ~ disturbed'[c], JoinHostFails(a)
  PROVE  Orderly(a)'
<1>1. pc[a] = "joinhost" /\ pc'[a] \in {"flush", "abort"} /\ inc[c] \in Nat
  BY KnownFacts, Reads, DriverAt
  DEF JoinHostFails, AddFailed, NetTypeOK, NetProcessesTypeOK
<1>2. Remains(c, {})
  <2>1. CASE ThisNic(a).type = "veth"
    BY <1>1, <2>1, DeleteRemains, KnownFacts DEF JoinHostFails
  <2>2. CASE ThisNic(a).type # "veth"
    <3>1. Untouched(c, {})
      BY <2>2 DEF JoinHostFails, Untouched, kernelVars
    <3> QED
      BY <3>1, UntouchedRemains
  <2> QED
    BY <2>1, <2>2
<1>3. Held(a) \subseteq Held(a)'
  BY <1>1, HeldNow
<1> QED
  BY <1>1, <1>2, <1>3, OrderlyAgain

\* Its second function.
LEMMA JoinCtrTidy ==
  ASSUME Known, NEW c \in Container, Own(c), Tidy(c), NEW a \in Actor, StepOf(a), Cid(a) = c,
         DriverStep(a), ~ disturbed'[c], JoinCtr(a)
  PROVE  Orderly(a)'
<1> PICK j, n, held : j = Joining(a) /\ n = ThisNic(a) /\ held = Held(a)
  OBVIOUS
<1>1. /\ pc[a] = "joinctr" /\ link[j].ns = NsOf(a) /\ Serves(a, c) /\ ~ disturbed[c] /\ Added(a)
      /\ Accounted(c, held, {j}) /\ held \in SUBSET Nic /\ inc'[c] = inc[c] /\ Cid(a)' = c
      /\ inc[c] \in Nat /\ RightHand(a) /\ j \in Link
  <2>1. pc[a] = "joinctr" /\ link[j].ns = NsOf(a) /\ Added(a)
    BY DEF JoinCtr, CanConfigure
  <2>2. RightHand(a)
    BY DriverAt
  <2>3. j \in Link
    BY <2>1, <2>2, InRightHand
  <2> QED
    BY <2>1, <2>2, <2>3, DriverAt DEF Carried
<1>2. NsOf(a) = <<c, inc[c]>>
  BY <1>1, FoundThere
<1>3. Stands(c, j, n)' /\ Untouched(c, {j})
  BY <1>1, <1>2, JoinCtrStands
<1>4. Belongs(j, n)'
  <2>1. link'[j].name = n.ctr
    BY <1>3 DEF Stands
  <2>2. CASE n.type = "eth"
    BY <1>3, <2>1, <2>2 DEF Stands, Belongs
  <2>3. CASE n.type # "eth"
    BY <1>3, <2>1, <2>3 DEF Stands, Belongs
  <2> QED
    BY <2>2, <2>3
<1>5. Accounted(c, held, {j})'
  BY <1>1, <1>3, UntouchedRemains, AccountedStays
<1>6. Accounted(c, held \cup {n}, {})'
  BY <1>4, <1>5, CarriedIn
<1>7. held \cup {n} \subseteq Held(a)'
  <2>1. Held(a) \subseteq Held(a)' /\ ThisNic(a) \in Held(a)'
    BY <1>1, HeldNow
  <2> QED
    BY <2>1
<1>8. pc'[a] # "joinctr" /\ pc'[a] # "delhost"
  BY <1>1, DriverAt DEF JoinHost, DeleteEth
<1> QED
  BY <1>1, <1>6, <1>7, <1>8, OrderlyNow

\* And the recovery.
LEMMA JoinCtrFailsTidy ==
  ASSUME Known, NEW c \in Container, Own(c), Tidy(c), NEW a \in Actor, StepOf(a), Cid(a) = c,
         DriverStep(a), ~ disturbed'[c], JoinCtrFails(a)
  PROVE  Orderly(a)'
<1> PICK j, n, held : j = Joining(a) /\ n = ThisNic(a) /\ held = Held(a)
  OBVIOUS
<1>1. /\ pc[a] = "joinctr" /\ Accounted(c, held, {j}) /\ held \in SUBSET Nic
      /\ inc'[c] = inc[c] /\ Cid(a)' = c /\ inc[c] \in Nat /\ RightHand(a) /\ NetTypeOK
      /\ TakeBack(a) /\ <<c, inc[c]>> # HostNs /\ <<c, inc[c]>> # Nowhere
      /\ n.type = "eth" \/ n.type = "veth"
      /\ held \subseteq Held(a)'
  <2>1. pc[a] = "joinctr"
    BY DEF JoinCtrFails
  <2>2. NetTypeOK /\ TakeBack(a)
    BY KnownFacts, Disturbs DEF JoinCtrFails
  <2>3. Held(a) \subseteq Held(a)'
    BY <2>1, HeldNow
  <2>4. /\ inc[c] \in Nat /\ RightHand(a) /\ Accounted(c, Held(a), Carried(a)) /\ Held(a) \in SUBSET Nic
        /\ inc'[c] = inc[c] /\ Cid(a)' = c /\ (ThisNic(a).type = "eth" \/ ThisNic(a).type = "veth")
    BY DriverAt
  <2>5. Carried(a) = {j}
    BY <2>1 DEF Carried
  <2> QED
    BY <2>1, <2>2, <2>3, <2>4, <2>5, Namespaces
<1>2. /\ n.type = "veth" =>
           \E k \in Pair :
             /\ mem[a].lnk = <<k, "host">> /\ j = <<k, "ctr">> /\ j \in Link
             /\ link[<<k, "host">>] = [ns |-> HostNs, name |-> n.host, ip |-> Empty, up |-> TRUE]
      /\ n.type # "veth" => n.type = "eth" /\ j = mem[a].lnk /\ j \in Link /\ j = <<n.host, "phys">>
  BY <1>1, InRightHand
<1>3. Remains(c, {j}) /\ link'[j].ns # <<c, inc[c]>>
  <2>1. CASE n.type = "veth"
    <3>1. PICK k \in Pair :
            /\ j = <<k, "ctr">> /\ j \in Link
            /\ link[<<k, "host">>] = [ns |-> HostNs, name |-> n.host, ip |-> Empty, up |-> TRUE]
      BY <1>2, <2>1
    <3>2. Delete(Victims(a)) /\ <<k, "host">> \in Victims(a) /\ j \in Ends(<<k, "host">>)
      BY <1>1, <2>1, <3>1, LinkNames DEF TakeBack, Victims, LinksNamed
    <3>3. link'[j] = Absent
      BY <3>1, <3>2 DEF Delete
    <3>4. Remains(c, {})
      BY <1>1, <3>2, DeleteRemains
    <3> QED
      BY <1>1, <3>3, <3>4 DEF Remains, Absent
  <2>2. CASE n.type # "veth"
    <3>1. PICK s : Change(j, s) /\ s.ns = HostNs
      BY <1>1, <1>2, <2>2 DEF TakeBack, Moved
    <3>2. ~ IsPair(j) /\ j \in Link
      BY <1>2, <2>2 DEF IsPair
    <3>3. Untouched(c, {j})
      BY <1>1, <3>1, <3>2, ChangeUntouched
    <3>4. link'[j] = s
      BY <1>1, <3>1, <3>2 DEF Change, NetTypeOK, KernelTypeOK
    <3> QED
      BY <1>1, <3>1, <3>3, <3>4, UntouchedRemains
  <2> QED
    BY <2>1, <2>2
<1>4. Accounted(c, held, {j})'
  BY <1>1, <1>3, AccountedStays
<1>5. Accounted(c, held, {})'
  BY <1>1, <1>3, <1>4, CarriedAway
<1>6. pc'[a] # "joinctr" /\ pc'[a] # "delhost"
  BY <1>1, DriverAt DEF JoinHost, DeleteEth
<1> QED
  BY <1>1, <1>5, <1>6, OrderlyNow

\* What DeleteIf is to take out may be there, and nothing else of its name.
LEMMA ToDelete ==
  ASSUME Known, NEW c \in Container, Own(c), Tidy(c), NEW a \in Actor, StepOf(a), Cid(a) = c,
         DriverStep(a), ~ disturbed'[c], pc[a] = "delete"
  PROVE  ThisNic(a) \in Held(a) /\ Distinct(Held(a)) /\ Accounted(c, Held(a), {})
<1>1. Accounted(c, Held(a), {}) /\ Serves(a, c) /\ ~ disturbed[c]
  BY DriverAt DEF Carried
<1>2. CASE a \in Command
  <2>1. a \notin Container
    BY <1>2, ActorTypes
  <2> QED
    BY <1>1, <1>2, <2>1, WorkFacts DEF Held
<1>3. CASE a \in Container
  <2>1. a = c /\ a \notin Command /\ st[c] = "stopping" /\ StopMem(c) /\ Distinct(file[c].nics)
    BY <1>1, <1>3, DriverAt, TidyFacts, KnownFacts DEF HookStages, NicsDistinct
  <2>2. Held(a) = mem[c].nics \cup {ThisNic(c)}
    BY <2>1 DEF Held
  <2>3. Held(a) \in SUBSET file[c].nics
    BY <2>1, <2>2 DEF StopMem
  <2> QED
    BY <1>1, <2>1, <2>2, <2>3, FewerDistinct
<1> QED
  BY <1>2, <1>3 DEF Actor

\* DeleteIf of a veth.
LEMMA DeletePairTidy ==
  ASSUME Known, NEW c \in Container, Own(c), Tidy(c), NEW a \in Actor, StepOf(a), Cid(a) = c,
         DriverStep(a), ~ disturbed'[c], DeletePair(a) \/ DeletePairFails(a)
  PROVE  Orderly(a)'
<1> PICK n, held : n = ThisNic(a) /\ held = Held(a)
  OBVIOUS
<1>1. /\ pc[a] = "delete" /\ n.type = "veth" /\ inc[c] \in Nat /\ inc'[c] = inc[c] /\ Cid(a)' = c
      /\ held \in SUBSET Nic /\ Accounted(c, held, {}) /\ NetTypeOK
      /\ held \ {n} \subseteq Held(a)'
  <2>1. pc[a] = "delete" /\ n.type = "veth"
    BY DEF DeletePair, DeletePairFails
  <2> QED
    BY <2>1, DriverAt, ToDelete, HeldNow, KnownFacts
<1>2. pc'[a] # "joinctr" /\ pc'[a] # "delhost"
  BY <1>1, DriverAt DEF JoinHost, DeleteEth
<1>3. CASE DeletePair(a)
  <2>1. Delete(Victims(a))
    BY <1>3 DEF DeletePair
  <2>2. Remains(c, {})
    BY <1>1, <2>1, DeleteRemains
  <2>3. Accounted(c, held, {})'
    BY <1>1, <2>2, AccountedStays
  <2>4. ASSUME NEW l, Belongs(l, n)' PROVE FALSE
    <3>1. PICK k \in Pair :
            link'[<<k, "host">>] = [ns |-> HostNs, name |-> n.host, ip |-> Empty, up |-> TRUE]
      BY <1>1, <2>4 DEF Belongs
    <3>2. <<k, "host">> \in Link /\ <<k, "host">> \in Ends(<<k, "host">>)
      BY LinkNames
    <3>3. link'[<<k, "host">>] # Absent
      BY <1>1, <3>1, Namespaces DEF Absent
    <3>4. link[<<k, "host">>] = link'[<<k, "host">>]
      BY <1>1, <2>1, <3>2, <3>3, OnesDeleted
    <3>5. <<k, "host">> \in Victims(a)
      BY <3>1, <3>2, <3>4 DEF Victims, LinksNamed
    <3> QED
      BY <1>1, <2>1, <3>2, <3>3, <3>5, OnesDeleted
  <2>5. Accounted(c, held \ {n}, {})'
    BY <2>3, <2>4 DEF Accounted
  <2> QED
    BY <1>1, <1>2, <2>5, OrderlyNow
<1>4. CASE DeletePairFails(a)
  <2>1. a \in Command
    <3>1. Disturb(c, a \in Container)
      BY <1>4 DEF DeletePairFails
    <3>2. ~ (a \in Container)
      BY <1>1, <3>1 DEF Disturb, NetTypeOK, NetContainersTypeOK
    <3> QED
      BY <3>2 DEF Actor
  <2>2. Held(a) \subseteq Held(a)'
    BY <1>4, <2>1, HeldNow
  <2>3. Remains(c, {})
    <3>1. Untouched(c, {})
      BY <1>4 DEF DeletePairFails, Untouched, kernelVars
    <3> QED
      BY <3>1, UntouchedRemains
  <2> QED
    BY <1>1, <1>2, <2>2, <2>3, OrderlyAgain
<1> QED
  BY <1>3, <1>4

\* DeleteIf of an eth, in the container.
LEMMA DeleteEthTidy ==
  ASSUME Known, NEW c \in Container, Own(c), Tidy(c), NEW a \in Actor, StepOf(a), Cid(a) = c,
         DriverStep(a), ~ disturbed'[c], DeleteEth(a)
  PROVE  Orderly(a)'
<1> PICK n, held : n = ThisNic(a) /\ held = Held(a)
  OBVIOUS
<1>1. /\ pc[a] = "delete" /\ n.type = "eth" /\ inc[c] \in Nat /\ inc'[c] = inc[c] /\ Cid(a)' = c
      /\ held \in SUBSET Nic /\ Accounted(c, held, {}) /\ Distinct(held) /\ n \in held /\ NetTypeOK
      /\ CanEnter(a) /\ Serves(a, c) /\ ~ disturbed[c] /\ held \ {n} \subseteq Held(a)'
      /\ n.ctr # Tmp
  <2>1. pc[a] = "delete" /\ n.type = "eth" /\ CanEnter(a)
    BY DEF DeleteEth
  <2> QED
    BY <2>1, DriverAt, ToDelete, HeldNow, KnownFacts
<1>2. NsOf(a) = <<c, inc[c]>> /\ NsOf(a) # HostNs
  BY <1>1, InTouch, Namespaces
<1>3. ASSUME NEW l \in Link, link[l].ns = <<c, inc[c]>>
      PROVE  /\ \E e \in held : Belongs(l, e)
             /\ link[l].name = n.ctr \/ Belongs(l, n) => l = <<n.host, "phys">> /\ link[l].name = n.ctr
  <2>1. PICK e \in held : Belongs(l, e)
    BY <1>1, <1>3 DEF Accounted, LinksIn
  <2>2. link[l].name = n.ctr => e = n
    BY <1>1, <2>1 DEF Belongs, Distinct
  <2> QED
    BY <1>1, <2>1, <2>2 DEF Belongs
<1>4. CASE LinksNamed(NsOf(a), n.ctr) = {}
  <2>1. Deleted(a) /\ UNCHANGED link
    BY <1>4 DEF DeleteEth, kernelVars
  <2>2. \A l \in Link : link[l].ns = <<c, inc[c]>> => ~ Belongs(l, n)
    BY <1>2, <1>3, <1>4 DEF LinksNamed
  <2>3. Accounted(c, held \ {n}, {})
    BY <1>1, <2>2 DEF Accounted, LinksIn
  <2>4. Accounted(c, held \ {n}, {})'
    <3>1. Untouched(c, {}) /\ held \ {n} \in SUBSET Nic
      BY <1>1, <2>1 DEF Untouched
    <3> QED
      BY <1>1, <2>3, <3>1, UntouchedRemains, AccountedStays
  <2>5. pc'[a] # "joinctr" /\ pc'[a] # "delhost"
    BY <1>1, <2>1, Reads DEF Deleted
  <2> QED
    BY <1>1, <2>4, <2>5, OrderlyNow
<1>5. CASE LinksNamed(NsOf(a), n.ctr) # {}
  <2>1. PICK l \in Link : /\ link[l].ns = NsOf(a) /\ link[l].name = n.ctr
                          /\ Change(l, Moved(HostNs, Tmp))
                          /\ Remember(a, [mem[a] EXCEPT !.lnk = l]) /\ Goto(a, "delhost")
    BY <1>5 DEF DeleteEth, LinksNamed
  <2>2. l = <<n.host, "phys">>
    BY <1>2, <1>3, <2>1
  <2>3. Accounted(c, held \ {n}, {l})
    <3>1. ASSUME NEW m \in LinksIn(<<c, inc[c]>>) \ {l} PROVE \E e \in held \ {n} : Belongs(m, e)
      <4>1. m \in Link /\ link[m].ns = <<c, inc[c]>> /\ m # l
        BY DEF LinksIn
      <4>2. PICK e \in held : Belongs(m, e)
        BY <1>3, <4>1
      <4>3. e # n
        BY <1>3, <2>2, <4>1, <4>2
      <4> QED
        BY <4>2, <4>3
    <3> QED
      BY <3>1 DEF Accounted
  <2>4. Untouched(c, {l}) /\ link'[l] = Moved(HostNs, Tmp)
    <3>1. ~ IsPair(l)
      BY <2>2 DEF IsPair
    <3> QED
      BY <1>1, <2>1, <3>1, ChangeUntouched, OneChanged
  <2>5. Accounted(c, held \ {n}, {l})'
    <3>1. held \ {n} \in SUBSET Nic
      BY <1>1
    <3> QED
      BY <1>1, <2>3, <2>4, <3>1, UntouchedRemains, AccountedStays
  <2>6. Accounted(c, held \ {n}, {})'
    <3>1. link'[l].ns # <<c, inc'[c]>>
      BY <1>1, <1>2, <2>4 DEF Moved
    <3> QED
      BY <2>5, <3>1, CarriedAway
  <2>7. pc'[a] = "delhost" /\ mem'[a].lnk = l /\ ThisNic(a)' = n
    <3>1. pc'[a] = "delhost" /\ mem'[a] = [mem[a] EXCEPT !.lnk = l] /\ mem[a] \in Memory
      BY <1>1, <2>1, Reads, ThisNicType
    <3> QED
      BY <3>1 DEF ThisNic, Memory
  <2>8. Carried(a)' = {} /\ RightHand(a)' /\ Returns(a)'
    BY <2>2, <2>7 DEF Carried, RightHand, Returns
  <2>9. Accounted(c, Held(a), Carried(a))'
    BY <1>1, <2>6, <2>8, AccountedNow
  <2> QED
    BY <1>1, <2>8, <2>9 DEF Orderly
<1> QED
  BY <1>4, <1>5

LEMMA DeleteEthFailsTidy ==
  ASSUME Known, NEW c \in Container, Own(c), Tidy(c), NEW a \in Actor, StepOf(a), Cid(a) = c,
         DriverStep(a), ~ disturbed'[c], DeleteEthFails(a)
  PROVE  Orderly(a)'
<1>1. /\ pc[a] = "delete" /\ ThisNic(a).type = "eth" /\ DeleteFailed(a) /\ NetTypeOK
      /\ inc'[c] = inc[c] /\ inc[c] \in Nat /\ Serves(a, c) /\ ~ disturbed[c] /\ Cid(a)' = c
  <2>1. pc[a] = "delete" /\ ThisNic(a).type = "eth" /\ DeleteFailed(a)
    BY DEF DeleteEthFails
  <2> QED
    BY <2>1, DriverAt, KnownFacts
<1>2. pc'[a] # "joinctr" /\ pc'[a] # "delhost"
  BY <1>1, Reads DEF DeleteFailed
<1>3. UNCHANGED link /\ (CanEnter(a) => a \in Command)
  <2>1. CASE ~ CanEnter(a)
    BY <2>1 DEF DeleteEthFails, kernelVars
  <2>2. CASE CanEnter(a)
    <3>1. UNCHANGED link /\ Disturb(c, a \in Container)
      BY <1>1, <2>2, Disturbs DEF DeleteEthFails, kernelVars
    <3>2. ~ (a \in Container)
      BY <1>1, <3>1 DEF Disturb, NetTypeOK, NetContainersTypeOK
    <3> QED
      BY <3>1, <3>2 DEF Actor
  <2> QED
    BY <2>1, <2>2
<1>4. CASE CanEnter(a)
  <2>1. Remains(c, {})
    <3>1. Untouched(c, {})
      BY <1>3 DEF Untouched
    <3> QED
      BY <3>1, UntouchedRemains
  <2>2. Held(a) \subseteq Held(a)'
    BY <1>3, <1>4, HeldNow
  <2> QED
    BY <1>1, <1>2, <2>1, <2>2, OrderlyAgain
<1>5. CASE ~ CanEnter(a)
  <2>1. \A l \in Link : link'[l].ns # <<c, inc'[c]>>
    BY <1>1, <1>3, <1>5, InTouch
  <2>2. Accounted(c, {}, {})'
    BY <2>1, NoneThere
  <2> QED
    BY <1>1, <1>2, <2>2, OrderlyNow
<1> QED
  BY <1>4, <1>5

\* The second function of DeleteIf.
LEMMA DelHostTidy ==
  ASSUME Known, NEW c \in Container, Own(c), Tidy(c), NEW a \in Actor, StepOf(a), Cid(a) = c,
         DriverStep(a), ~ disturbed'[c], NameEth(a) \/ NameEthFails(a) \/ EthNotFound(a)
  PROVE  Orderly(a)'
<1>1. NameEth(a) /\ NetTypeOK
  BY KnownFacts, Disturbs DEF NameEthFails, EthNotFound
<1>2. /\ pc[a] = "delhost" /\ inc[c] \in Nat /\ mem[a].lnk = <<ThisNic(a).host, "phys">>
      /\ <<c, inc[c]>> # HostNs
  <2>1. pc[a] = "delhost"
    BY <1>1 DEF NameEth
  <2>2. inc[c] \in Nat /\ Returns(a)
    BY DriverAt
  <2> QED
    BY <2>1, <2>2, Namespaces DEF Returns
<1>3. Remains(c, {})
  <2>1. PICK l, s : Change(l, s) /\ s.ns = HostNs /\ link[l].ns = HostNs /\ ~ IsPair(l)
    BY <1>1, <1>2 DEF NameEth, Arrived, Moved, IsPair
  <2>2. Untouched(c, {})
    BY <1>1, <1>2, <2>1, ChangeUntouched
  <2> QED
    BY <2>2, UntouchedRemains
<1>4. pc'[a] # "joinctr" /\ pc'[a] # "delhost" /\ Held(a) \subseteq Held(a)'
  BY <1>2, DriverAt, HeldNow DEF JoinHost, DeleteEth
<1> QED
  BY <1>2, <1>3, <1>4, OrderlyAgain

\* It creates, or it deletes.
LEMMA DriverStages ==
  ASSUME Known, NEW c \in Container, DriverStep(c), pc[c] \in {"delete", "delhost"}
  PROVE  pc'[c] \in {"delhost", "each"}
<1>1. c \notin Command /\ \A l : Goto(c, l) => pc'[c] = l
  BY KnownFacts, ActorTypes, Reads
<1> QED
  BY <1>1 DEF DriverStep, CreatePair, CreatePairFails, TakeEth, TakeEthFails,
     JoinHost, JoinHostFails, JoinCtr, JoinCtrFails, DeletePair, DeletePairFails,
     DeleteEth, DeleteEthFails, NameEth, NameEthFails, EthNotFound, Deleted, DeleteFailed

\* A step of a driver.
LEMMA DriverTidy ==
  ASSUME Known, NEW c \in Container, Own(c), Tidy(c), NEW a \in Actor, StepOf(a), Cid(a) = c,
         DriverStep(a)
  PROVE  Tidy(c)'
<1> SUFFICES ASSUME ~ disturbed'[c] PROVE Tidy(c)'
  BY DEF Tidy
<1>1. Orderly(a)'
  BY CreateTidy, JoinHostTidy, JoinHostFailsTidy, JoinCtrTidy, JoinCtrFailsTidy, DeletePairTidy,
     DeleteEthTidy, DeleteEthFailsTidy, DelHostTidy DEF DriverStep
<1>2. /\ ~ disturbed[c] /\ Serves(a, c) /\ Serves(a, c)' /\ UNCHANGED <<file, st, inc, netns>>
      /\ pc[a] \in Creating \cup {"delete", "delhost"}
      /\ a \in Container => a = c
      /\ \A x \in Actor : Serves(x, c) => x = a
  BY DriverAt
<1>3. Current(c)'
  BY <1>2, CurrentKept
<1>4. NetnsFits(c)' /\ StopMem(c)'
  <2>1. NetnsFits(c) /\ StopMem(c)
    BY <1>2, TidyFacts
  <2>2. CASE a \in Command
    <3>1. c \in Actor \ {a} /\ NetTypeOK
      BY <2>2, ActorTypes, KnownFacts
    <3>2. pc'[c] = pc[c] /\ mem'[c] = mem[c]
      BY <3>1, OthersStay DEF Kept
    <3> QED
      BY <1>2, <2>1, <3>2 DEF NetnsFits, StopMem, ThisNic
  <2>3. CASE a \in Container
    <3>1. /\ a = c /\ pc'[c] \in {"joinhost", "joinctr", "delhost", "abort", "each"}
          /\ mem'[c].nics = mem[c].nics /\ mem'[c].nic = mem[c].nic
      BY <1>2, <2>3, DriverFrame, KnownFacts, ActorTypes
    <3>2. pc'[c] = "delhost" => pc[c] = "delete"
      BY <3>1, DriverAt DEF DeleteEth
    <3>3. /\ pc[c] \in Creating => st[c] = "creating"
          /\ pc[c] \in {"delete", "delhost"} => st[c] = "stopping"
          /\ pc[c] \in Creating \cup {"delete", "delhost"}
      BY <1>2, <3>1, KnownFacts DEF HookStages, Creating
    <3>4. pc[c] \in {"delete", "delhost"} => pc'[c] \in {"delhost", "each"}
      BY <1>2, <3>1, <3>3, DriverStages DEF Creating
    <3>5. st'[c] = st[c] /\ inc'[c] = inc[c] /\ netns'[c] = netns[c] /\ file'[c] = file[c]
      BY <1>2
    <3>6. NetnsFits(c)'
      BY <2>1, <3>1, <3>3, <3>4, <3>5 DEF NetnsFits, Creating
    <3>7. StopMem(c)'
      BY <2>1, <3>1, <3>2, <3>3, <3>4, <3>5 DEF StopMem, ThisNic, Creating
    <3> QED
      BY <3>6, <3>7
  <2> QED
    BY <2>2, <2>3 DEF Actor
<1> QED
  BY <1>1, <1>2, <1>3, <1>4, WorkerTidy

-----------------------------------------------------------------------------
(***************************************************************************)
(* The commands                                                            *)
(***************************************************************************)
LEMMA CommandAt ==
  ASSUME Known, NEW c \in Container, NEW p \in Command, CommandNext(p), Own(c), Tidy(c),
         Serves(p, c), ~ disturbed'[c]
  PROVE  /\ ~ disturbed[c] /\ p \in Actor /\ p \notin Container /\ StepOf(p) /\ NetTypeOK
         /\ Cid(p) = c /\ Cid(p)' = c /\ UNCHANGED <<st, inc, netns, job>>
         /\ inc[c] \in Nat /\ inc'[c] = inc[c]
         /\ pc'[c] = pc[c] /\ mem'[c] = mem[c]
         /\ pc[p] \notin Creating \cup {"delete"} => Accounted(c, Nics(p), {})
         /\ Nics(p) \in SUBSET Nic
         /\ Served(pc[p], mem[p], Req(p), err[p], file[c])
         /\ \A x \in Actor : Serves(x, c) => x = p
<1>1. /\ p \in Actor /\ p # c /\ p \notin Container /\ StepOf(p) /\ NetTypeOK /\ c \in Actor
      /\ Cid(p) = c /\ UNCHANGED <<st, inc, netns, job>>
  BY ActorTypes, KnownFacts, CommandMoves DEF StepOf, Serves, ctrVars
<1>2. Cid(p)' = c /\ ~ disturbed[c] /\ pc'[c] = pc[c] /\ mem'[c] = mem[c]
  BY <1>1, MarksStay, OthersStay DEF Kept, Cid
<1>3. inc[c] \in Nat /\ Accounted(c, Held(p), Carried(p)) /\ Apart(c)
  BY <1>1, <1>2, TidyFacts
<1>4. ASSUME pc[p] \notin Creating \cup {"delete"} PROVE Accounted(c, Nics(p), {})
  <2>1. Carried(p) = {} /\ Held(p) = Nics(p)
    BY <1>4, CommandDue DEF Held, Creating
  <2> QED
    BY <1>3, <2>1
<1>5. Served(pc[p], mem[p], Req(p), err[p], file[c]) /\ Nics(p) \in SUBSET Nic
  BY <1>1, KnownFacts, ThisNicType DEF CommandInv
<1> QED
  BY <1>1, <1>2, <1>3, <1>4, <1>5, OnlyWorker

LEMMA CommandTidy ==
  ASSUME Known, NEW c \in Container, NEW p \in Command, CommandNext(p), Own(c), Tidy(c),
         Serves(p, c),
         ~ disturbed'[c] =>
           \/ pc'[p] \in Locked /\ Orderly(p)'
           \/ pc'[p] \notin Locked /\ Accounted(c, file[c].nics, {})'
  PROVE  Tidy(c)'
<1> SUFFICES ASSUME ~ disturbed'[c] PROVE Tidy(c)'
  BY DEF Tidy
<1>1. /\ ~ disturbed[c] /\ p \in Actor /\ p \notin Container /\ StepOf(p) /\ Cid(p)' = c
      /\ UNCHANGED <<st, inc, netns>> /\ pc'[c] = pc[c] /\ mem'[c] = mem[c] /\ pc[p] \in Locked
      /\ \A x \in Actor : Serves(x, c) => x = p
  BY CommandAt DEF Serves
<1>2. Serves(p, c)' <=> pc'[p] \in Locked
  BY <1>1 DEF Serves
<1>3. Current(c)'
  BY <1>1, CurrentKept
<1>4. NetnsFits(c)' /\ StopMem(c)'
  <2>1. NetnsFits(c) /\ StopMem(c) /\ Apart(c)
    BY <1>1, TidyFacts
  <2>2. pc[c] = "idle"
    BY <1>1, <2>1, CommandAt DEF Apart, Busy, Locked
  <2> QED
    BY <1>1, <2>1, <2>2 DEF NetnsFits, StopMem
<1> QED
  BY <1>1, <1>2, <1>3, <1>4, WorkerTidy

\* The nics in memory have the names that they had.
LEMMA CommandAgain ==
  ASSUME Known, NEW c \in Container, NEW p \in Command, CommandNext(p), Own(c), Tidy(c),
         Serves(p, c), pc[p] \notin Creating \cup {"delete"}, Remains(c, {}),
         pc'[p] \in Locked \ {"joinctr", "delhost"},
         \A n \in Nics(p) : \E m \in Due(p)' : m.ctr = n.ctr /\ m.host = n.host /\ m.type = n.type
  PROVE  Tidy(c)'
<1> SUFFICES ASSUME ~ disturbed'[c] PROVE Orderly(p)'
  BY CommandTidy
<1>1. /\ Accounted(c, Nics(p), {}) /\ Nics(p) \in SUBSET Nic /\ inc'[c] = inc[c]
      /\ Cid(p)' = c /\ p \in Actor
  BY CommandAt
<1>2. PICK nics : nics = Nics(p)
  OBVIOUS
<1>3. Accounted(c, nics, {})'
  BY <1>1, <1>2, AccountedStays
<1>4. Held(p)' = Due(p)'
  BY DEF Held
<1>5. \A h : h = Due(p)' => Accounted(c, h, {})'
  <2>1. ASSUME NEW h, h = Due(p)', NEW l \in Link, link'[l].ns = <<c, inc'[c]>>
        PROVE  \E m \in h : Belongs(l, m)'
    <3>1. PICK n \in nics : Belongs(l, n)'
      BY <1>3, <2>1 DEF Accounted, LinksIn
    <3>2. PICK m \in h : m.ctr = n.ctr /\ m.host = n.host /\ m.type = n.type
      BY <1>2, <2>1
    <3> QED
      BY <3>1, <3>2 DEF Belongs
  <2> QED
    BY <2>1 DEF Accounted, LinksIn
<1>6. \A h : h = Held(p)' => Accounted(c, h, {})'
  BY <1>4, <1>5
<1> QED
  BY <1>1, <1>6, OrderlyNow

\* update-nic means one nic, and keeps its names.
LEMMA OldIsOne ==
  ASSUME NetTypeOK, NEW p \in Command, Distinct(Nics(p)), NEW old \in Old(p)
  PROVE  /\ Old(p) = {old} /\ old \in Nics(p)
         /\ \A new : new = Merged(old, Req(p).nic) =>
              new.ctr = old.ctr /\ new.host = old.host /\ new.type = old.type
<1>1. Nics(p) \in SUBSET Nic /\ Req(p).nic \in NicArg
  BY CommandCid, ThisNicType
<1>2. Old(p) = {e \in Nics(p) : e.ctr = Req(p).nic.ctr}
  BY <1>1, OldByName DEF Old
<1>3. \A e \in Old(p) : e = old
  BY <1>2 DEF Distinct
<1>4. old \in Nic
  BY <1>1, <1>2
<1> QED
  BY <1>2, <1>3, <1>4 DEF Merged, Nic

\* What a command is to do, in memory only.
LEMMA NicCommandTidy ==
  ASSUME Known, NEW c \in Container, NEW p \in Command, CommandNext(p), Own(c), Tidy(c),
         Serves(p, c), AddNic(p) \/ DelNic(p) \/ UpdateNic(p)
  PROVE  Tidy(c)'
<1>1. pc[p] = "begin" /\ UNCHANGED link /\ pc[p] \notin Creating \cup {"delete"}
  BY DEF AddNic, DelNic, UpdateNic, kernelVars, Creating
<1>2. /\ mem[p] \in Memory /\ NetTypeOK /\ p \in Actor /\ p \notin Container
      /\ \A l : Goto(p, l) => pc'[p] = l
      /\ \A m : Remember(p, m) => mem'[p] = m
      /\ Req(p) \in Request /\ Nics(p) \in SUBSET Nic /\ Req(p).nic \in NicArg
  BY KnownFacts, CommandCid, Reads, ThisNicType
<1>3. Remains(c, {})
  <2>1. Untouched(c, {})
    BY <1>1 DEF Untouched
  <2> QED
    BY <2>1, UntouchedRemains
<1>4. ASSUME pc'[p] \in {"flush", "create", "delete", "confhost", "confctr"},
             \A n \in Nics(p) : \E m \in Due(p)' : m.ctr = n.ctr /\ m.host = n.host /\ m.type = n.type
      PROVE  Tidy(c)'
  <2>1. pc'[p] \in Locked \ {"joinctr", "delhost"}
    BY <1>4 DEF Locked, CommandStep
  <2> QED
    BY <1>1, <1>3, <1>4, <2>1, CommandAgain
<1>5. ASSUME NEW failed, GiveUp(p, failed) PROVE Tidy(c)'
  <2>1. pc'[p] = "flush" /\ mem' = mem
    BY <1>2, <1>5 DEF GiveUp
  <2>2. Due(p)' = Nics(p)
    BY <2>1, CommandDueNow DEF Nics, Creating
  <2> QED
    BY <1>4, <2>1, <2>2
<1>6. ASSUME AddNic(p), ~ \E failed : GiveUp(p, failed) PROVE Tidy(c)'
  <2> PICK n : n = Req(p).nic
    OBVIOUS
  <2>1. /\ ~ IsConflictInterface(Nics(p), n)
        /\ pc'[p] \in {"create", "flush"}
        /\ mem'[p] = [SetNics(p, Nics(p) \cup {n}) EXCEPT !.nic = n]
    BY <1>2, <1>6 DEF AddNic
  <2>2. Nics(p)' = Nics(p) \cup {n} /\ ThisNic(p)' = n
    BY <1>2, <2>1 DEF SetNics, Nics, ThisNic, Memory, Conf
  <2>3. n \notin Nics(p)
    BY <2>1 DEF IsConflictInterface, IsConflictNic
  <2>4. Due(p)' = (Nics(p)' \ (IF pc'[p] = "create" THEN {ThisNic(p)'} ELSE {})) \cup {}
    BY <1>2, <2>1 DEF Due, Left, Creating
  <2>5. Nics(p) \subseteq Due(p)'
    BY <2>1, <2>2, <2>3, <2>4
  <2> QED
    BY <1>4, <2>1, <2>5
<1>7. ASSUME DelNic(p), ~ \E failed : GiveUp(p, failed) PROVE Tidy(c)'
  <2>1. PICK n \in FindInterfaceByName(Nics(p), Req(p).nic) :
          /\ Remember(p, [SetNics(p, WithoutNic(Nics(p), n)) EXCEPT !.nic = n])
          /\ Goto(p, IF Alive(p) THEN "delete" ELSE "flush")
    BY <1>7 DEF DelNic
  <2>2. mem'[p] = [SetNics(p, Nics(p) \ {n}) EXCEPT !.nic = n] /\ n \in Nics(p)
    BY <1>2, <2>1 DEF WithoutNic, FindInterfaceByName
  <2>3. Nics(p)' = Nics(p) \ {n} /\ ThisNic(p)' = n
    BY <1>2, <2>2 DEF SetNics, Nics, ThisNic, Memory, Conf
  <2>4. CASE Alive(p)
    <3>1. pc'[p] = "delete"
      BY <1>2, <2>1, <2>4
    <3>2. Due(p)' = (Nics(p)' \ {}) \cup {ThisNic(p)'}
      BY <1>2, <3>1 DEF Due, Left, Creating
    <3>3. Due(p)' = Nics(p)
      BY <2>2, <2>3, <3>2
    <3> QED
      BY <1>4, <3>1, <3>3
  <2>5. CASE ~ Alive(p)
    <3>1. pc'[p] = "flush"
      BY <1>2, <2>1, <2>5
    <3>2. ASSUME ~ disturbed'[c] PROVE Orderly(p)'
      <4>1. /\ ~ disturbed[c] /\ inc'[c] = inc[c] /\ Cid(p)' = c /\ ~ CanEnter(p)
            /\ inc[c] \in Nat
        BY <2>5, <3>2, CommandAt DEF CanEnter
      <4>2. \A l \in Link : link'[l].ns # <<c, inc'[c]>>
        BY <1>1, <1>2, <4>1, InTouch
      <4>3. Accounted(c, {}, {})'
        BY <4>2, NoneThere
      <4> QED
        BY <1>2, <3>1, <4>1, <4>3, OrderlyNow
    <3>3. pc'[p] \in Locked
      BY <3>1 DEF Locked, CommandStep
    <3> QED
      BY <3>2, <3>3, CommandTidy
  <2> QED
    BY <2>4, <2>5
<1>8. ASSUME UpdateNic(p), ~ \E failed : GiveUp(p, failed) PROVE Tidy(c)'
  <2>1. PICK old \in Old(p) :
          LET new == Merged(old, Req(p).nic)
          IN  IF Applies(p)
              THEN /\ Remember(p, [mem[p] EXCEPT !.nic = new])
                   /\ Goto(p, IF new.type = "veth" THEN "confhost" ELSE "confctr")
              ELSE Remember(p, Updated(p, new)) /\ Goto(p, "flush")
    BY <1>8 DEF UpdateNic
  <2>2. PICK new : new = Merged(old, Req(p).nic)
    OBVIOUS
  <2>3. CASE Applies(p)
    <3>1. pc'[p] \in {"confhost", "confctr"} /\ mem'[p] = [mem[p] EXCEPT !.nic = new]
      BY <1>2, <2>1, <2>2, <2>3
    <3>2. Nics(p)' = Nics(p)
      BY <1>2, <3>1 DEF Nics, Memory, Conf
    <3>3. Due(p)' = Nics(p)
      BY <3>1, <3>2, CommandDueNow DEF Creating
    <3> QED
      BY <1>4, <3>1, <3>3
  <2>4. CASE ~ Applies(p)
    <3>1. pc'[p] = "flush" /\ mem'[p] = Updated(p, new)
      BY <1>2, <2>1, <2>2, <2>4
    <3>2. Nics(p)' = (Nics(p) \ Old(p)) \cup {new}
      BY <1>2, <3>1, SetFields DEF Updated, Nics
    <3>3. Due(p)' = (Nics(p) \ Old(p)) \cup {new}
      BY <3>1, <3>2, CommandDueNow DEF Creating
    <3>4. ASSUME ~ disturbed'[c] PROVE Nics(p) = file[c].nics
      BY <1>1, <3>4, CommandAt DEF Served, Nics
    <3>5. ASSUME ~ disturbed'[c], NEW n \in Nics(p)
          PROVE  \E m \in Due(p)' : m.ctr = n.ctr /\ m.host = n.host /\ m.type = n.type
      <4>1. Distinct(Nics(p))
        BY <3>4, <3>5, KnownFacts DEF NicsDistinct
      <4>2. /\ Old(p) = {old}
            /\ new.ctr = old.ctr /\ new.host = old.host /\ new.type = old.type
        BY <1>2, <2>2, <4>1, OldIsOne
      <4> QED
        BY <3>3, <4>2
    <3> QED
      BY <1>4, <3>1, <3>5 DEF Tidy
  <2> QED
    BY <2>3, <2>4
<1> QED
  BY <1>5, <1>6, <1>7, <1>8

\* update-nic, on the host.
LEMMA ConfigureHostTidy ==
  ASSUME Known, NEW c \in Container, NEW p \in Command, CommandNext(p), Own(c), Tidy(c),
         Serves(p, c), ConfigureHost(p) \/ ConfigureHostFails(p)
  PROVE  Tidy(c)'
<1> SUFFICES ASSUME ~ disturbed'[c] PROVE Tidy(c)'
  BY DEF Tidy
<1>1. p \in Actor /\ NetTypeOK /\ \A l : Goto(p, l) => pc'[p] = l
  BY KnownFacts, CommandCid, Reads
<1>2. pc[p] = "confhost" /\ pc'[p] \in {"confctr", "flush"} /\ UNCHANGED mem
  BY <1>1 DEF ConfigureHost, ConfigureHostFails, UpdateFailed
<1>3. Remains(c, {})
  <2>1. Cid(p) = c
    BY CommandAt
  <2>2. Untouched(c, {})
    BY <1>1, <2>1, ConfigureHostSpares
  <2> QED
    BY <2>2, UntouchedRemains
<1>4. Due(p)' = Nics(p)
  BY <1>2, CommandDueNow DEF Creating, Nics
<1>5. pc'[p] \in Locked \ {"joinctr", "delhost"}
  BY <1>2 DEF Locked, CommandStep
<1> QED
  BY <1>2, <1>3, <1>4, <1>5, CommandAgain DEF Creating

\* update-nic, in the container.
LEMMA ConfigureCtrTidy ==
  ASSUME Known, NEW c \in Container, NEW p \in Command, CommandNext(p), Own(c), Tidy(c),
         Serves(p, c), ConfigureCtr(p) \/ ConfigureCtrFails(p)
  PROVE  Tidy(c)'
<1> SUFFICES ASSUME ~ disturbed'[c] PROVE Tidy(c)'
  BY DEF Tidy
<1>1. /\ p \in Actor /\ NetTypeOK
      /\ \A l : Goto(p, l) => pc'[p] = l
      /\ \A m : Remember(p, m) => mem'[p] = m
      /\ Nics(p) \in SUBSET Nic /\ Req(p).nic \in NicArg /\ link \in [Link -> LinkState]
  BY KnownFacts, CommandCid, Reads, ThisNicType DEF NetTypeOK, KernelTypeOK
<1>2. pc[p] = "confctr" /\ pc'[p] = "flush"
  BY <1>1 DEF ConfigureCtr, ConfigureCtrFails, UpdateFailed
<1>3. Cid(p) = c /\ inc[c] \in Nat /\ Served("confctr", mem[p], Req(p), err[p], file[c])
  BY <1>2, CommandAt
<1>4. pc'[p] \in Locked \ {"joinctr", "delhost"}
  BY <1>2 DEF Locked, CommandStep
<1>5. CASE ConfigureCtrFails(p)
  <2>1. UNCHANGED link /\ mem' = mem
    BY <1>1, <1>3, <1>5, Disturbs DEF ConfigureCtrFails, UpdateFailed, kernelVars
  <2>2. Remains(c, {})
    <3>1. Untouched(c, {})
      BY <2>1 DEF Untouched
    <3> QED
      BY <3>1, UntouchedRemains
  <2>3. Due(p)' = Nics(p)
    BY <1>2, <2>1, CommandDueNow DEF Creating, Nics
  <2> QED
    BY <1>2, <1>4, <2>2, <2>3, CommandAgain DEF Creating
<1>6. CASE ConfigureCtr(p)
  <2>1. PICK l, s : /\ l \in Link /\ link[l].ns = NsOf(p)
                    /\ Change(l, s) /\ s.ns = link[l].ns /\ s.name = link[l].name
    <3>1. PICK l \in Link :
            /\ link[l].ns = NsOf(p)
            /\ Change(l, [link[l] EXCEPT !.ip = ThisNic(p).ip, !.up = @ \/ ThisNic(p).type = "veth"])
      BY <1>6 DEF ConfigureCtr, LinksNamed
    <3>2. PICK s : s = [link[l] EXCEPT !.ip = ThisNic(p).ip, !.up = @ \/ ThisNic(p).type = "veth"]
      OBVIOUS
    <3>3. s.ns = link[l].ns /\ s.name = link[l].name
      <4>1. link[l] \in LinkState
        BY <1>1
      <4> QED
        BY <3>2, <4>1 DEF LinkState
    <3> QED
      BY <3>1, <3>2, <3>3
  <2>2. NsOf(p) # HostNs
    BY <1>1, NsOfContainer
  <2>3. Remains(c, {})
    <3>1. ASSUME NEW m \in Link PROVE link'[m].ns = link[m].ns /\ link'[m].name = link[m].name
      BY <1>1, <2>1, OneChanged
    <3>2. ASSUME NEW k \in Pair, link[<<k, "host">>].ns = HostNs
          PROVE  link'[<<k, "host">>] = link[<<k, "host">>]
      BY <1>1, <2>1, <2>2, <3>2, OneChanged, LinkNames
    <3> QED
      BY <3>1, <3>2 DEF Remains
  <2>4. PICK old \in Nics(p) : old.ctr = Req(p).nic.ctr /\ ThisNic(p) = Merged(old, Req(p).nic)
    BY <1>3 DEF Served, Updates, Nics, ThisNic
  <2>5. Distinct(Nics(p))
    <3>1. Nics(p) = file[c].nics
      BY <1>3 DEF Served, Nics
    <3> QED
      BY <3>1, KnownFacts DEF NicsDistinct
  <2>6. old \in Old(p)
    BY <1>1, <2>4, OldByName DEF Old
  <2>7. PICK new : new = ThisNic(p)
    OBVIOUS
  <2>8. /\ Old(p) = {old}
        /\ new.ctr = old.ctr /\ new.host = old.host /\ new.type = old.type
    BY <1>1, <2>4, <2>5, <2>6, <2>7, OldIsOne
  <2>9. mem'[p] = SetNics(p, (Nics(p) \ Old(p)) \cup {new})
    BY <1>1, <1>6, <2>7 DEF ConfigureCtr, Updated
  <2>10. Nics(p)' = (Nics(p) \ {old}) \cup {new}
    BY <1>1, <2>8, <2>9, SetFields DEF Nics
  <2>11. Due(p)' = (Nics(p) \ {old}) \cup {new}
    BY <1>2, <2>10, CommandDueNow DEF Creating
  <2>12. \A n \in Nics(p) : \E m \in Due(p)' : m.ctr = n.ctr /\ m.host = n.host /\ m.type = n.type
    BY <2>8, <2>11
  <2> QED
    BY <1>2, <1>4, <2>3, <2>12, CommandAgain DEF Creating
<1> QED
  BY <1>5, <1>6

\* The routes.
LEMMA RoutesTidy ==
  ASSUME Known, NEW c \in Container, NEW p \in Command, CommandNext(p), Own(c), Tidy(c),
         Serves(p, c),
         \/ \E r \in mem[p].routes : \/ RefuseRoute(p, r) \/ AddRoute(p, r)
                                     \/ AddRouteFails(p, r) \/ TakePattern(p, r)
         \/ \E r \in mem[p].matching : DelRoute(p, r) \/ DelRouteFails(p, r)
         \/ RoutesDone(p)
  PROVE  Tidy(c)'
<1>1. /\ mem[p] \in Memory /\ p \in Actor /\ NetTypeOK
      /\ \A l : Goto(p, l) => pc'[p] = l
      /\ \A m : Remember(p, m) => mem'[p] = m
  BY KnownFacts, CommandCid, Reads
<1>2. pc[p] = "routes" /\ pc'[p] \in {"routes", "flush"} /\ UNCHANGED link
  BY <1>1 DEF RefuseRoute, AddRoute, AddRouteFails, TakePattern, DelRoute, DelRouteFails,
     RoutesDone, kernelVars
<1>3. Nics(p)' = Nics(p)
  <2>1. CASE (\E r \in mem[p].routes : RefuseRoute(p, r)) \/ RoutesDone(p)
    BY <2>1 DEF RefuseRoute, RoutesDone, Nics
  <2>2. ASSUME NEW r, NEW routes, NEW x,
               \/ mem'[p] = SetRoutes(p, routes)
               \/ mem'[p] = [SetRoutes(p, routes) EXCEPT !.routes = x]
               \/ mem'[p] = [SetRoutes(p, routes) EXCEPT !.matching = x]
        PROVE  Nics(p)' = Nics(p)
    <3> PICK m : m = SetRoutes(p, routes)
      OBVIOUS
    <3>1. m.conf.nics = Nics(p)
      BY <1>1, SetFields
    <3>2. [m EXCEPT !.matching = x].conf = m.conf /\ [m EXCEPT !.routes = x].conf = m.conf
      BY <1>1 DEF SetRoutes, Memory
    <3> QED
      BY <2>2, <3>1, <3>2 DEF Nics
  <2>3. ASSUME NEW r, AddRoute(p, r) \/ AddRouteFails(p, r) PROVE Nics(p)' = Nics(p)
    <3>1. \E routes, x : \/ mem'[p] = SetRoutes(p, routes)
                         \/ mem'[p] = [SetRoutes(p, routes) EXCEPT !.routes = x]
      BY <1>1, <2>3 DEF AddRoute, AddRouteFails
    <3> QED
      BY <2>2, <3>1
  <2>4. ASSUME NEW r, DelRoute(p, r) \/ DelRouteFails(p, r) PROVE Nics(p)' = Nics(p)
    <3>1. \E routes, x : mem'[p] = [SetRoutes(p, routes) EXCEPT !.matching = x]
      BY <1>1, <2>4 DEF DelRoute, DelRouteFails
    <3> QED
      BY <2>2, <3>1
  <2>5. ASSUME NEW r, TakePattern(p, r) PROVE Nics(p)' = Nics(p)
    <3>1. \E x, y : mem'[p] = [mem[p] EXCEPT !.routes = x, !.matching = y]
      BY <1>1, <2>5 DEF TakePattern
    <3> QED
      BY <1>1, <3>1 DEF Nics, Memory, Conf
  <2> QED
    BY <2>1, <2>3, <2>4, <2>5
<1>4. Remains(c, {})
  <2>1. Untouched(c, {})
    BY <1>2 DEF Untouched
  <2> QED
    BY <2>1, UntouchedRemains
<1>5. Due(p)' = Nics(p)
  BY <1>2, <1>3, CommandDueNow DEF Creating
<1>6. pc'[p] \in Locked \ {"joinctr", "delhost"}
  BY <1>2 DEF Locked, CommandStep
<1> QED
  BY <1>2, <1>4, <1>5, <1>6, CommandAgain DEF Creating

\* What was in memory is in the file.
LEMMA FlushTidy ==
  ASSUME Known, NEW c \in Container, NEW p \in Command, CommandNext(p), Own(c), Tidy(c),
         Serves(p, c), Flush(p)
  PROVE  Tidy(c)'
<1> SUFFICES ASSUME ~ disturbed'[c] PROVE pc'[p] \notin Locked /\ Accounted(c, file[c].nics, {})'
  BY CommandTidy
<1>1. /\ p \in Actor /\ NetTypeOK /\ \A l : Goto(p, l) => pc'[p] = l
      /\ file \in [Container -> Conf] /\ mem[p] \in Memory
  BY KnownFacts, CommandCid, Reads DEF NetTypeOK, NetContainersTypeOK
<1>2. pc[p] = "flush" /\ pc'[p] = "done" /\ UNCHANGED link
  BY <1>1 DEF Flush, kernelVars
<1>3. /\ Cid(p) = c /\ Accounted(c, Nics(p), {}) /\ Nics(p) \in SUBSET Nic /\ inc'[c] = inc[c]
      /\ Served("flush", mem[p], Req(p), err[p], file[c])
  BY <1>2, CommandAt DEF Creating
<1>4. file'[c] = mem[p].conf
  BY <1>1, <1>3 DEF Flush, Served, Writes
<1>5. PICK nics : nics = Nics(p)
  OBVIOUS
<1>6. Accounted(c, nics, {})'
  <2>1. Untouched(c, {})
    BY <1>2 DEF Untouched
  <2> QED
    BY <1>3, <1>5, <2>1, UntouchedRemains, AccountedStays
<1>7. \A n : n = file'[c].nics => Accounted(c, n, {})'
  BY <1>4, <1>5, <1>6 DEF Nics
<1> QED
  BY <1>2, <1>7 DEF Locked

\* The load under the lock: nobody else works on the container.
LEMMA LoadTidy ==
  ASSUME Known, NEW c \in Container, NEW p \in Command, Own(c), Tidy(c), Cid(p) = c,
         LockAndLoad(p)
  PROVE  Tidy(c)'
<1> SUFFICES ASSUME ~ disturbed'[c] PROVE Tidy(c)'
  BY DEF Tidy
<1>1. /\ p \in Actor /\ p # c /\ p \notin Container /\ StepOf(p) /\ NetTypeOK
      /\ \A l : Goto(p, l) => pc'[p] = l
      /\ \A m : Remember(p, m) => mem'[p] = m
      /\ file[c].nics \in SUBSET Nic /\ c \in Actor
  BY KnownFacts, CommandCid, Reads, ActorTypes
  DEF StepOf, NetTypeOK, NetContainersTypeOK, Conf, CommandNext
<1>2. /\ pc[p] = "lock" /\ pc'[p] \in {"routes", "begin"} /\ flock[c] = NoOne
      /\ UNCHANGED <<link, file, st, inc, netns, job>>
      /\ mem'[p] = [NoMemory EXCEPT !.conf = file[c], !.routes = Req(p).routes]
  BY <1>1 DEF LockAndLoad, CanLock, kernelVars, ctrVars
<1>3. Cid(p)' = c /\ pc'[c] = pc[c] /\ mem'[c] = mem[c] /\ ~ disturbed[c]
  BY <1>1, <1>2, MarksStay, OthersStay DEF Cid, Kept
<1>4. NetnsFits(c) /\ Current(c) /\ StopMem(c) /\ pc[c] = "idle"
  <2>1. Apart(c)
    BY <1>3, TidyFacts
  <2> QED
    BY <1>2, <1>3, <2>1, TidyFacts DEF Apart, Busy
<1>5. NetnsFits(c)' /\ Current(c)' /\ StopMem(c)'
  BY <1>2, <1>3, <1>4 DEF NetnsFits, Current, StopMem
<1>6. \A x \in Actor : ~ Serves(x, c)
  <2>1. ASSUME NEW x \in Actor, Serves(x, c) PROVE FALSE
    <3>1. x \notin Container
      BY <1>4, <2>1 DEF Serves, Cid
    <3>2. x \in Command /\ pc[x] \in Locked /\ Cid(x) = c
      BY <2>1, <3>1 DEF Serves, Actor
    <3>3. flock[c] = x
      BY <3>2, KnownFacts DEF CommandInv
    <3> QED
      BY <1>2, <3>2, <3>3, NetActorsAssumption DEF Actor
  <2> QED
    BY <2>1
<1>7. PICK nics : nics = file[c].nics
  OBVIOUS
<1>8. Accounted(c, nics, {})'
  <2>1. Untouched(c, {}) /\ Accounted(c, nics, {})
    BY <1>2, <1>3, <1>6, <1>7 DEF Untouched, Tidy
  <2> QED
    BY <1>1, <1>2, <1>7, <2>1, UntouchedRemains, AccountedStays
<1>9. Held(p)' = nics
  <2>1. Nics(p)' = nics
    BY <1>2, <1>7 DEF NoMemory, Nics
  <2> QED
    BY <1>2, <2>1, CommandDueNow DEF Creating, Held
<1>10. Orderly(p)'
  BY <1>1, <1>2, <1>3, <1>8, <1>9, OrderlyNow
<1>11. Serves(p, c)'
  BY <1>1, <1>2, <1>3 DEF Serves, Locked, CommandStep
<1> QED
  BY <1>1, <1>5, <1>6, <1>10, <1>11, WorkerTidy

\* A command that begins does not work on the container yet.
LEMMA BeginTidy ==
  ASSUME Known, NEW c \in Container, NEW p \in Command, Own(c), Tidy(c),
         NEW r \in Requests, Begin(p, r)
  PROVE  Tidy(c)'
<1>1. p \in Actor /\ p # c /\ p \notin Container /\ StepOf(p) /\ NetTypeOK /\ c \in Actor
  BY KnownFacts, ActorTypes DEF StepOf
<1>2. /\ pc[p] = "idle" /\ pc'[p] = "lock"
      /\ UNCHANGED <<link, file, st, inc, netns, mem, disturbed>>
  BY <1>1, Reads DEF Begin, kernelVars, ctrVars, lockVars, noteVars
<1> SUFFICES ASSUME ~ disturbed[c] PROVE Tidy(c)'
  BY <1>2 DEF Tidy
<1>3. pc'[c] = pc[c] /\ Untouched(c, {})
  BY <1>1, <1>2, OthersStay DEF Kept, Untouched
<1>4. ASSUME NEW x \in Actor PROVE SameWork(x) \/ (~ Serves(x, c) /\ ~ Serves(x, c)')
  <2>1. CASE x = p
    BY <1>1, <1>2, <2>1 DEF Serves, Locked
  <2>2. CASE x # p
    <3>1. Kept(x) /\ NsOf(x)' = NsOf(x)
      BY <1>1, <2>2, OthersStay, NsStays
    <3> QED
      BY <3>1, ActorTypes DEF SameWork, Kept, Cid, Actor
  <2> QED
    BY <2>1, <2>2
<1> QED
  BY <1>2, <1>3, <1>4, TidyStays

\* Every step of a command on c.
LEMMA CommandsTidy ==
  ASSUME Known, NEW c \in Container, NEW p \in Command, CommandNext(p), Own(c), Tidy(c),
         Cid(p) = c
  PROVE  Tidy(c)'
<1>1. p \in Actor /\ StepOf(p) /\ p \notin Container
  BY ActorTypes DEF StepOf
<1>2. pc[p] \in Locked => Serves(p, c)
  BY <1>1 DEF Serves
<1>3. CASE LockAndLoad(p)
  BY <1>3, LoadTidy
<1>4. CASE DriverStep(p)
  BY <1>1, <1>4, DriverTidy
<1>5. CASE AddNic(p) \/ DelNic(p) \/ UpdateNic(p)
  <2>1. pc[p] \in Locked
    BY <1>5 DEF AddNic, DelNic, UpdateNic, Locked, CommandStep
  <2> QED
    BY <1>2, <1>5, <2>1, NicCommandTidy
<1>6. CASE ConfigureHost(p) \/ ConfigureHostFails(p)
  <2>1. pc[p] \in Locked
    BY <1>6 DEF ConfigureHost, ConfigureHostFails, Locked, CommandStep
  <2> QED
    BY <1>2, <1>6, <2>1, ConfigureHostTidy
<1>7. CASE ConfigureCtr(p) \/ ConfigureCtrFails(p)
  <2>1. pc[p] \in Locked
    BY <1>7 DEF ConfigureCtr, ConfigureCtrFails, Locked, CommandStep
  <2> QED
    BY <1>2, <1>7, <2>1, ConfigureCtrTidy
<1>8. CASE \/ \E r \in mem[p].routes : \/ RefuseRoute(p, r) \/ AddRoute(p, r)
                                       \/ AddRouteFails(p, r) \/ TakePattern(p, r)
           \/ \E r \in mem[p].matching : DelRoute(p, r) \/ DelRouteFails(p, r)
           \/ RoutesDone(p)
  <2>1. pc[p] \in Locked
    BY <1>8 DEF RefuseRoute, AddRoute, AddRouteFails, TakePattern, DelRoute, DelRouteFails,
       RoutesDone, Locked, CommandStep
  <2> QED
    BY <1>2, <1>8, <2>1, RoutesTidy
<1>9. CASE Flush(p)
  <2>1. pc[p] \in Locked
    BY <1>9 DEF Flush, Locked, CommandStep
  <2> QED
    BY <1>2, <1>9, <2>1, FlushTidy
<1> QED
  BY <1>3, <1>4, <1>5, <1>6, <1>7, <1>8, <1>9 DEF CommandNext

-----------------------------------------------------------------------------
(***************************************************************************)
(* The hooks, and the life of a container                                  *)
(***************************************************************************)
LEMMA HookAt ==
  ASSUME Known, NEW c \in Container, StepOf(c), Own(c), Tidy(c), ~ disturbed'[c]
  PROVE  /\ ~ disturbed[c] /\ c \in Actor /\ c \notin Command /\ Cid(c) = c /\ Cid(c)' = c
         /\ NetTypeOK /\ inc[c] \in Nat /\ NetnsFits(c) /\ Current(c) /\ StopMem(c)
         /\ Serves(c, c) <=> pc[c] # "idle"
         /\ Serves(c, c)' <=> pc'[c] # "idle"
         /\ pc[c] # "idle" => \A x \in Actor : Serves(x, c) => x = c
         /\ pc[c] \notin {"idle", "joinctr"} => Accounted(c, Held(c), {})
         /\ Held(c) \in SUBSET Nic /\ file[c].nics \in SUBSET Nic
         /\ netns[c] = <<>> => \A l \in Link, i \in Nat : link[l].ns # <<c, i>>
         /\ \A l : Goto(c, l) => pc'[c] = l
         /\ \A m : Remember(c, m) => mem'[c] = m
<1>1. c \in Actor /\ c \notin Command /\ Cid(c) = c /\ Cid(c)' = c /\ NetTypeOK
  BY ActorTypes, KnownFacts DEF Cid
<1>2. ~ disturbed[c]
  BY <1>1, MarksStay
<1>3. /\ Serves(c, c) <=> pc[c] # "idle"
      /\ Serves(c, c)' <=> pc'[c] # "idle"
  BY <1>1 DEF Serves
<1>4. /\ inc[c] \in Nat /\ NetnsFits(c) /\ Current(c) /\ StopMem(c) /\ Apart(c)
      /\ netns[c] = <<>> => \A l \in Link, i \in Nat : link[l].ns # <<c, i>>
      /\ Serves(c, c) => Accounted(c, Held(c), Carried(c))
  BY <1>1, <1>2, TidyFacts
<1>5. pc[c] \notin {"idle", "joinctr"} => Accounted(c, Held(c), {})
  <2>1. pc[c] # "joinctr" => Carried(c) = {}
    BY DEF Carried
  <2> QED
    BY <1>3, <1>4, <2>1
<1>6. Held(c) \in SUBSET Nic /\ file[c].nics \in SUBSET Nic
  BY <1>1, HeldType DEF NetTypeOK, NetContainersTypeOK, Conf
<1> QED
  BY <1>1, <1>2, <1>3, <1>4, <1>5, <1>6, OnlyWorker, Reads

\* A step that changes nothing in the container.
LEMMA HookTidy ==
  ASSUME Known, NEW c \in Container, StepOf(c), Own(c), Tidy(c),
         pc[c] \notin {"idle", "joinctr"}, pc'[c] \notin {"joinctr", "delhost"},
         UNCHANGED <<link, inc, file>>,
         ~ disturbed'[c] =>
           /\ NetnsFits(c)' /\ StopMem(c)'
           /\ \/ \A l \in Link, i \in Nat : link[l].ns # <<c, i>>
              \/ /\ netns'[c] = netns[c]
                 /\ pc'[c] # "idle" => Held(c) \subseteq Held(c)'
                 /\ pc'[c] = "idle" => Held(c) \subseteq file[c].nics
  PROVE  Tidy(c)'
<1> SUFFICES ASSUME ~ disturbed'[c] PROVE Tidy(c)'
  BY DEF Tidy
<1>1. /\ c \in Actor /\ Cid(c)' = c /\ Current(c) /\ Accounted(c, Held(c), {})
      /\ Held(c) \in SUBSET Nic /\ inc[c] \in Nat /\ inc'[c] = inc[c] /\ file'[c] = file[c]
      /\ Serves(c, c)' <=> pc'[c] # "idle"
      /\ \A x \in Actor : Serves(x, c) => x = c
  BY HookAt
<1>2. NetnsFits(c)' /\ StopMem(c)'
  OBVIOUS
<1>3. CASE \A l \in Link, i \in Nat : link[l].ns # <<c, i>>
  <2>1. Current(c)' /\ \A l \in Link : link'[l].ns # <<c, inc'[c]>>
    BY <1>1, <1>3 DEF Current
  <2>2. Accounted(c, {}, {})' /\ Accounted(c, file[c].nics, {})'
    BY <2>1 DEF Accounted, LinksIn
  <2>3. Serves(c, c)' => Orderly(c)'
    BY <1>1, <2>2, OrderlyNow
  <2> QED
    BY <1>1, <1>2, <2>1, <2>2, <2>3, WorkerTidy
<1>4. CASE /\ netns'[c] = netns[c]
           /\ pc'[c] # "idle" => Held(c) \subseteq Held(c)'
           /\ pc'[c] = "idle" => Held(c) \subseteq file[c].nics
  <2>1. Current(c)'
    BY <1>1, <1>4 DEF Current
  <2>2. PICK held : held = Held(c)
    OBVIOUS
  <2>3. Accounted(c, held, {})'
    <3>1. Untouched(c, {})
      BY DEF Untouched
    <3> QED
      BY <1>1, <2>2, <3>1, UntouchedRemains, AccountedStays
  <2>4. Serves(c, c)' => Orderly(c)'
    BY <1>1, <1>4, <2>2, <2>3, OrderlyNow
  <2>5. ~ Serves(c, c)' => Accounted(c, file[c].nics, {})'
    <3>1. ASSUME ~ Serves(c, c)' PROVE held \subseteq file'[c].nics
      BY <1>1, <1>4, <2>2, <3>1
    <3> QED
      BY <2>3, <3>1 DEF Accounted
  <2> QED
    BY <1>1, <1>2, <2>1, <2>4, <2>5, WorkerTidy
<1> QED
  BY <1>3, <1>4

\* The namespace over the file it is bound to.
LEMMA OnTop == ASSUME NEW i \in Nat PROVE <<i>> \o <<0>> = <<i, 0>>
<1> DEFINE s == <<i>> \o <<0>>
           t == <<i, 0>>
<1>1. s \in Seq(Nat) /\ Len(s) = 2 
  OBVIOUS
<1>2. s[1] = i
  OBVIOUS
<1>3. s[2] = 0
  OBVIOUS
<1>4. s = [k \in 1..2 |-> s[k]]
  <2> HIDE DEF s
  <2>1. s = [k \in 1..Len(s) |-> s[k]]
    BY <1>1
  <2> QED
    BY <1>1, <2>1
<1>5. t = [k \in 1..2 |-> t[k]]
  OBVIOUS
<1>6. t \in Seq(Nat) /\ Len(t) = 2 /\ t[1] = i /\ t[2] = 0
  OBVIOUS
<1>7. \A k \in 1..2 : s[k] = t[k]
  BY <1>2, <1>3, <1>6
<1> HIDE DEF s, t
<1>8. s = t
  BY <1>4, <1>5, <1>7, Zenon
<1> QED
  BY <1>8 DEF s, t

\* The beginning of a hook: the configuration, and the netns file.
LEMMA HookBeginsTidy ==
  ASSUME Known, NEW c \in Container, StepOf(c), Own(c), Tidy(c),
         ReadConfig(c) \/ MountNetns(c) \/ OpenNetns(c)
  PROVE  Tidy(c)'
<1> SUFFICES ASSUME ~ disturbed'[c] PROVE Tidy(c)'
  BY DEF Tidy
<1>1. /\ c \in Actor /\ c \notin Command /\ NetTypeOK /\ inc[c] \in Nat
      /\ NetnsFits(c) /\ StopMem(c)
      /\ netns[c] = <<>> => \A l \in Link, i \in Nat : link[l].ns # <<c, i>>
      /\ \A l : Goto(c, l) => pc'[c] = l
      /\ \A m : Remember(c, m) => mem'[c] = m
      /\ netns \in [Container -> Seq(Nat)]
  BY HookAt DEF NetTypeOK, KernelTypeOK
<1>2. /\ pc[c] \in {"read", "mount", "open"} /\ UNCHANGED <<link, inc, file, st>>
      /\ pc'[c] \notin {"joinctr", "delhost", "idle"}
  BY <1>1 DEF ReadConfig, MountNetns, OpenNetns, kernelVars, ctrVars, lockVars
<1>3. /\ st[c] \in {"creating", "stopping"} /\ (st[c] = "creating" => inc[c] > 0)
      /\ pc[c] = "mount" => st[c] = "creating"
      /\ pc[c] = "open" => st[c] = "stopping"
      /\ st'[c] = st[c] /\ inc'[c] = inc[c] /\ file'[c] = file[c]
  <2>1. st[c] \in {"stopped", "creating", "running", "stopping"}
    BY <1>1 DEF NetTypeOK, NetContainersTypeOK
  <2> QED
    BY <1>2, <2>1, KnownFacts DEF HookStages
<1> SUFFICES /\ NetnsFits(c)' /\ StopMem(c)'
             /\ \/ \A l \in Link, i \in Nat : link[l].ns # <<c, i>>
                \/ netns'[c] = netns[c] /\ Held(c) \subseteq Held(c)'
  BY <1>2, HookTidy
<1>4. CASE ReadConfig(c)
  <2>1. /\ pc[c] = "read" /\ netns'[c] = netns[c] /\ mem'[c].nics = file[c].nics
        /\ pc'[c] = IF st[c] = "creating" THEN "mount" ELSE "open"
    <3>1. mem'[c] = [NoMemory EXCEPT !.conf = file[c], !.nics = file[c].nics,
                                     !.routes = file[c].routes]
      BY <1>1, <1>4 DEF ReadConfig
    <3> QED
      BY <1>1, <1>4, <3>1 DEF ReadConfig, ctrVars, NoMemory
  <2>2. NetnsFits(c)' /\ StopMem(c)'
    BY <1>1, <1>3, <2>1 DEF NetnsFits, StopMem
  <2>3. Held(c)' = file[c].nics /\ Held(c) = file[c].nics
    BY <1>1, <1>3, <2>1 DEF Held
  <2> QED
    BY <2>1, <2>2, <2>3
<1>5. CASE MountNetns(c)
  <2>1. pc[c] = "mount" /\ pc'[c] = "each" /\ netns[c] = <<>> /\ st[c] = "creating"
    BY <1>1, <1>3, <1>5 DEF MountNetns, NetnsFits
  <2>2. netns'[c] = <<inc[c], 0>>
    <3>1. netns'[c] = <<inc[c]>> \o <<0>>
      BY <1>1, <1>5, <2>1 DEF MountNetns, FileIn
    <3> QED
      BY <1>1, <3>1, OnTop
  <2>3. NetnsFits(c)' /\ StopMem(c)'
    BY <1>3, <2>1, <2>2 DEF NetnsFits, StopMem
  <2> QED
    BY <1>1, <2>1, <2>3
<1>6. CASE OpenNetns(c)
  <2>1. /\ pc[c] = "open" /\ st[c] = "stopping" /\ netns'[c] = netns[c] /\ mem'[c] = mem[c]
        /\ pc'[c] = IF netns[c] = <<>> THEN "done" ELSE "each"
    BY <1>1, <1>3, <1>6 DEF OpenNetns, ctrVars
  <2>2. NetnsFits(c)' /\ StopMem(c)'
    BY <1>1, <1>3, <2>1 DEF NetnsFits, StopMem
  <2>3. CASE netns[c] = <<>>
    BY <1>1, <2>2, <2>3
  <2>4. CASE netns[c] # <<>>
    <3>1. Held(c)' = mem[c].nics \cup {} /\ Held(c) = mem[c].nics \cup {}
      BY <1>1, <1>3, <2>1, <2>4 DEF Held
    <3> QED
      BY <2>1, <2>2, <3>1
  <2> QED
    BY <2>3, <2>4
<1> QED
  BY <1>4, <1>5, <1>6

\* The nics one by one.
LEMMA HookNicsTidy ==
  ASSUME Known, NEW c \in Container, StepOf(c), Own(c), Tidy(c),
         (\E n \in mem[c].nics : HookNic(c, n)) \/ HookNicsDone(c)
  PROVE  Tidy(c)'
<1> SUFFICES ASSUME ~ disturbed'[c] PROVE Tidy(c)'
  BY DEF Tidy
<1>1. /\ c \in Actor /\ c \notin Command /\ NetTypeOK /\ inc[c] \in Nat
      /\ NetnsFits(c) /\ StopMem(c)
      /\ \A l : Goto(c, l) => pc'[c] = l
      /\ \A m : Remember(c, m) => mem'[c] = m
      /\ mem[c] \in Memory
  BY HookAt, ThisNicType
<1>2. pc[c] = "each" /\ UNCHANGED <<link, inc, file, st, netns>>
  BY DEF HookNic, HookNicsDone, kernelVars, ctrVars, lockVars
<1>3. /\ st[c] \in {"creating", "stopping"}
      /\ st'[c] = st[c] /\ inc'[c] = inc[c] /\ file'[c] = file[c] /\ netns'[c] = netns[c]
  <2>1. st[c] \in {"stopped", "creating", "running", "stopping"}
    BY <1>1 DEF NetTypeOK, NetContainersTypeOK
  <2> QED
    BY <1>2, <2>1, KnownFacts DEF HookStages
<1>4. ASSUME pc'[c] \in {"create", "delete", "routes", "unmount"}, NetnsFits(c)', StopMem(c)',
             Held(c) \subseteq Held(c)'
      PROVE  Tidy(c)'
  BY <1>2, <1>4, HookTidy
<1>5. ASSUME NEW n \in mem[c].nics, HookNic(c, n) PROVE Tidy(c)'
  <2>1. /\ pc'[c] = IF st[c] = "creating" THEN "create" ELSE "delete"
        /\ mem'[c].nics = mem[c].nics \ {n} /\ mem'[c].nic = n
    <3>1. mem'[c] = [mem[c] EXCEPT !.nics = @ \ {n}, !.nic = n, !.lnk = NoOne]
      BY <1>1, <1>5 DEF HookNic
    <3> QED
      BY <1>1, <1>5, <3>1 DEF HookNic, Memory
  <2>2. NetnsFits(c)' /\ StopMem(c)'
    BY <1>1, <1>2, <1>3, <2>1 DEF NetnsFits, StopMem, ThisNic
  <2>3. CASE st[c] = "creating"
    BY <1>1, <1>3, <1>4, <2>1, <2>2, <2>3 DEF Held
  <2>4. CASE st[c] # "creating"
    <3>1. /\ Held(c) = mem[c].nics \cup {}
          /\ Held(c)' = mem'[c].nics \cup {mem'[c].nic}
      BY <1>1, <1>2, <1>3, <2>1, <2>4 DEF Held, ThisNic
    <3> QED
      BY <1>4, <2>1, <2>2, <2>4, <3>1
  <2> QED
    BY <2>3, <2>4
<1>6. CASE HookNicsDone(c)
  <2>1. /\ pc'[c] = IF st[c] = "creating" THEN "routes" ELSE "unmount"
        /\ mem[c].nics = {} /\ mem'[c] = mem[c]
    BY <1>1, <1>6 DEF HookNicsDone
  <2>2. NetnsFits(c)' /\ StopMem(c)'
    BY <1>1, <1>2, <1>3, <2>1 DEF NetnsFits, StopMem
  <2>3. Held(c) \subseteq Held(c)'
    <3>1. CASE st[c] = "creating"
      BY <1>1, <1>3, <3>1 DEF Held
    <3>2. CASE st[c] # "creating"
      <4>1. Held(c) = mem[c].nics \cup {}
        BY <1>1, <1>2, <3>2 DEF Held
      <4> QED
        BY <2>1, <4>1
    <3> QED
      BY <3>1, <3>2
  <2> QED
    BY <1>4, <2>1, <2>2, <2>3
<1> QED
  BY <1>5, <1>6

\* A start hook after the nics, or when it fails.
LEMMA StartGoesOnTidy ==
  ASSUME Known, NEW c \in Container, StepOf(c), Own(c), Tidy(c),
         \/ StartFails(c) \/ HookRoutesDone(c) \/ AbortStart(c)
         \/ \E r \in mem[c].routes : HookRoute(c, r) \/ HookRouteFails(c, r)
  PROVE  Tidy(c)'
<1> SUFFICES ASSUME ~ disturbed'[c] PROVE Tidy(c)'
  BY DEF Tidy
<1>1. /\ c \in Actor /\ c \notin Command /\ NetTypeOK /\ inc[c] \in Nat
      /\ NetnsFits(c)
      /\ netns[c] = <<>> => \A l \in Link, i \in Nat : link[l].ns # <<c, i>>
      /\ \A l : Goto(c, l) => pc'[c] = l
      /\ netns \in [Container -> Seq(Nat)] /\ st \in [Container -> {"stopped", "creating", "running", "stopping"}]
  BY HookAt DEF NetTypeOK, KernelTypeOK, NetContainersTypeOK
<1>2. pc[c] \in {"mount", "routes", "abort"} /\ UNCHANGED <<link, inc, file>>
  BY DEF StartFails, HookRoutesDone, AbortStart, HookRoute, HookRouteFails, kernelVars, ctrVars, lockVars
<1>3. st[c] = "creating" /\ inc'[c] = inc[c] /\ file'[c] = file[c]
  BY <1>2, KnownFacts DEF HookStages
<1>4. Held(c) = file[c].nics
  BY <1>1, <1>3 DEF Held
<1>5. CASE AbortStart(c)
  <2>1. /\ pc[c] = "abort" /\ pc'[c] = "read" /\ st'[c] = "stopping" /\ netns'[c] = netns[c]
    <3>1. PICK poststop \in BOOLEAN :
            Goto(c, IF poststop THEN "read" ELSE "done") /\ Disturb(c, ~ poststop)
      BY <1>5 DEF AbortStart
    <3>2. poststop
      BY <1>1, <3>1 DEF Disturb, NetTypeOK, NetContainersTypeOK
    <3> QED
      BY <1>1, <1>5, <3>1, <3>2 DEF AbortStart
  <2>2. NetnsFits(c)' /\ StopMem(c)'
    BY <1>1, <1>3, <2>1 DEF NetnsFits, StopMem
  <2>3. Held(c) \subseteq Held(c)'
    BY <1>1, <1>3, <1>4, <2>1 DEF Held
  <2> QED
    BY <1>2, <2>1, <2>2, <2>3, HookTidy
<1>6. CASE ~ AbortStart(c)
  <2>1. /\ pc[c] \in {"mount", "routes"} /\ pc'[c] \in {"abort", "done", "routes"} /\ st'[c] = st[c]
        /\ pc'[c] \in {"done", "routes"} => pc[c] = "routes"
        /\ pc[c] = "routes" => netns'[c] = netns[c]
        /\ pc[c] = "mount" => netns'[c] = netns[c] \/ netns'[c] = FileIn(netns[c])
    BY <1>1, <1>2, <1>6 DEF StartFails, HookRoutesDone, HookRoute, HookRouteFails, ctrVars
  <2>2. pc[c] = "mount" => netns[c] = <<>> /\ netns'[c] \in {<<>>, <<0>>}
    BY <1>1, <1>3, <2>1 DEF NetnsFits, FileIn
  <2>3. NetnsFits(c)' /\ StopMem(c)'
    BY <1>1, <1>3, <2>1, <2>2 DEF NetnsFits, StopMem
  <2>4. Held(c) \subseteq Held(c)'
    BY <1>1, <1>3, <1>4, <2>1 DEF Held
  <2> QED
    BY <1>1, <1>2, <2>1, <2>2, <2>3, <2>4, HookTidy
<1> QED
  BY <1>5, <1>6

\* The end of a hook.
LEMMA HookEndsTidy ==
  ASSUME Known, NEW c \in Container, StepOf(c), Own(c), Tidy(c), UnmountNetns(c) \/ HookReturns(c)
  PROVE  Tidy(c)'
<1> SUFFICES ASSUME ~ disturbed'[c] PROVE Tidy(c)'
  BY DEF Tidy
<1>1. /\ c \in Actor /\ c \notin Command /\ NetTypeOK /\ inc[c] \in Nat
      /\ NetnsFits(c) /\ Current(c)
      /\ netns[c] = <<>> => \A l \in Link, i \in Nat : link[l].ns # <<c, i>>
      /\ \A l : Goto(c, l) => pc'[c] = l
      /\ netns \in [Container -> Seq(Nat)]
      /\ st \in [Container -> {"stopped", "creating", "running", "stopping"}]
  BY HookAt DEF NetTypeOK, KernelTypeOK, NetContainersTypeOK
<1>2. /\ pc[c] \in {"unmount", "done"} /\ UNCHANGED <<link, inc, file>>
      /\ pc'[c] \in {"done", "idle"} /\ inc'[c] = inc[c] /\ file'[c] = file[c]
  BY <1>1 DEF UnmountNetns, HookReturns, kernelVars, lockVars, ctrVars
<1>3. st[c] \in {"creating", "stopping"} /\ (pc[c] = "unmount" => st[c] = "stopping")
  BY <1>1, <1>2, KnownFacts DEF HookStages
<1>4. CASE UnmountNetns(c)
  <2>1. pc[c] = "unmount" /\ pc'[c] = "done" /\ st[c] = "stopping" /\ st'[c] = st[c]
    BY <1>1, <1>3, <1>4 DEF UnmountNetns
  <2>2. Held(c) = {} \cup {}
    BY <1>1, <2>1 DEF Held
  <2>3. \A l \in Link, i \in Nat : link[l].ns # <<c, i>>
    <3>1. PICK held : held = Held(c)
      OBVIOUS
    <3>2. held = {} /\ Accounted(c, held, {})
      BY <2>1, <2>2, <3>1, HookAt
    <3>3. Accounted(c, {}, {})
      BY <3>2
    <3> QED
      BY <1>1, <3>3 DEF Accounted, LinksIn, Current
  <2>4. netns'[c] = <<>>
    <3>1. netns[c] \in {<<0>>, <<inc[c], 0>>} /\ inc[c] > 0 /\ netns'[c] = Unmounted(netns[c])
      BY <1>1, <1>4, <2>1 DEF NetnsFits, UnmountNetns
    <3>2. CASE netns[c] = <<0>>
      BY <3>1, <3>2 DEF Unmounted
    <3>3. CASE netns[c] = <<inc[c], 0>>
      <4>1. Head(netns[c]) = inc[c] /\ Tail(netns[c]) = <<0>>
        BY <3>3
      <4> QED
        BY <3>1, <4>1 DEF Unmounted
    <3> QED
      BY <3>1, <3>2, <3>3
  <2>5. NetnsFits(c)' /\ StopMem(c)'
    BY <1>1, <1>2, <2>1, <2>4 DEF NetnsFits, StopMem
  <2> QED
    BY <1>2, <2>1, <2>3, <2>5, HookTidy
<1>5. CASE HookReturns(c)
  <2>1. /\ pc[c] = "done" /\ pc'[c] = "idle" /\ netns'[c] = netns[c]
        /\ st'[c] = IF st[c] = "creating" THEN "running" ELSE "stopped"
    BY <1>1, <1>5 DEF HookReturns
  <2>2. NetnsFits(c)' /\ StopMem(c)'
    BY <1>1, <1>2, <1>3, <2>1 DEF NetnsFits, StopMem
  <2>3. CASE st[c] = "creating"
    <3>1. Held(c) = file[c].nics
      BY <1>1, <2>3 DEF Held
    <3> QED
      BY <1>2, <2>1, <2>2, <3>1, HookTidy
  <2>4. CASE st[c] = "stopping"
    <3>1. netns[c] = <<>>
      BY <1>1, <2>1, <2>4 DEF NetnsFits
    <3> QED
      BY <1>1, <1>2, <2>1, <2>2, <3>1, HookTidy
  <2> QED
    BY <1>3, <2>3, <2>4
<1> QED
  BY <1>4, <1>5

\* A container is started or stopped while no command works on it.
LEMMA LifeTidy ==
  ASSUME Known, NEW c \in Container, StepOf(c), Own(c), Tidy(c),
         StartContainer(c) \/ StopContainer(c)
  PROVE  Tidy(c)'
<1> SUFFICES ASSUME ~ disturbed'[c] PROVE Tidy(c)'
  BY DEF Tidy
<1>1. /\ c \in Actor /\ c \notin Command /\ NetTypeOK /\ inc[c] \in Nat /\ Cid(c)' = c
      /\ NetnsFits(c) /\ Current(c) /\ ~ disturbed[c]
      /\ netns[c] = <<>> => \A l \in Link, i \in Nat : link[l].ns # <<c, i>>
      /\ \A l : Goto(c, l) => pc'[c] = l
      /\ Serves(c, c)' <=> pc'[c] # "idle"
      /\ file[c].nics \in SUBSET Nic
      /\ st \in [Container -> {"stopped", "creating", "running", "stopping"}]
      /\ inc \in [Container -> Nat]
  BY HookAt DEF NetTypeOK, NetContainersTypeOK
<1>2. /\ pc[c] = "idle" /\ pc'[c] = "read" /\ UNCHANGED <<link, file, netns>> /\ ~ BusyOn(c)
  <2>1. Disturb(c, BusyOn(c)) /\ pc'[c] = "read" /\ UNCHANGED <<link, file, netns>>
    BY <1>1 DEF StartContainer, StopContainer, kernelVars, lockVars
  <2>2. ~ BusyOn(c)
    BY <1>1, <2>1 DEF Disturb, NetTypeOK, NetContainersTypeOK
  <2> QED
    BY <2>1, <2>2, KnownFacts DEF StartContainer, StopContainer, HookStages
<1>3. \A x \in Actor : ~ Serves(x, c)
  BY <1>2 DEF Serves, BusyOn, Busy, Locked, Cid, Actor
<1>4. CASE StartContainer(c)
  <2>1. st[c] = "stopped" /\ st'[c] = "creating" /\ inc'[c] = inc[c] + 1 /\ netns'[c] = <<>>
    BY <1>1, <1>2, <1>4 DEF StartContainer, NetnsFits
  <2>2. NetnsFits(c)' /\ StopMem(c)'
    BY <1>1, <1>2, <2>1 DEF NetnsFits, StopMem
  <2>3. \A l \in Link, i \in Nat : link'[l].ns # <<c, i>>
    BY <1>1, <1>2, <2>1
  <2>4. Current(c)' /\ Accounted(c, {}, {})'
    BY <1>1, <2>1, <2>3 DEF Current, Accounted, LinksIn
  <2>5. Orderly(c)'
    BY <1>1, <1>2, <2>4, OrderlyNow
  <2> QED
    BY <1>1, <1>2, <1>3, <2>2, <2>4, <2>5, WorkerTidy
<1>5. CASE StopContainer(c)
  <2>1. st[c] = "running" /\ st'[c] = "stopping" /\ inc'[c] = inc[c] /\ netns'[c] = netns[c]
    BY <1>1, <1>2, <1>5 DEF StopContainer
  <2>2. NetnsFits(c)' /\ StopMem(c)' /\ Current(c)'
    BY <1>1, <1>2, <2>1 DEF NetnsFits, StopMem, Current
  <2>3. PICK nics : nics = file[c].nics
    OBVIOUS
  <2>4. Accounted(c, nics, {})'
    <3>1. Accounted(c, nics, {}) /\ Untouched(c, {})
      BY <1>1, <1>2, <1>3, <2>3 DEF Tidy, Untouched
    <3> QED
      BY <1>1, <2>1, <2>3, <3>1, UntouchedRemains, AccountedStays
  <2>5. Held(c)' = nics
    BY <1>1, <1>2, <2>1, <2>3 DEF Held
  <2>6. Orderly(c)'
    BY <1>1, <1>2, <2>4, <2>5, OrderlyNow
  <2> QED
    BY <1>1, <1>2, <1>3, <2>2, <2>6, WorkerTidy
<1> QED
  BY <1>4, <1>5

\* Every step of a hook.
LEMMA HooksTidy ==
  ASSUME Known, NEW c \in Container, HookNext(c), Own(c), Tidy(c)
  PROVE  Tidy(c)'
<1>1. c \in Actor /\ StepOf(c) /\ Cid(c) = c
  BY ActorTypes DEF StepOf, Cid
<1>2. CASE DriverStep(c)
  BY <1>1, <1>2, DriverTidy
<1>3. CASE ReadConfig(c) \/ MountNetns(c) \/ OpenNetns(c)
  BY <1>1, <1>3, HookBeginsTidy
<1>4. CASE (\E n \in mem[c].nics : HookNic(c, n)) \/ HookNicsDone(c)
  BY <1>1, <1>4, HookNicsTidy
<1>5. CASE \/ StartFails(c) \/ HookRoutesDone(c) \/ AbortStart(c)
           \/ \E r \in mem[c].routes : HookRoute(c, r) \/ HookRouteFails(c, r)
  BY <1>1, <1>5, StartGoesOnTidy
<1>6. CASE UnmountNetns(c) \/ HookReturns(c)
  BY <1>1, <1>6, HookEndsTidy
<1> QED
  BY <1>2, <1>3, <1>4, <1>5, <1>6 DEF HookNext

LEMMA StepTidy ==
  ASSUME Known, NEW a \in Actor, StepOf(a), NEW c \in Container, Own(c), Tidy(c)
  PROVE  Tidy(c)'
<1>1. CASE Cid(a) # c /\ ~ \E r \in Requests : a \in Command /\ Begin(a, r)
  BY <1>1, OthersTidy
<1>2. ASSUME a \in Command, NEW r \in Requests, Begin(a, r) PROVE Tidy(c)'
  BY <1>2, BeginTidy
<1>3. CASE Crash(a) /\ Cid(a) = c
  <2>1. disturbed'[c]
    BY <1>3, Disturbs, KnownFacts DEF Crash
  <2> QED
    BY <2>1 DEF Tidy
<1>4. CASE a \in Command /\ CommandNext(a) /\ Cid(a) = c
  BY <1>4, CommandsTidy
<1>5. CASE a \in Container /\ (HookNext(a) \/ StartContainer(a) \/ StopContainer(a)) /\ Cid(a) = c
  <2>1. a = c
    BY <1>5 DEF Cid
  <2> QED
    BY <1>5, <2>1, HooksTidy, LifeTidy
<1> QED
  BY <1>1, <1>2, <1>3, <1>4, <1>5 DEF StepOf

LEMMA TidyInvInit == Init => TidyInv
<1> SUFFICES ASSUME Init, NEW c \in Container PROVE Tidy(c)
  BY DEF TidyInv
<1>1. /\ st[c] = "stopped" /\ netns[c] = <<>>
      /\ \A a \in Actor : pc[a] = "idle"
      /\ link = [l \in Link |-> IF l[2] = "phys" THEN AtHome(l[1]) ELSE Absent]
      /\ inc[c] = 0
  BY ActorTypes DEF Init
<1>2. \A l \in Link, i \in Nat : link[l].ns # <<c, i>>
  BY <1>1, Namespaces DEF AtHome, Absent
<1>3. NetnsFits(c) /\ Current(c) /\ StopMem(c) /\ Accounted(c, file[c].nics, {})
  BY <1>1, <1>2 DEF NetnsFits, Current, StopMem, Accounted, LinksIn
<1>4. \A a \in Actor : ~ Serves(a, c)
  BY <1>1 DEF Serves, Locked
<1> QED
  BY <1>3, <1>4 DEF Tidy

LEMMA TidyInvNext == Known /\ OwnInv /\ TidyInv /\ [Next]_vars => TidyInv'
<1> SUFFICES ASSUME Known, OwnInv, TidyInv, [Next]_vars, NEW c \in Container PROVE Tidy(c)'
  BY DEF TidyInv
<1>1. Own(c) /\ Tidy(c)
  BY DEF OwnInv, TidyInv
<1>2. CASE Next
  BY <1>1, <1>2, NextIsStep, StepTidy, GoneTidy
<1>3. CASE UNCHANGED vars
  <2>1. UNCHANGED <<file, st, inc, netns, link, pc, job, mem, disturbed>>
    BY <1>3 DEF vars, lockVars, ctrVars, kernelVars, noteVars
  <2>2. Untouched(c, {}) /\ \A x \in Actor : SameWork(x)
    BY <2>1 DEF Untouched, SameWork, Cid, NsOf
  <2>3. ~ disturbed[c] => Tidy(c)'
    BY <1>1, <2>1, <2>2, TidyStays
  <2> QED
    BY <2>1, <2>3 DEF Tidy
<1> QED
  BY <1>2, <1>3

-----------------------------------------------------------------------------
(***************************************************************************)
(* What is not in a container is at home                                   *)
(***************************************************************************)
\* A process has link l in hand on the host, or the other end of its new pair.
Underway(l) ==
  \E a \in Actor :
    \/ pc[a] = "delhost" /\ mem[a].lnk = l
    \/ pc[a] = "joinhost" /\ ThisNic(a).type = "veth" /\ Peer(mem[a].lnk) = l

Home(l) ==
  \/ link[l].ns \in Container \X Nat
  \/ Underway(l)
  \/ IF IsPair(l) THEN link[l].ns = Nowhere ELSE link[l] = AtHome(l[1])

Calm == \A c \in Container : ~ disturbed[c]

\* The physical interfaces and the container's ends of the pairs.
Inner == {l \in Link : l[2] # "host"}

HomeInv == Calm => \A l \in Inner : Home(l)

LEMMA InnerNames ==
  /\ \A l \in Inner : l \in Link /\ (IsPair(l) => \E k \in Pair : l = <<k, "ctr">>)
  /\ \A l \in Inner : ~ IsPair(l) => \E e \in Eth : l = <<e, "phys">>
  /\ \A k \in Pair : <<k, "ctr">> \in Inner /\ IsPair(<<k, "ctr">>) /\ Peer(<<k, "host">>) = <<k, "ctr">>
  BY DEF Inner, Link, IsPair, Peer

\* A step of process a leaves the other processes what they have in hand.
LEMMA HomeStays ==
  ASSUME NEW a \in Actor, NEW l \in Inner, Home(l),
         link'[l] = link[l] \/ (IsPair(l) /\ link'[l].ns = link[l].ns),
         \A b \in Actor : b # a => pc'[b] = pc[b] /\ mem'[b] = mem[b],
         pc[a] = "delhost" => mem[a].lnk # l,
         pc[a] = "joinhost" /\ ThisNic(a).type = "veth" => Peer(mem[a].lnk) # l
  PROVE  Home(l)'
<1>1. CASE Underway(l)
  <2>1. PICK b \in Actor : \/ pc[b] = "delhost" /\ mem[b].lnk = l
                           \/ pc[b] = "joinhost" /\ ThisNic(b).type = "veth" /\ Peer(mem[b].lnk) = l
    BY <1>1 DEF Underway
  <2>2. pc'[b] = pc[b] /\ mem'[b] = mem[b]
    BY <2>1
  <2>3. Underway(l)'
    BY <2>1, <2>2 DEF Underway, ThisNic, Peer
  <2> QED
    BY <2>3 DEF Home
<1>2. CASE link[l].ns \in Container \X Nat
  BY <1>2 DEF Home
<1>3. CASE IF IsPair(l) THEN link[l].ns = Nowhere ELSE link[l] = AtHome(l[1])
  BY <1>3 DEF Home
<1> QED
  BY <1>1, <1>2, <1>3 DEF Home

\* What a calm step of process a finds.
LEMMA CalmWork ==
  ASSUME Known, OwnInv, TidyInv, NEW a \in Actor, StepOf(a), Calm'
  PROVE  /\ Calm /\ NetTypeOK
         /\ \A b \in Actor : b # a => pc'[b] = pc[b] /\ mem'[b] = mem[b]
         /\ pc[a] \in Creating \cup {"delhost"} => RightHand(a) /\ Returns(a)
         /\ \A v : ~ (v /\ Disturb(Cid(a), v))
         /\ \A cs : DisturbAll(cs) => Cid(a) \notin cs
         /\ ~ Crash(a)
<1>1. NetTypeOK /\ Cid(a) \in Container
  BY KnownFacts, CidType DEF NetTypeOK
<1>2. Calm
  BY <1>1, MarksStay DEF Calm
<1>3. \A b \in Actor : b # a => pc'[b] = pc[b] /\ mem'[b] = mem[b]
  BY <1>1, OthersStay DEF Kept
<1>4. pc[a] \in Creating \cup {"delhost"} => RightHand(a) /\ Returns(a)
  <2> SUFFICES ASSUME pc[a] \in Creating \cup {"delhost"} PROVE RightHand(a) /\ Returns(a)
    OBVIOUS
  <2>1. Serves(a, Cid(a))
    BY DEF Serves, Creating, Locked, CommandStep
  <2>2. Tidy(Cid(a)) /\ ~ disturbed[Cid(a)]
    BY <1>1, <1>2 DEF TidyInv, Calm
  <2> QED
    BY <2>1, <2>2 DEF Tidy, Orderly
<1>5. /\ \A v : ~ (v /\ Disturb(Cid(a), v))
      /\ \A cs : DisturbAll(cs) => Cid(a) \notin cs
  <2>1. ~ disturbed'[Cid(a)]
    BY <1>1 DEF Calm
  <2>2. \A v : v /\ Disturb(Cid(a), v) => disturbed'[Cid(a)]
    BY <1>1 DEF Disturb, NetTypeOK, NetContainersTypeOK
  <2> QED
    BY <1>1, <2>1, <2>2, Disturbs
<1>6. ~ Crash(a)
  BY <1>5 DEF Crash
<1> QED
  BY <1>1, <1>2, <1>3, <1>4, <1>5, <1>6

\* The interface gets its name back.
LEMMA NameEthHome ==
  ASSUME Known, OwnInv, TidyInv, NEW a \in Actor, StepOf(a), Calm', NEW l \in Inner, Home(l),
         pc[a] = "delhost", NameEth(a) \/ NameEthFails(a) \/ EthNotFound(a)
  PROVE  Home(l)'
<1>1. NameEth(a)
  BY CalmWork DEF NameEthFails, EthNotFound
<1>2. mem[a].lnk = <<ThisNic(a).host, "phys">> /\ NetTypeOK
  BY CalmWork DEF Returns
<1>3. Change(mem[a].lnk, Moved(HostNs, ThisNic(a).host))
  BY <1>1 DEF NameEth
<1>4. CASE l = mem[a].lnk
  <2>1. ~ IsPair(l) /\ l[1] = ThisNic(a).host
    BY <1>2, <1>4 DEF IsPair
  <2>2. link'[l] = Moved(HostNs, ThisNic(a).host)
    BY <1>2, <1>3, <1>4, InnerNames, OneChanged
  <2> QED
    BY <2>1, <2>2 DEF Home, Moved, AtHome
<1>5. CASE l # mem[a].lnk
  <2>1. link'[l] = link[l]
    BY <1>2, <1>3, <1>5, InnerNames, OneChanged
  <2> QED
    BY <1>5, <2>1, CalmWork, HomeStays
<1> QED
  BY <1>4, <1>5

\* The end of the pair, or the interface, is moved, or the pair is deleted.
LEMMA JoinHostHome ==
  ASSUME Known, OwnInv, TidyInv, NEW a \in Actor, StepOf(a), Calm', NEW l \in Inner, Home(l),
         JoinHost(a) \/ JoinHostFails(a)
  PROVE  Home(l)'
<1> DEFINE n == ThisNic(a)
<1>1. pc[a] = "joinhost" /\ NetTypeOK /\ l \in Link /\ link \in [Link -> LinkState]
  BY CalmWork, InnerNames DEF JoinHost, JoinHostFails, NetTypeOK, KernelTypeOK
<1>2. n.type = "veth" => \E k \in Pair : mem[a].lnk = <<k, "host">>
  BY <1>1, KnownFacts DEF PairsFresh
<1>3. CASE JoinHost(a)
  <2>1. NsOf(a) \in Container \X Nat
    BY <1>1, <1>3, NsOfContainer, JoinHostMoves
  <2>2. CASE n.type = "veth"
    <3>1. PICK k \in Pair : mem[a].lnk = <<k, "host">>
      BY <1>2, <2>2
    <3>2. link' = [link EXCEPT ![mem[a].lnk].name = n.host, ![mem[a].lnk].up = TRUE,
                               ![Peer(mem[a].lnk)] = Moved(NsOf(a), Tmp)]
      BY <1>1, <1>3, <2>2, JoinHostMoves
    <3>3. Peer(mem[a].lnk) = <<k, "ctr">> /\ mem[a].lnk # l
      BY <3>1, InnerNames DEF Inner
    <3>4. CASE l = <<k, "ctr">>
      <4>1. link'[l] = Moved(NsOf(a), Tmp)
        BY <1>1, <3>2, <3>3, <3>4
      <4> QED
        BY <2>1, <4>1 DEF Home, Moved
    <3>5. CASE l # <<k, "ctr">>
      <4>1. link'[l] = link[l]
        BY <1>1, <3>2, <3>3, <3>5
      <4> QED
        BY <1>1, <3>3, <3>5, <4>1, CalmWork, HomeStays
    <3> QED
      BY <3>4, <3>5
  <2>3. CASE n.type # "veth"
    <3>1. PICK m : link' = [link EXCEPT ![m] = Moved(NsOf(a), Tmp)]
      BY <1>1, <1>3, <2>3, JoinHostMoves
    <3>2. CASE l = m
      <4>1. link'[l] = Moved(NsOf(a), Tmp)
        BY <1>1, <3>1, <3>2
      <4> QED
        BY <2>1, <4>1 DEF Home, Moved
    <3>3. CASE l # m
      <4>1. link'[l] = link[l]
        BY <1>1, <3>1, <3>3
      <4> QED
        BY <1>1, <2>3, <4>1, CalmWork, HomeStays
    <3> QED
      BY <3>2, <3>3
  <2> QED
    BY <2>2, <2>3
<1>4. CASE JoinHostFails(a)
  <2>1. CASE n.type = "veth"
    <3>1. PICK k \in Pair : mem[a].lnk = <<k, "host">>
      BY <1>2, <2>1
    <3>2. Delete({mem[a].lnk})
      BY <1>4, <2>1 DEF JoinHostFails
    <3>3. IF l \in Ends(<<k, "host">>) THEN link'[l] = Absent ELSE link'[l] = link[l]
      BY <1>1, <3>1, <3>2, OnesDeleted
    <3>4. CASE l \in Ends(<<k, "host">>)
      BY <3>3, <3>4, LinkNames DEF Home, Absent
    <3>5. CASE l \notin Ends(<<k, "host">>)
      <4>1. Peer(mem[a].lnk) # l /\ link'[l] = link[l]
        BY <3>1, <3>3, <3>5, LinkNames, InnerNames
      <4> QED
        BY <1>1, <4>1, CalmWork, HomeStays
    <3> QED
      BY <3>4, <3>5
  <2>2. CASE n.type # "veth"
    <3>1. link'[l] = link[l]
      BY <1>4, <2>2 DEF JoinHostFails, kernelVars
    <3> QED
      BY <1>1, <2>2, <3>1, CalmWork, HomeStays
  <2> QED
    BY <2>1, <2>2
<1> QED
  BY <1>3, <1>4

\* What is deleted is nowhere.
LEMMA DeleteHome ==
  ASSUME NetTypeOK, NEW links, Delete(links), NEW l \in Inner, link'[l] # link[l]
  PROVE  Home(l)'
<1>1. l \in Link /\ \E m \in links : l \in Ends(m)
  BY InnerNames, OnesDeleted
<1>2. link'[l] = Absent
  BY <1>1, OnesDeleted
<1>3. IsPair(l)
  BY <1>1, LinkNames
<1> QED
  BY <1>2, <1>3 DEF Home, Absent

\* A link that is brought into the container stays there, or goes back by its name.
LEMMA JoinCtrHome ==
  ASSUME Known, OwnInv, TidyInv, NEW a \in Actor, StepOf(a), Calm', NEW l \in Inner, Home(l),
         JoinCtr(a) \/ JoinCtrFails(a), link'[l] # link[l]
  PROVE  Home(l)'
<1>1. pc[a] = "joinctr" /\ NetTypeOK /\ l \in Link
  BY CalmWork, InnerNames DEF JoinCtr, JoinCtrFails
<1>2. CASE JoinCtr(a)
  <2>1. a \in Command \/ CanEnter(a)
    BY <1>1, KnownFacts DEF HookStages, CanEnter, Actor
  <2>2. NsOf(a) \in Container \X Nat
    BY <1>1, <2>1, NsOfContainer
  <2>3. Change(Joining(a), Configured(NsOf(a), ThisNic(a)))
    BY <1>2 DEF JoinCtr
  <2>4. link'[l] = Configured(NsOf(a), ThisNic(a))
    BY <1>1, <2>3, OneChanged
  <2> QED
    BY <2>2, <2>4 DEF Home, Configured
<1>3. CASE JoinCtrFails(a)
  <2>1. TakeBack(a) \/ (UNCHANGED kernelVars /\ Disturb(Cid(a), TRUE))
    BY <1>3 DEF JoinCtrFails
  <2>2. TakeBack(a)
    BY <2>1, CalmWork
  <2>3. CASE ThisNic(a).type = "veth"
    BY <1>1, <2>2, <2>3, DeleteHome DEF TakeBack
  <2>4. CASE ThisNic(a).type # "veth"
    <3>1. mem[a].lnk = <<ThisNic(a).host, "phys">>
      BY <1>1, <2>4, CalmWork DEF RightHand, Creating
    <3>2. /\ Change(mem[a].lnk, Moved(HostNs, NameBack(ThisNic(a).host, Tmp)))
          /\ Disturb(Cid(a), ~ Free(HostNs, ThisNic(a).host))
      BY <2>2, <2>4 DEF TakeBack
    <3>3. Free(HostNs, ThisNic(a).host)
      BY <3>2, CalmWork
    <3>4. l = mem[a].lnk /\ link'[l] = Moved(HostNs, ThisNic(a).host)
      BY <1>1, <3>2, <3>3, OneChanged DEF NameBack
    <3>5. ~ IsPair(l) /\ l[1] = ThisNic(a).host
      BY <3>1, <3>4 DEF IsPair
    <3> QED
      BY <3>4, <3>5 DEF Home, Moved, AtHome
  <2> QED
    BY <2>3, <2>4
<1> QED
  BY <1>2, <1>3

\* The other steps of a driver: a pair is made, a link is taken in hand, or pairs go.
LEMMA TakenHome ==
  ASSUME Known, OwnInv, TidyInv, NEW a \in Actor, StepOf(a), Calm', NEW l \in Inner, Home(l),
         \/ CreatePair(a) \/ CreatePairFails(a) \/ TakeEth(a) \/ TakeEthFails(a)
         \/ DeletePair(a) \/ DeletePairFails(a) \/ DeleteEth(a) \/ DeleteEthFails(a),
         link'[l] # link[l]
  PROVE  Home(l)'
<1>1. /\ NetTypeOK /\ l \in Link /\ link \in [Link -> LinkState]
      /\ ~ (UNCHANGED kernelVars) /\ ~ (UNCHANGED link)
  BY CalmWork, InnerNames DEF NetTypeOK, KernelTypeOK, kernelVars
<1>2. /\ \A s : Goto(a, s) => pc'[a] = s
      /\ \A m : Remember(a, m) => mem'[a] = m
  BY <1>1, Reads
<1>3. CASE CreatePair(a)
  <2>1. PICK k : /\ k = CHOOSE free \in FreePairs : TRUE
                 /\ Make(k) /\ Remember(a, [mem[a] EXCEPT !.lnk = <<k, "host">>])
    BY <1>3 DEF CreatePair
  <2>2. pc'[a] = "joinhost" /\ mem'[a] = [mem[a] EXCEPT !.lnk = <<k, "host">>]
    BY <1>2, <1>3, <2>1 DEF CreatePair
  <2>3. mem[a] \in Memory
    BY <1>1 DEF NetTypeOK, NetProcessesTypeOK
  <2>4. mem'[a].lnk = <<k, "host">> /\ mem'[a].nic = mem[a].nic
    BY <2>2, <2>3 DEF Memory
  <2>5. ThisNic(a)'.type = "veth" /\ Peer(mem[a].lnk)' = <<k, "ctr">>
    BY <1>3, <2>4 DEF CreatePair, ThisNic, Peer
  <2>6. l \in {<<k, "host">>, <<k, "ctr">>}
    BY <1>1, <2>1, LinkNames DEF Make
  <2>7. l = <<k, "ctr">>
    BY <2>6 DEF Inner
  <2>8. Underway(l)'
    BY <2>2, <2>5, <2>7 DEF Underway
  <2> QED
    BY <2>8 DEF Home
<1>4. CASE DeletePair(a)
  BY <1>1, <1>4, DeleteHome DEF DeletePair
<1>5. CASE DeleteEth(a)
  <2>1. PICK m \in LinksNamed(NsOf(a), ThisNic(a).ctr) :
          /\ Change(m, Moved(HostNs, Tmp)) /\ Remember(a, [mem[a] EXCEPT !.lnk = m])
          /\ Goto(a, "delhost")
    BY <1>1, <1>5 DEF DeleteEth
  <2>2. l = m
    BY <1>1, <2>1, OneChanged
  <2>3. pc'[a] = "delhost" /\ mem'[a] = [mem[a] EXCEPT !.lnk = m] /\ mem[a] \in Memory
    BY <1>1, <1>2, <2>1 DEF NetTypeOK, NetProcessesTypeOK
  <2>4. mem'[a].lnk = l
    BY <2>2, <2>3 DEF Memory
  <2> QED
    BY <2>3, <2>4 DEF Home, Underway
<1>6. ~ TakeEth(a) /\ ~ TakeEthFails(a) /\ ~ DeletePairFails(a)
  BY <1>1 DEF TakeEth, TakeEthFails, DeletePairFails
<1>7. ~ CreatePairFails(a) /\ ~ DeleteEthFails(a)
  <2>1. ~ Disturb(Cid(a), TRUE)
    BY CalmWork
  <2> QED
    BY <1>1, <2>1 DEF CreatePairFails, DeleteEthFails
<1> QED
  BY <1>3, <1>4, <1>5, <1>6, <1>7

\* update-nic changes links where they are.
LEMMA ConfigureHome ==
  ASSUME Known, OwnInv, TidyInv, NEW a \in Command, StepOf(a), Calm', NEW l \in Inner, Home(l),
         \/ ConfigureHost(a) \/ ConfigureHostFails(a)
         \/ ConfigureCtr(a) \/ ConfigureCtrFails(a),
         link'[l] # link[l]
  PROVE  link'[l].ns = link[l].ns /\ (IsPair(l) \/ link[l].ns \in Container \X Nat)
<1>1. /\ NetTypeOK /\ l \in Link /\ link \in [Link -> LinkState] /\ a \in Actor
      /\ ~ (UNCHANGED kernelVars) /\ ~ (UNCHANGED link)
  BY CalmWork, InnerNames DEF NetTypeOK, KernelTypeOK, kernelVars, Actor
<1>2. link[l] \in LinkState /\ NsOf(a) \in Container \X Nat
  BY <1>1, NsOfContainer
<1>3. ~ Disturb(Cid(a), TRUE)
  BY <1>1, CalmWork
<1>4. CASE ConfigureHost(a)
  <2>1. PICK found : found = LinksNamed(HostNs, ThisNic(a).host)
    OBVIOUS
  <2>2. /\ link' = [m \in Link |-> IF m \in found THEN [link[m] EXCEPT !.up = TRUE] ELSE link[m]]
        /\ Disturb(Cid(a), ~ \A m \in found : IsPair(m))
    BY <1>4, <2>1 DEF ConfigureHost
  <2>3. \A m \in found : IsPair(m)
    BY <1>1, <2>2, CalmWork
  <2>4. l \in found /\ link'[l] = [link[l] EXCEPT !.up = TRUE]
    BY <1>1, <2>2
  <2> QED
    BY <1>2, <2>3, <2>4 DEF LinkState
<1>5. CASE ConfigureHostFails(a)
  <2>1. PICK found : found = LinksNamed(HostNs, ThisNic(a).host)
    OBVIOUS
  <2>2. PICK up \in BOOLEAN :
          /\ link' = [m \in Link |-> IF m \in found THEN [link[m] EXCEPT !.up = up] ELSE link[m]]
          /\ DisturbAll(IF up /\ \A m \in found : IsPair(m) THEN {} ELSE Owners(found) \cup {Cid(a)})
    BY <1>1, <1>5, <2>1 DEF ConfigureHostFails
  <2>3. \A m \in found : IsPair(m)
    BY <1>1, <2>2, CalmWork
  <2>4. l \in found /\ link'[l] = [link[l] EXCEPT !.up = up]
    BY <1>1, <2>2
  <2> QED
    BY <1>2, <2>3, <2>4 DEF LinkState
<1>6. CASE ConfigureCtr(a)
  <2>1. PICK m \in LinksNamed(NsOf(a), ThisNic(a).ctr) :
          Change(m, [link[m] EXCEPT !.ip = ThisNic(a).ip,
                                    !.up = @ \/ ThisNic(a).type = "veth"])
    BY <1>6 DEF ConfigureCtr
  <2>2. PICK s : /\ s = [link[m] EXCEPT !.ip = ThisNic(a).ip, !.up = @ \/ ThisNic(a).type = "veth"]
                 /\ Change(m, s)
    BY <2>1
  <2>3. l = m /\ link'[l] = s
    BY <1>1, <2>2, OneChanged
  <2>4. s.ns = link[m].ns
    <3>1. \A v : [link[m] EXCEPT !.ip = ThisNic(a).ip, !.up = v].ns = link[m].ns
      BY <1>2, <2>3 DEF LinkState
    <3> QED
      BY <2>2, <3>1
  <2> QED
    BY <1>2, <2>1, <2>3, <2>4 DEF LinksNamed
<1>7. ~ ConfigureCtrFails(a)
  BY <1>1, <1>3 DEF ConfigureCtrFails
<1> QED
  BY <1>4, <1>5, <1>6, <1>7

\* Only these steps change a link, or end what is under way on the host.
LEMMA HandsOff ==
  ASSUME NetTypeOK, HookStages, NEW a \in Actor, StepOf(a)
  PROVE  /\ pc[a] = "delhost" => NameEth(a) \/ NameEthFails(a) \/ EthNotFound(a) \/ Crash(a)
         /\ pc[a] = "joinhost" => JoinHost(a) \/ JoinHostFails(a) \/ Crash(a)
         /\ \/ UNCHANGED link
            \/ DriverStep(a)
            \/ /\ a \in Command
               /\ \/ ConfigureHost(a) \/ ConfigureHostFails(a)
                  \/ ConfigureCtr(a) \/ ConfigureCtrFails(a)
<1>1. CASE Crash(a)
  BY <1>1 DEF Crash, kernelVars
<1>2. CASE DriverStep(a)
  BY <1>2 DEF DriverStep, CreatePair, CreatePairFails, TakeEth, TakeEthFails, JoinHost,
     JoinHostFails, JoinCtr, JoinCtrFails, DeletePair, DeletePairFails, DeleteEth,
     DeleteEthFails, NameEth, NameEthFails, EthNotFound
<1>3. CASE a \in Command /\ CommandNext(a) /\ ~ DriverStep(a)
  BY <1>3 DEF CommandNext, LockAndLoad, AddNic, DelNic, UpdateNic, ConfigureHost,
     ConfigureHostFails, ConfigureCtr, ConfigureCtrFails, RefuseRoute, AddRoute,
     AddRouteFails, TakePattern, DelRoute, DelRouteFails, RoutesDone, Flush, kernelVars
<1>4. ASSUME a \in Command, NEW r \in Requests, Begin(a, r)
      PROVE  pc[a] = "idle" /\ UNCHANGED link
  BY <1>4 DEF Begin, kernelVars
<1>5. CASE /\ a \in Container /\ ~ DriverStep(a)
           /\ HookNext(a) \/ StartContainer(a) \/ StopContainer(a)
  BY <1>5 DEF HookNext, ReadConfig, MountNetns, StartFails, OpenNetns, HookNicsDone,
     HookRoutesDone, UnmountNetns, HookNic, HookRoute, HookRouteFails, AbortStart,
     HookReturns, StartContainer, StopContainer, HookStages, kernelVars
<1> QED
  BY <1>1, <1>2, <1>3, <1>4, <1>5 DEF StepOf

LEMMA StepHome ==
  ASSUME Known, OwnInv, TidyInv, NEW a \in Actor, StepOf(a), Calm', NEW l \in Inner, Home(l)
  PROVE  Home(l)'
<1>1. NetTypeOK /\ HookStages /\ ~ Crash(a)
  BY CalmWork, KnownFacts
<1>2. CASE pc[a] = "delhost"
  BY <1>1, <1>2, HandsOff, NameEthHome
<1>3. CASE pc[a] = "joinhost"
  BY <1>1, <1>3, HandsOff, JoinHostHome
<1>4. CASE pc[a] \notin {"delhost", "joinhost"}
  <2>1. CASE link'[l] = link[l]
    BY <1>4, <2>1, CalmWork, HomeStays
  <2>2. CASE link'[l] # link[l] /\ DriverStep(a)
    <3>1. \/ JoinCtr(a) \/ JoinCtrFails(a)
          \/ CreatePair(a) \/ CreatePairFails(a) \/ TakeEth(a) \/ TakeEthFails(a)
          \/ DeletePair(a) \/ DeletePairFails(a) \/ DeleteEth(a) \/ DeleteEthFails(a)
          \/ EthNotFound(a)
      BY <1>4, <2>2 DEF DriverStep, JoinHost, JoinHostFails, NameEth, NameEthFails
    <3>2. ~ EthNotFound(a)
      BY <1>4 DEF EthNotFound
    <3> QED
      BY <2>2, <3>1, <3>2, JoinCtrHome, TakenHome
  <2>3. CASE /\ link'[l] # link[l] /\ a \in Command
             /\ \/ ConfigureHost(a) \/ ConfigureHostFails(a)
                \/ ConfigureCtr(a) \/ ConfigureCtrFails(a)
    <3>1. link'[l].ns = link[l].ns /\ (IsPair(l) \/ link[l].ns \in Container \X Nat)
      BY <2>3, ConfigureHome
    <3>2. CASE IsPair(l)
      BY <1>4, <3>1, <3>2, CalmWork, HomeStays
    <3>3. CASE link[l].ns \in Container \X Nat
      BY <3>1, <3>3 DEF Home
    <3> QED
      BY <3>1, <3>2, <3>3
  <2> QED
    BY <1>1, <2>1, <2>2, <2>3, HandsOff
<1> QED
  BY <1>2, <1>3, <1>4

LEMMA HomeInvNext == Known /\ OwnInv /\ TidyInv /\ HomeInv /\ [Next]_vars => HomeInv'
<1> SUFFICES ASSUME Known, OwnInv, TidyInv, HomeInv, [Next]_vars, Calm', NEW l \in Inner
             PROVE  Home(l)'
  BY DEF HomeInv, Inner
<1>1. ASSUME NEW a \in Actor, StepOf(a) PROVE Home(l)'
  <2>1. Calm
    BY <1>1, CalmWork
  <2>2. Home(l)
    BY <2>1 DEF HomeInv
  <2> QED
    BY <1>1, <2>2, StepHome
<1>2. ASSUME NEW m \in Link, NamespaceGone(m) PROVE FALSE
  <2>1. PICK c \in Container, i \in Nat : link[m].ns = <<c, i>>
    BY <1>2, GoneTouches, KnownFacts
  <2>2. ~ disturbed[c]
    BY <1>2 DEF NamespaceGone, noteVars, Calm
  <2> QED
    BY <1>2, <2>1, <2>2, GoneTidy DEF OwnInv, TidyInv
<1>3. CASE UNCHANGED vars
  <2>1. UNCHANGED <<disturbed, link, pc, mem>>
    BY <1>3 DEF vars, kernelVars, noteVars
  <2>2. Calm
    BY <2>1 DEF Calm
  <2>3. Home(l)
    BY <2>2 DEF HomeInv
  <2>4. Underway(l) => Underway(l)'
    BY <2>1 DEF Underway, ThisNic, Peer
  <2> QED
    BY <2>1, <2>3, <2>4 DEF Home
<1> QED
  BY <1>1, <1>2, <1>3, NextIsStep

LEMMA HomeInvInit == Init => HomeInv
<1> SUFFICES ASSUME Init, NEW l \in Inner PROVE Home(l)
  BY DEF HomeInv
<1>1. /\ l \in Link /\ link = [m \in Link |-> IF m[2] = "phys" THEN AtHome(m[1]) ELSE Absent]
  BY InnerNames DEF Init
<1> QED
  BY <1>1 DEF Home, IsPair, Absent

LEMMA HomeInvCorrect == Spec => [](Known /\ TidyInv /\ HomeInv)
<1>1. Known /\ OwnInv /\ TidyInv /\ HomeInv /\ [Next]_vars => TidyInv' /\ HomeInv'
  BY TidyInvNext, HomeInvNext
<1> QED
  BY <1>1, TidyInvInit, HomeInvInit, OwnInvCorrect, PTL DEF Spec

\* When nothing is under way and nothing has disturbed it, the host has its physical
\* interfaces back under their names, and pairs are left of running containers only
\* (DeleteIf and the recoveries of both drivers, the netns file).
THEOREM HostAlwaysClean == Spec => []HostClean
<1>1. Known /\ TidyInv /\ HomeInv => HostClean
  <2> SUFFICES ASSUME Known, TidyInv, HomeInv, \A c \in Container : Undisturbed(c), NEW l \in Link
               PROVE  IF IsPair(l)
                      THEN link[Peer(l)].ns # Nowhere =>
                             \E c \in Container : st[c] = "running" /\ link[Peer(l)].ns = <<c, inc[c]>>
                      ELSE \/ link[l] = AtHome(l[1])
                           \/ \E c \in Container : st[c] = "running" /\ link[l].ns = <<c, inc[c]>>
    BY DEF HostClean
  <2>1. Calm /\ NetTypeOK
    BY KnownFacts DEF Undisturbed, Calm
  <2>2. \A a \in Actor : pc[a] \in {"idle", "done"}
    <3>1. ASSUME NEW a \in Command PROVE pc[a] \in {"idle", "done"}
      <4>1. Cid(a) \in Container
        BY <2>1, CidType DEF NetTypeOK, Actor
      <4> QED
        BY <4>1 DEF Undisturbed, Quiet, BusyOn, Busy
    <3> QED
      BY <3>1 DEF Undisturbed, Quiet, Actor
  <2>3. \A m : ~ Underway(m)
    BY <2>2 DEF Underway
  <2>4. ASSUME NEW m \in Link, link[m].ns \in Container \X Nat
        PROVE  \E c \in Container : st[c] = "running" /\ link[m].ns = <<c, inc[c]>>
    <3>1. PICK c \in Container, i \in Nat : link[m].ns = <<c, i>>
      BY <2>4
    <3>2. NetnsFits(c) /\ Current(c)
      BY <2>1 DEF TidyInv, Tidy, Calm
    <3>3. i = inc[c] /\ netns[c] = <<i, 0>>
      BY <3>1, <3>2 DEF Current
    <3>4. netns[c] # <<>>
      BY <3>3
    <3>5. st[c] \in {"stopped", "running"}
      BY KnownFacts DEF HookStages, Undisturbed, Quiet
    <3>6. st[c] = "running"
      BY <3>2, <3>4, <3>5 DEF NetnsFits
    <3> QED
      BY <3>1, <3>3, <3>6
  <2>5. CASE IsPair(l)
    <3>1. Peer(l) \in Inner /\ Peer(l) \in Link /\ IsPair(Peer(l))
      BY <2>5 DEF Peer, Inner, Link, IsPair
    <3>2. Home(Peer(l))
      BY <2>1, <3>1 DEF HomeInv
    <3> QED
      BY <2>3, <2>4, <2>5, <3>1, <3>2 DEF Home
  <2>6. CASE ~ IsPair(l)
    <3>1. l \in Inner
      BY <2>6 DEF Inner, IsPair
    <3>2. Home(l)
      BY <2>1, <3>1 DEF HomeInv
    <3> QED
      BY <2>3, <2>4, <2>6, <3>2 DEF Home
  <2> QED
    BY <2>5, <2>6
<1> QED
  BY <1>1, HomeInvCorrect, PTL

=============================================================================

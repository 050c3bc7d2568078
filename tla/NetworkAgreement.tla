---------------------------- MODULE NetworkAgreement ----------------------------
(***************************************************************************)
(* What is in the namespace of a container, for any containers, commands,  *)
(* interfaces and requests: the start hook brings in all that is           *)
(* configured, and between commands the interfaces and routes of a running *)
(* container agree with its configuration, unless something has disturbed  *)
(* it that nothing puts right.                                             *)
(*                                                                         *)
(* The invariant says this at every step.  While a process works on the    *)
(* container, what is there agrees with what the process has in memory:    *)
(* not yet with the nic that it is bringing in, still with the nic that it *)
(* is taking out, and with nothing that it has yet to go through.  Who     *)
(* works for another container, and the kernel that cleans up, leave these *)
(* interfaces alone, by what NetworkLinks proves of them.                  *)
(***************************************************************************)
EXTENDS NetworkLinks

-----------------------------------------------------------------------------
(***************************************************************************)
(* What is in the namespace of a container, while somebody works on it     *)
(***************************************************************************)
Creating == {"create", "joinhost", "joinctr"}

\* Process a works on container c: a hook, or the command that has the lock.
Serves(a, c) == Cid(a) = c /\ IF a \in Container THEN pc[a] # "idle" ELSE pc[a] \in Locked

\* Container c is started or runs as configured, and nothing has disturbed it.
Active(c) ==
  /\ ~ disturbed[c]
  /\ \/ st[c] = "creating" /\ pc[c] # "abort"
     \/ st[c] = "running" /\ ~ pending[c]

\* No command was under way when the container was started or stopped.
Apart(c) ==
  \A p \in Command : Busy(p) /\ Cid(p) = c =>
    /\ pc[c] = "idle"
    /\ job[p].pid = IF st[c] = "running" THEN inc[c] ELSE 0

\* Of the nics that a has in memory, those that it has yet to bring in; ...
Left(a) ==
  (IF a \in Container THEN mem[a].nics ELSE {})
    \cup (IF pc[a] \in Creating THEN {ThisNic(a)} ELSE {})

\* ... so that these are in the container now: also the one that is to be deleted.
Due(a) ==
  IF a \in Container /\ pc[a] = "read" THEN {}
  ELSE (Nics(a) \ Left(a)) \cup (IF pc[a] = "delete" THEN {ThisNic(a)} ELSE {})

DueRoutes(a) == IF a \in Container THEN file[a].routes ELSE Routes(a)

\* The link that a is bringing in is not configured yet.
Carried(a) == IF pc[a] = "joinctr" THEN {Joining(a)} ELSE {}

\* In the namespace of c these nics stand, each of another name, and nothing else
\* is there but what is carried.
Fits(c, nics, carried) ==
  LET there == LinksIn(<<c, inc[c]>>) \ carried
  IN  /\ \A n \in nics : \E l \in there : Stands(c, l, n)
      /\ \A l \in there : \E n \in nics : Stands(c, l, n)
      /\ \A l, m \in there : link[l].name = link[m].name => l = m

\* Kernel route k is what route r asks for.
Covers(r, k) ==
  /\ KernelDest(r.dest) = k.dest /\ r.gw = k.gw
  /\ r.dev \in {link[k.lnk].name, Empty}

Covered(c, routes) ==
  \A k \in rtable : k.ns = <<c, inc[c]>> => \E r \in routes : Covers(r, k)

\* What a driver brings in is what the nic says, and the pair's other end is done.
RightHand(a) ==
  pc[a] = "joinctr" =>
    IF ThisNic(a).type = "veth"
    THEN /\ link[Joining(a)] = Moved(NsOf(a), Tmp)
         /\ link[mem[a].lnk] =
              [ns |-> HostNs, name |-> ThisNic(a).host, ip |-> Empty, up |-> TRUE]
    ELSE mem[a].lnk \in Link /\ mem[a].lnk = <<ThisNic(a).host, "phys">>

\* The start hook goes through all that is configured, first the nics.
HookMem(c) ==
  pc[c] # "read" =>
    /\ mem[c].conf = file[c]
    /\ mem[c].nics \subseteq Nics(c) /\ mem[c].routes \subseteq Routes(c)
    /\ pc[c] = "mount" => mem[c].nics = Nics(c)
    /\ pc[c] \in Creating => ThisNic(c) \in Nics(c) \ mem[c].nics
    /\ pc[c] \in {"routes", "done"} => mem[c].nics = {}
    /\ pc[c] = "done" => mem[c].routes = {}
    /\ pc[c] \notin {"routes", "done"} => mem[c].routes = Routes(c)
    /\ pc[c] \in {"routes", "done"} =>
         \A r \in Routes(c) \ mem[c].routes : RoutesMeant(<<c, inc[c]>>, r) # {}

InOrder(a) ==
  /\ Fits(Cid(a), Due(a), Carried(a))
  /\ Covered(Cid(a), DueRoutes(a))
  /\ RightHand(a)

AtRest(c) == Fits(c, file[c].nics, {}) /\ Covered(c, file[c].routes)

Settled(c) ==
  /\ st[c] = "creating" => HookMem(c)
  /\ \A a \in Actor : Serves(a, c) => InOrder(a)
  /\ (\A a \in Actor : ~ Serves(a, c)) => AtRest(c)

\* The invariant of container c.
Own(c) == (~ disturbed[c] => Apart(c)) /\ (Active(c) => Settled(c))

OwnInv == \A c \in Container : Own(c)

\* The invariants that are proved already.
Known == NetInv /\ StoreInv /\ LinksInv

LEMMA KnownFacts ==
  ASSUME Known
  PROVE  /\ NetTypeOK /\ Asked /\ NetnsFound /\ NicsDistinct
         /\ CarriedAlone /\ PairsFresh /\ HookStages /\ RoutesPlaced /\ NoFuture
         /\ \A p \in Command : CommandInv(p)
  BY DEF Known, NetInv, StoreInv, LinksInv

-----------------------------------------------------------------------------
(***************************************************************************)
(* Who works on a container                                                *)
(***************************************************************************)
\* A process that can do something in a namespace is in that of a container.
LEMMA NsOfContainer ==
  ASSUME NetTypeOK, NEW a \in Actor, a \in Command \/ CanEnter(a)
  PROVE  NsOf(a) \in Container \X Nat /\ NsOf(a) # HostNs /\ NsOf(a) # Nowhere
<1>1. NsOf(a) \in Container \X Nat
  <2>1. CASE a \in Command
    BY <2>1, CidType DEF NetTypeOK, NetProcessesTypeOK, NsOf
  <2>2. CASE a \notin Command /\ CanEnter(a)
    <3>1. a \in Container
      BY <2>2 DEF Actor
    <3>2. CASE st[a] = "creating"
      BY <2>2, <3>1, <3>2 DEF NetTypeOK, NetContainersTypeOK, NsOf
    <3>3. CASE st[a] # "creating"
      <4>1. netns[a] \in Seq(Nat) /\ netns[a] # <<>>
        BY <2>2, <3>1, <3>3 DEF CanEnter, NetTypeOK, KernelTypeOK
      <4>2. Head(netns[a]) \in Nat
        BY <4>1
      <4> QED
        BY <2>2, <3>1, <3>3, <4>2 DEF NsOf
    <3> QED
      BY <3>2, <3>3
  <2> QED
    BY <2>1, <2>2
<1> QED
  BY <1>1, LinksAssumption

\* A command and a hook do not work on a container at a time, nor do two commands.
LEMMA OnlyWorker ==
  ASSUME Known, NEW c \in Container, Apart(c),
         NEW a \in Actor, Serves(a, c), NEW b \in Actor, Serves(b, c)
  PROVE  a = b
<1>1. ASSUME NEW p \in Command, NEW x \in Actor, Serves(p, c), Serves(x, c) PROVE p = x
  <2>1. p \notin Container /\ pc[p] \in Locked /\ Cid(p) = c /\ flock[c] = p
    BY <1>1, ActorTypes, KnownFacts DEF Serves, CommandInv
  <2>2. pc[c] = "idle"
    BY <2>1 DEF Apart, Busy, Locked
  <2>3. x \notin Container
    BY <1>1, <2>2 DEF Serves, Cid
  <2>4. x \in Command /\ pc[x] \in Locked /\ Cid(x) = c
    BY <1>1, <2>3 DEF Serves, Actor
  <2> QED
    BY <2>1, <2>4, KnownFacts DEF CommandInv
<1>2. CASE a \in Command \/ b \in Command
  BY <1>1, <1>2
<1>3. CASE a \in Container /\ b \in Container
  BY <1>3 DEF Serves, Cid
<1> QED
  BY <1>2, <1>3 DEF Actor

\* Whoever works on an active container means its namespace and can enter it.
LEMMA InCharge ==
  ASSUME Known, NEW c \in Container, Own(c), Active(c), NEW a \in Actor, Serves(a, c)
  PROVE  /\ NsOf(a) = <<c, inc[c]>> /\ CanEnter(a) /\ Cid(a) = c /\ inc[c] \in Nat
         /\ a \in Command => st[c] = "running" /\ Alive(a) /\ pc[c] = "idle" /\ pc[a] \in Locked
         /\ a \in Container => /\ a = c /\ st[c] = "creating" /\ pc[c] # "idle"
                               /\ pc[c] \notin {"abort", "open", "delete", "delhost", "unmount"}
         /\ InOrder(a)
<1>1. inc[c] \in Nat /\ Cid(a) = c /\ InOrder(a) /\ inc[c] > 0
  BY KnownFacts DEF NetTypeOK, NetContainersTypeOK, Serves, Own, Settled, Active, HookStages
<1>2. CASE a \in Command
  <2>1. a \notin Container /\ pc[a] \in Locked
    BY <1>2, ActorTypes DEF Serves
  <2>2. pc[c] = "idle" /\ job[a].pid = IF st[c] = "running" THEN inc[c] ELSE 0
    BY <1>1, <1>2, <2>1 DEF Own, Active, Apart, Busy, Locked
  <2>3. st[c] = "running"
    BY <2>2, KnownFacts DEF HookStages, Active
  <2> QED
    BY <1>1, <1>2, <2>1, <2>2, <2>3 DEF NsOf, CanEnter, Alive
<1>3. CASE a \in Container
  <2>1. a \notin Command /\ a = c /\ pc[c] # "idle"
    BY <1>3, ActorTypes DEF Serves, Cid
  <2>2. st[c] = "creating"
    BY <2>1, KnownFacts DEF HookStages, Active
  <2> QED
    BY <1>1, <1>3, <2>1, <2>2, KnownFacts DEF HookStages, Active, NsOf, CanEnter
<1> QED
  BY <1>2, <1>3 DEF Actor

-----------------------------------------------------------------------------
(***************************************************************************)
(* What fits goes on to fit                                                *)
(***************************************************************************)
\* But for these links, nothing in the namespace of c changes, nor the other ends of
\* the pairs that stand there.
Untouched(c, links) ==
  /\ \A l \in Link \ links :
       <<c, inc[c]>> \in {link[l].ns, link'[l].ns} => link'[l] = link[l]
  /\ \A k \in Pair :
       LET h == <<k, "host">>
       IN  /\ link[<<k, "ctr">>].ns = <<c, inc[c]>> /\ <<k, "ctr">> \notin links
           /\ link[h].ns = HostNs /\ link[h].name # Tmp /\ link[h].up
           => link'[h] = link[h]

\* What a standing link is.
LEMMA Standing ==
  ASSUME NEW c \in Container, NEW l \in Link, NEW n \in Nic, Stands(c, l, n)
  PROVE  /\ link[l].ns = <<c, inc[c]>> /\ link[l].name = n.ctr /\ n.ctr # Tmp /\ n.host # Tmp
         /\ n.type = "eth" => l = <<n.host, "phys">> /\ ~ IsPair(l)
         /\ n.type = "veth" => \E k \in Pair :
              /\ l = <<k, "ctr">> /\ <<k, "host">> \in Link
              /\ link[<<k, "host">>].ns = HostNs /\ link[<<k, "host">>].name = n.host
              /\ link[<<k, "host">>].up /\ IsPair(l)
<1>1. link[l].ns = <<c, inc[c]>> /\ link[l].name = n.ctr /\ n.ctr # Tmp /\ n.host # Tmp
  BY LinkNames DEF Stands
<1>2. n.type = "eth" => l = <<n.host, "phys">> /\ ~ IsPair(l)
  BY DEF Stands, IsPair
<1>3. ASSUME n.type = "veth"
      PROVE  \E k \in Pair :
               /\ l = <<k, "ctr">> /\ <<k, "host">> \in Link
               /\ link[<<k, "host">>].ns = HostNs /\ link[<<k, "host">>].name = n.host
               /\ link[<<k, "host">>].up /\ IsPair(l)
  <2>1. PICK k \in Pair :
          /\ l = <<k, "ctr">>
          /\ link[<<k, "host">>] = [ns |-> HostNs, name |-> n.host, ip |-> Empty, up |-> TRUE]
    BY <1>3 DEF Stands
  <2> QED
    BY <2>1, LinkNames
<1> QED
  BY <1>1, <1>2, <1>3

LEMMA FitsStays ==
  ASSUME NEW c \in Container, inc'[c] = inc[c], NEW nics \in SUBSET Nic, NEW links,
         Untouched(c, links), Fits(c, nics, links)
  PROVE  Fits(c, nics, links)'
<1> DEFINE there == LinksIn(<<c, inc[c]>>) \ links
<1>1. \A l \in there : l \in Link /\ l \notin links /\ link[l].ns = <<c, inc[c]>>
  BY DEF LinksIn
<1>2. \A l \in there : link'[l] = link[l]
  BY <1>1 DEF Untouched
<1>3. there' = there
  <2>1. \A l \in Link \ links : link[l].ns = <<c, inc[c]>> <=> link'[l].ns = <<c, inc[c]>>
    BY DEF Untouched
  <2> QED
    BY <2>1 DEF LinksIn
<1>4. ASSUME NEW l \in there, NEW n \in nics, Stands(c, l, n) PROVE Stands(c, l, n)'
  <2>1. n \in Nic /\ link'[l] = link[l] /\ l \in Link
    BY <1>1, <1>2
  <2>2. CASE n.type = "eth"
    BY <1>4, <2>1, <2>2 DEF Stands
  <2>3. CASE n.type # "eth"
    <3>1. PICK k \in Pair :
            /\ l = <<k, "ctr">>
            /\ link[<<k, "host">>] = [ns |-> HostNs, name |-> n.host, ip |-> Empty, up |-> TRUE]
      BY <1>4, <2>3 DEF Stands
    <3>2. link'[<<k, "host">>] = link[<<k, "host">>]
      BY <1>1, <2>1, <3>1, LinkNames DEF Untouched
    <3> QED
      BY <1>4, <2>1, <2>3, <3>1, <3>2 DEF Stands
  <2> QED
    BY <2>2, <2>3
<1>5. /\ \A n \in nics : \E l \in there : Stands(c, l, n)
      /\ \A l \in there : \E n \in nics : Stands(c, l, n)
      /\ \A l, m \in there : link[l].name = link[m].name => l = m
  BY DEF Fits
<1> HIDE DEF there
<1>6. /\ \A n \in nics : \E l \in there : Stands(c, l, n)'
      /\ \A l \in there : \E n \in nics : Stands(c, l, n)'
      /\ \A l, m \in there : link'[l].name = link'[m].name => l = m
  BY <1>2, <1>4, <1>5
<1>7. /\ \A n \in nics : \E l \in there' : Stands(c, l, n)'
      /\ \A l \in there' : \E n \in nics : Stands(c, l, n)'
      /\ \A l, m \in there' : link'[l].name = link'[m].name => l = m
  BY <1>3, <1>6
<1> QED
  BY <1>7 DEF Fits, there

\* It makes no difference to carry what is elsewhere.
LEMMA NotThere ==
  ASSUME NEW c \in Container, NEW nics, NEW l, link[l].ns # <<c, inc[c]>>, Fits(c, nics, {})
  PROVE  Fits(c, nics, {l})
<1>1. LinksIn(<<c, inc[c]>>) \ {l} = LinksIn(<<c, inc[c]>>) \ {}
  BY DEF LinksIn
<1> QED
  BY <1>1 DEF Fits

LEMMA NoMoreThere ==
  ASSUME NEW c \in Container, NEW nics, NEW l, link'[l].ns # <<c, inc'[c]>>,
         Fits(c, nics, {l})'
  PROVE  Fits(c, nics, {})'
<1>1. (LinksIn(<<c, inc[c]>>) \ {l})' = (LinksIn(<<c, inc[c]>>) \ {})'
  BY DEF LinksIn
<1> QED
  BY <1>1 DEF Fits

\* Without the link that stands for a nic, the rest is the other nics'.
LEMMA TakeOut ==
  ASSUME NetTypeOK, NEW c \in Container, NEW nics \in SUBSET Nic, Distinct(nics), NEW n \in nics,
         Fits(c, nics, {}), NEW l \in Link, link[l].ns = <<c, inc[c]>>, link[l].name = n.ctr
  PROVE  Stands(c, l, n) /\ Fits(c, nics \ {n}, {l})
<1> DEFINE there == LinksIn(<<c, inc[c]>>)
<1>1. /\ \A e \in nics : \E m \in there : Stands(c, m, e)
      /\ \A m \in there : \E e \in nics : Stands(c, m, e)
      /\ \A m, x \in there : link[m].name = link[x].name => m = x
  BY DEF Fits
<1>2. l \in there /\ \A m \in there : m \in Link
  BY DEF LinksIn
<1>3. \A m \in there, e \in nics : Stands(c, m, e) => link[m].name = e.ctr
  BY DEF Stands
<1> HIDE DEF there
<1>4. Stands(c, l, n)
  BY <1>1, <1>2, <1>3
<1>5. \A e \in nics \ {n} : e.ctr # n.ctr
  BY DEF Distinct
<1>6. \A e \in nics \ {n} : \E m \in there \ {l} : Stands(c, m, e)
  BY <1>1, <1>2, <1>3, <1>5
<1>7. \A m \in there \ {l} : \E e \in nics \ {n} : Stands(c, m, e)
  BY <1>1, <1>2, <1>3
<1> QED
  BY <1>1, <1>4, <1>6, <1>7 DEF Fits, there

\* What was carried stands for one more nic.
LEMMA PutIn ==
  ASSUME NEW c \in Container, NEW nics, NEW n, NEW l \in Link, Fits(c, nics, {l})',
         Stands(c, l, n)', \A e \in nics : e.ctr # n.ctr
  PROVE  Fits(c, nics \cup {n}, {})'
<1> DEFINE there == LinksIn(<<c, inc[c]>>)
<1>1. /\ \A e \in nics : \E m \in there' \ {l} : Stands(c, m, e)'
      /\ \A m \in there' \ {l} : \E e \in nics : Stands(c, m, e)'
      /\ \A m, x \in there' \ {l} : link'[m].name = link'[x].name => m = x
  BY DEF Fits
<1>2. l \in there' /\ link'[l].name = n.ctr
  BY DEF Stands, LinksIn
<1>3. ASSUME NEW m \in there' \ {l} PROVE link'[m].name # n.ctr
  <2>1. PICK e \in nics : Stands(c, m, e)'
    BY <1>1
  <2>2. link'[m].name = e.ctr
    BY <2>1 DEF Stands
  <2> QED
    BY <2>2
<1> HIDE DEF there
<1>4. /\ \A e \in nics \cup {n} : \E m \in there' : Stands(c, m, e)'
      /\ \A m \in there' : \E e \in nics \cup {n} : Stands(c, m, e)'
      /\ \A m, x \in there' : link'[m].name = link'[x].name => m = x
  BY <1>1, <1>2, <1>3
<1> QED
  BY <1>4 DEF Fits, there

\* When all fits, each nic is in place.
LEMMA FittingInPlace ==
  ASSUME NEW c \in Container, NEW nics \in SUBSET Nic, Fits(c, nics, {})
  PROVE  /\ \A n \in nics : InPlace(c, n)
         /\ \A l \in LinksIn(<<c, inc[c]>>) : \E n \in nics : Stands(c, l, n)
<1> DEFINE there == LinksIn(<<c, inc[c]>>)
<1>1. /\ \A e \in nics : \E m \in there : Stands(c, m, e)
      /\ \A m \in there : \E e \in nics : Stands(c, m, e)
      /\ \A m, x \in there : link[m].name = link[x].name => m = x
  BY DEF Fits
<1>2. ASSUME NEW n \in nics PROVE InPlace(c, n)
  <2>1. PICK l \in there : Stands(c, l, n)
    BY <1>1
  <2>2. l \in Link /\ link[l].name = n.ctr
    BY <2>1 DEF Stands, LinksIn
  <2>3. LinksNamed(<<c, inc[c]>>, n.ctr) = {l}
    BY <1>1, <2>1, <2>2 DEF LinksNamed, LinksIn
  <2> QED
    BY <2>1, <2>2, <2>3 DEF InPlace
<1> QED
  BY <1>1, <1>2

-----------------------------------------------------------------------------
(***************************************************************************)
(* Who works for another container leaves this one alone                   *)
(***************************************************************************)
\* A route that stays goes over the link over which it went.
LEMMA RoutesStand ==
  ASSUME Known, NEW a \in Actor, StepOf(a), NEW k \in rtable, k \in rtable'
  PROVE  link'[k.lnk] = link[k.lnk]
<1>1. k.lnk \in Link /\ link[k.lnk].ns = k.ns /\ k.ns \in Container \X Nat
  BY KnownFacts DEF NetTypeOK, KernelTypeOK, KernelRoute, RoutesPlaced
<1>2. Touches(a, k.lnk) \/ Spares(a, k.lnk)
  BY <1>1, KnownFacts, StepTouches
<1> QED
  BY <1>1, <1>2, LinksAssumption DEF Touches, Lands, Spares

\* What all goes on to cover, as long as no route is added.
LEMMA CoveredStays ==
  ASSUME Known, NEW a \in Actor, StepOf(a), NEW c \in Container, inc'[c] = inc[c],
         \A k \in rtable' : k.ns = <<c, inc[c]>> => k \in rtable,
         NEW routes, Covered(c, routes)
  PROVE  Covered(c, routes)'
<1>1. ASSUME NEW k \in rtable', k.ns = <<c, inc'[c]>> PROVE \E r \in routes : Covers(r, k)'
  <2>1. k \in rtable /\ k.ns = <<c, inc[c]>>
    BY <1>1
  <2>2. link'[k.lnk] = link[k.lnk]
    BY <1>1, <2>1, RoutesStand
  <2>3. PICK r \in routes : Covers(r, k)
    BY <2>1 DEF Covered
  <2> QED
    BY <2>2, <2>3 DEF Covers
<1> QED
  BY <1>1 DEF Covered

\* The container that has an end of a pair is its owner.
LEMMA Owned ==
  ASSUME NEW c \in Container, NEW i \in Nat, NEW l, link[l].ns = <<c, i>>, NEW m,
         NEW links, m \in links, l \in Ends(m)
  PROVE  c \in Owners(links)
<1>1. l \in UNION {Ends(x) : x \in links} /\ link[l].ns \in {c} \X Nat
  OBVIOUS
<1> QED
  BY <1>1 DEF Owners

LEMMA Elsewhere ==
  ASSUME Known, NEW a \in Actor, StepOf(a), NEW c \in Container, Cid(a) # c, ~ disturbed'[c]
  PROVE  /\ Untouched(c, {})
         /\ \A k : k.ns = <<c, inc[c]>> => (k \in rtable' <=> k \in rtable)
<1> DEFINE ns == <<c, inc[c]>>
<1>1. /\ inc[c] \in Nat /\ ns # HostNs /\ ns # Nowhere /\ HostNs # Nowhere
      /\ NsOf(a) # ns /\ link \in [Link -> LinkState]
      /\ \A l \in Link : Touches(a, l) \/ Spares(a, l)
      /\ rtable' \subseteq rtable \/ AddsRoute(a)
      /\ ThisNic(a).host # Tmp /\ ThisNic(a).ctr # Tmp
  <2>1. inc[c] \in Nat /\ link \in [Link -> LinkState]
    BY KnownFacts DEF NetTypeOK, NetContainersTypeOK, KernelTypeOK
  <2> QED
    BY <2>1, Namespaces, StepTouches, KnownFacts, ThisNicType, LinkNames
<1> HIDE DEF ns
<1>2. ASSUME NEW l \in Link, link[l].ns = ns
      PROVE  Spares(a, l) /\ link'[l] = link[l]
  <2>1. ~ InHand(a, l)
    <3>1. ASSUME InHand(a, l) PROVE FALSE
      <4>1. link[l] = Moved(Place(a), Tmp) \/ link[l] = Absent
        BY <3>1, KnownFacts DEF CarriedAlone
      <4>2. link[l].ns \in {HostNs, NsOf(a), Nowhere}
        BY <4>1 DEF Moved, Absent, Place
      <4> QED
        BY <1>1, <1>2, <4>2
    <3> QED
      BY <3>1
  <2>2. ~ Fresh(a, l)
    <3>1. ASSUME Fresh(a, l) PROVE FALSE
      <4>1. PICK k \in Pair :
              mem[a].lnk = <<k, "host">> /\ \A m \in Ends(<<k, "host">>) : link[m] = Moved(HostNs, Tmp)
        BY <3>1, KnownFacts DEF Fresh, PairsFresh
      <4>2. link[l] = Moved(HostNs, Tmp)
        BY <3>1, <4>1 DEF Fresh
      <4> QED
        BY <1>1, <1>2, <4>2 DEF Moved
    <3> QED
      BY <3>1
  <2>3. ~ Deletes(a, l)
    BY <1>1, <1>2, Owned DEF Deletes, ns
  <2>4. ~ Brings(a, l) /\ ~ SetsUp(a, l) /\ ~ Configures(a, l) /\ ~ Makes(a, l)
    BY <1>1, <1>2 DEF Brings, SetsUp, Configures, Makes
  <2> QED
    BY <1>1, <2>1, <2>2, <2>3, <2>4 DEF Touches, Finds, Spares
<1>3. ASSUME NEW l \in Link, link'[l].ns = ns PROVE link[l].ns = ns
  BY <1>1, <1>3 DEF Touches, Lands, Spares
<1>4. ASSUME NEW k \in Pair, link[<<k, "ctr">>].ns = ns, link[<<k, "host">>].ns = HostNs,
             link[<<k, "host">>].name # Tmp, link[<<k, "host">>].up
      PROVE  link'[<<k, "host">>] = link[<<k, "host">>]
  <2> DEFINE h == <<k, "host">>
  <2>1. /\ h \in Link /\ IsPair(h) /\ Ends(h) = {h, <<k, "ctr">>}
        /\ \A m : h \in Ends(m) => <<k, "ctr">> \in Ends(m)
    BY LinkNames
  <2>2. h # <<ThisNic(a).host, "phys">>
    OBVIOUS
  <2>3. link[h].ns = HostNs /\ link[h].name # Tmp /\ link[h].up /\ link[h] \in LinkState
    BY <1>1, <1>4, <2>1
  <2>4. \A links, m : m \in links /\ h \in Ends(m) => c \in Owners(links)
    BY <1>1, <1>4, <2>1, Owned DEF ns
  <2> HIDE DEF h
  <2>5. ~ InHand(a, h)
    <3>1. ASSUME InHand(a, h) PROVE FALSE
      <4>1. link[h] = Moved(Place(a), Tmp) \/ link[h] = Absent
        BY <2>1, <3>1, KnownFacts DEF CarriedAlone
      <4>2. link[h].name = Tmp
        BY <4>1 DEF Moved, Absent
      <4> QED
        BY <2>3, <4>2
    <3> QED
      BY <3>1
  <2>6. ~ Fresh(a, h)
    <3>1. ASSUME Fresh(a, h) PROVE FALSE
      <4>1. PICK j \in Pair :
              mem[a].lnk = <<j, "host">> /\ \A m \in Ends(<<j, "host">>) : link[m] = Moved(HostNs, Tmp)
        BY <3>1, KnownFacts DEF Fresh, PairsFresh
      <4>2. link[h] = Moved(HostNs, Tmp)
        BY <3>1, <4>1 DEF Fresh
      <4> QED
        BY <2>3, <4>2 DEF Moved
    <3> QED
      BY <3>1
  <2>7. ~ Deletes(a, h)
    BY <2>4 DEF Deletes
  <2>8. c \in Owners({h})
    BY <2>1, <2>4
  <2>9. ~ Brings(a, h)
    BY <2>2, <2>8 DEF Brings, h
  <2>10. SetsUp(a, h) => link'[h] = link[h]
    <3>1. [link[h] EXCEPT !.up = TRUE] = link[h]
      BY <2>3 DEF LinkState
    <3> QED
      BY <2>8, <3>1 DEF SetsUp
  <2>11. ~ Configures(a, h)
    BY <2>3, NsOfContainer, KnownFacts DEF Configures
  <2>12. ~ Makes(a, h)
    BY <1>1, <2>3 DEF Makes
  <2>13. link'[h] = link[h]
    BY <1>1, <2>1, <2>5, <2>6, <2>7, <2>9, <2>10, <2>11, <2>12 DEF Touches, Finds, Spares
  <2> QED
    BY <2>13 DEF h
<1>5. Untouched(c, {})
  <2>1. \A l \in Link : ns \in {link[l].ns, link'[l].ns} => link'[l] = link[l]
    BY <1>2, <1>3
  <2> QED
    BY <1>4, <2>1 DEF Untouched, ns
<1>6. ASSUME NEW k, k.ns = ns PROVE k \in rtable' <=> k \in rtable
  <2>1. ASSUME k \in rtable PROVE k \in rtable'
    <3>1. k.lnk \in Link /\ link[k.lnk].ns = ns
      BY <1>6, <2>1, KnownFacts DEF NetTypeOK, KernelTypeOK, KernelRoute, RoutesPlaced
    <3> QED
      BY <1>1, <1>2, <1>6, <2>1, <3>1 DEF Spares
  <2>2. ASSUME k \in rtable' PROVE k \in rtable
    <3>1. CASE AddsRoute(a)
      BY <1>1, <1>6, <2>2, <3>1 DEF AddsRoute, RouteAdd
    <3> QED
      BY <1>1, <2>2, <3>1
  <2> QED
    BY <2>1, <2>2
<1> QED
  BY <1>5, <1>6 DEF ns

\* What is due is a set of nics.
LEMMA DueType ==
  ASSUME NetTypeOK, NEW a \in Actor
  PROVE  Due(a) \in SUBSET Nic /\ DueRoutes(a) \in SUBSET Route
<1>1. DueRoutes(a) \in SUBSET Route
  BY ThisNicType DEF DueRoutes, NetTypeOK, NetContainersTypeOK, Conf
<1> QED
  BY <1>1, ThisNicType DEF Due

\* The pairs of an active container have their other ends on the host.
LEMMA PeersAtHome ==
  ASSUME Known, NEW c \in Container, Own(c), Active(c), NEW l \in Link,
         link[l].ns = <<c, inc[c]>>, NEW m \in Ends(l), m # l
  PROVE  link[m].ns = HostNs
<1>1. ASSUME NEW n \in Nic, Stands(c, l, n) PROVE link[m].ns = HostNs
  <2>1. IsPair(l) /\ (n.type = "eth" \/ n.type = "veth")
    BY LinkNames DEF Nic, Type
  <2>2. PICK k \in Pair : l = <<k, "ctr">> /\ link[<<k, "host">>].ns = HostNs
    BY <1>1, <2>1, Standing
  <2>3. m = <<k, "host">>
    BY <2>2, LinkNames
  <2> QED
    BY <2>2, <2>3
<1>2. ASSUME NEW nics \in SUBSET Nic, NEW links, Fits(c, nics, links), l \notin links
      PROVE  link[m].ns = HostNs
  <2>1. \E n \in nics : Stands(c, l, n)
    BY <1>2 DEF Fits, LinksIn
  <2> QED
    BY <1>1, <2>1
<1>3. CASE \A a \in Actor : ~ Serves(a, c)
  <2>1. Fits(c, file[c].nics, {}) /\ file[c].nics \in SUBSET Nic
    BY <1>3, KnownFacts DEF Own, Settled, AtRest, NetTypeOK, NetContainersTypeOK, Conf
  <2> QED
    BY <1>2, <2>1
<1>4. ASSUME NEW a \in Actor, Serves(a, c) PROVE link[m].ns = HostNs
  <2>1. Cid(a) = c /\ Fits(c, Due(a), Carried(a)) /\ Due(a) \in SUBSET Nic /\ RightHand(a)
    BY <1>4, KnownFacts, DueType DEF Own, Settled, InOrder, Serves
  <2>2. CASE l \notin Carried(a)
    BY <1>2, <2>1, <2>2
  <2>3. CASE l \in Carried(a)
    <3>1. pc[a] = "joinctr" /\ l = Joining(a) /\ IsPair(l)
      BY <2>3, LinkNames DEF Carried
    <3>2. ThisNic(a).type = "veth"
      BY <2>1, <3>1 DEF RightHand, Joining, IsPair
    <3>3. PICK k \in Pair : mem[a].lnk = <<k, "host">>
      BY <3>1, <3>2, KnownFacts DEF PairsFresh
    <3>4. l = <<k, "ctr">> /\ m = <<k, "host">>
      BY <3>1, <3>2, <3>3, LinkNames DEF Joining, Peer
    <3> QED
      BY <2>1, <3>1, <3>2, <3>3, <3>4 DEF RightHand
  <2> QED
    BY <2>2, <2>3
<1> QED
  BY <1>3, <1>4

\* Nor does the kernel clean up a namespace that is in use.
LEMMA GoneElsewhere ==
  ASSUME Known, NEW m \in Link, NamespaceGone(m), NEW c \in Container, Own(c), Active(c)
  PROVE  /\ Untouched(c, {})
         /\ \A k : k.ns = <<c, inc[c]>> => (k \in rtable' <=> k \in rtable)
<1> DEFINE ns == <<c, inc[c]>>
<1>1. PICK d \in Container, i \in Nat :
        /\ link[m].ns = <<d, i>> /\ ~ NsAlive(d, i)
        /\ \A l \in Link :
             \/ link'[l] = link[l] /\ \A k \in rtable : k.lnk = l => k \in rtable'
             \/ /\ \A k \in rtable' : k.lnk # l
                /\ \/ l \in Ends(m) /\ link'[l] = Absent
                   \/ l = m /\ ~ IsPair(l) /\ link'[l].ns = HostNs
  BY GoneTouches, KnownFacts
<1>2. link[m].ns # ns /\ link[m].ns # HostNs /\ ns # HostNs /\ ns # Nowhere
  <2>1. NsAlive(c, inc[c]) /\ inc[c] \in Nat
    BY KnownFacts DEF NsAlive, NetTypeOK, NetContainersTypeOK, Active
  <2> QED
    BY <1>1, <2>1, Namespaces DEF ns
<1> HIDE DEF ns
<1>3. rtable' \subseteq rtable
  BY GoneTouches, KnownFacts
<1>4. ASSUME NEW l \in Link, link[l].ns = ns
      PROVE  link'[l] = link[l] /\ \A k \in rtable : k.lnk = l => k \in rtable'
  <2>1. l # m
    BY <1>2, <1>4
  <2>2. l \notin Ends(m)
    <3>1. ASSUME l \in Ends(m) PROVE FALSE
      <4>1. m \in Ends(l)
        BY <3>1, LinkNames
      <4>2. link[m].ns = HostNs
        BY <1>4, <2>1, <4>1, PeersAtHome DEF ns
      <4> QED
        BY <1>2, <4>2
    <3> QED
      BY <3>1
  <2> QED
    BY <1>1, <2>1, <2>2
<1>5. ASSUME NEW l \in Link, link'[l].ns = ns PROVE link[l].ns = ns
  BY <1>1, <1>2, <1>5 DEF Absent
<1>6. ASSUME NEW k \in Pair, link[<<k, "ctr">>].ns = ns, link[<<k, "host">>].ns = HostNs
      PROVE  link'[<<k, "host">>] = link[<<k, "host">>]
  <2>1. /\ <<k, "host">> \in Link /\ <<k, "ctr">> \in Link /\ <<k, "host">> # <<k, "ctr">>
        /\ \A x : <<k, "host">> \in Ends(x) => x \in {<<k, "host">>, <<k, "ctr">>} \/ x \notin Link
    BY LinkNames DEF Ends, Link
  <2> QED
    BY <1>1, <1>2, <1>6, <2>1
<1>7. Untouched(c, {})
  <2>1. \A l \in Link : ns \in {link[l].ns, link'[l].ns} => link'[l] = link[l]
    BY <1>4, <1>5
  <2> QED
    BY <1>6, <2>1 DEF Untouched, ns
<1>8. ASSUME NEW k \in rtable, k.ns = ns PROVE k \in rtable'
  <2>1. k.lnk \in Link /\ link[k.lnk].ns = ns
    BY <1>8, KnownFacts DEF NetTypeOK, KernelTypeOK, KernelRoute, RoutesPlaced
  <2> QED
    BY <1>4, <2>1
<1> QED
  BY <1>3, <1>7, <1>8 DEF ns

-----------------------------------------------------------------------------
(***************************************************************************)
(* What stays as it is goes on to be in order                              *)
(***************************************************************************)
\* The marks on a container are taken back by the end of a start only.
LEMMA MarksStay ==
  ASSUME NetTypeOK, NEW a \in Actor, StepOf(a), NEW c \in Container
  PROVE  /\ disturbed[c] => disturbed'[c]
         /\ pending[c] => pending'[c] \/ (a = c /\ HookReturns(a))
<1> DEFINE Marked == \/ UNCHANGED disturbed
                     \/ \E d, x : disturbed' = [disturbed EXCEPT ![d] = @ \/ x]
                     \/ \E ds : DisturbAll(ds)
           Put == UNCHANGED pending \/ \E d, x : pending' = [pending EXCEPT ![d] = @ \/ x]
<1>1. disturbed \in [Container -> BOOLEAN] /\ pending \in [Container -> BOOLEAN]
  BY DEF NetTypeOK, NetContainersTypeOK
<1>2. ASSUME Marked PROVE disturbed[c] => disturbed'[c]
  <2>1. CASE UNCHANGED disturbed \/ \E ds : DisturbAll(ds)
    BY <2>1 DEF DisturbAll
  <2>2. ASSUME NEW d, NEW x, disturbed' = [disturbed EXCEPT ![d] = @ \/ x]
        PROVE  disturbed[c] => disturbed'[c]
    <3> DEFINE y == disturbed[d] \/ x
    <3>1. disturbed' = [disturbed EXCEPT ![d] = y] /\ (disturbed[d] => y)
      BY <2>2
    <3> HIDE DEF y
    <3> QED
      BY <1>1, <3>1
  <2> QED
    BY <1>2, <2>1, <2>2
<1>3. ASSUME Put PROVE pending[c] => pending'[c]
  <2>1. ASSUME NEW d, NEW x, pending' = [pending EXCEPT ![d] = @ \/ x]
        PROVE  pending[c] => pending'[c]
    <3> DEFINE y == pending[d] \/ x
    <3>1. pending' = [pending EXCEPT ![d] = y] /\ (pending[d] => y)
      BY <2>1
    <3> HIDE DEF y
    <3> QED
      BY <1>1, <3>1
  <2> QED
    BY <1>3, <2>1
<1>4. CASE DriverStep(a)
  <2>1. UNCHANGED pending
    BY <1>4 DEF DriverStep, CreatePair, CreatePairFails, TakeEth, TakeEthFails, JoinHost,
       JoinHostFails, JoinCtr, JoinCtrFails, DeletePair, DeletePairFails, DeleteEth,
       DeleteEthFails, NameEth, NameEthFails, EthNotFound, noteVars
  <2>2. Marked
    BY <1>4 DEF DriverStep, CreatePair, CreatePairFails, TakeEth, TakeEthFails, JoinHost,
       JoinHostFails, JoinCtr, JoinCtrFails, TakeBack, DeletePair, DeletePairFails, DeleteEth,
       DeleteEthFails, NameEth, NameEthFails, EthNotFound, noteVars, Disturb
  <2> HIDE DEF Marked
  <2> QED
    BY <1>2, <2>1, <2>2
<1>5. CASE a \in Command /\ CommandNext(a) /\ ~ DriverStep(a)
  <2>1. Put
    BY <1>5 DEF CommandNext, LockAndLoad, AddNic, DelNic, UpdateNic, GiveUp, ConfigureHost,
       ConfigureHostFails, ConfigureCtr, ConfigureCtrFails, RefuseRoute, AddRoute,
       AddRouteFails, TakePattern, DelRoute, DelRouteFails, RoutesDone, Flush, noteVars,
       Postpone
  <2>2. Marked
    BY <1>5 DEF CommandNext, LockAndLoad, AddNic, DelNic, UpdateNic, ConfigureHost,
       ConfigureHostFails, ConfigureCtr, ConfigureCtrFails, RefuseRoute, AddRoute,
       AddRouteFails, TakePattern, DelRoute, DelRouteFails, RoutesDone, Flush, noteVars,
       Disturb
  <2> HIDE DEF Marked, Put
  <2> QED
    BY <1>2, <1>3, <2>1, <2>2
<1>6. CASE /\ a \in Container /\ ~ DriverStep(a)
           /\ HookNext(a) \/ StartContainer(a) \/ StopContainer(a)
  <2>1. Marked
    BY <1>6 DEF HookNext, ReadConfig, MountNetns, StartFails, OpenNetns, HookNicsDone,
       HookRoutesDone, UnmountNetns, HookNic, HookRoute, HookRouteFails, AbortStart,
       HookReturns, StartContainer, StopContainer, Disturb, noteVars
  <2>2. UNCHANGED pending \/ HookReturns(a)
    BY <1>6 DEF HookNext, ReadConfig, MountNetns, StartFails, OpenNetns, HookNicsDone,
       HookRoutesDone, UnmountNetns, HookNic, HookRoute, HookRouteFails, AbortStart,
       StartContainer, StopContainer, noteVars
  <2>3. HookReturns(a) => pending' = [pending EXCEPT ![a] = @ /\ st[a] # "creating"]
    BY DEF HookReturns
  <2> HIDE DEF Marked
  <2> QED
    BY <1>1, <1>2, <2>1, <2>2, <2>3
<1>7. CASE Crash(a) \/ \E r \in Requests : Begin(a, r)
  BY <1>1, <1>2, <1>7 DEF Crash, Begin, Disturb, noteVars
<1> QED
  BY <1>4, <1>5, <1>6, <1>7 DEF StepOf

\* Process x is at the same step of the same task, in the same namespace.
SameWork(x) ==
  /\ pc'[x] = pc[x] /\ mem'[x] = mem[x]
  /\ Cid(x)' = Cid(x) /\ NsOf(x)' = NsOf(x)

\* What is brought in goes on to be what the nic says.
LEMMA RightHandStays ==
  ASSUME Known, NEW c \in Container, Untouched(c, {}), NEW x \in Actor, SameWork(x),
         RightHand(x), pc[x] = "joinctr" /\ ThisNic(x).type = "veth" => NsOf(x) = <<c, inc[c]>>
  PROVE  RightHand(x)'
<1>1. /\ pc'[x] = pc[x] /\ mem'[x] = mem[x] /\ NsOf(x)' = NsOf(x)
      /\ ThisNic(x)' = ThisNic(x) /\ Joining(x)' = Joining(x)
  BY DEF SameWork, ThisNic, Joining, Peer
<1>2. CASE pc[x] # "joinctr" \/ ThisNic(x).type # "veth"
  BY <1>1, <1>2 DEF RightHand
<1>3. CASE pc[x] = "joinctr" /\ ThisNic(x).type = "veth"
  <2>1. PICK k \in Pair : mem[x].lnk = <<k, "host">>
    BY <1>3, KnownFacts DEF PairsFresh
  <2>2. /\ Joining(x) = <<k, "ctr">> /\ <<k, "ctr">> \in Link
        /\ link[<<k, "ctr">>] = Moved(<<c, inc[c]>>, Tmp)
        /\ link[<<k, "host">>] =
             [ns |-> HostNs, name |-> ThisNic(x).host, ip |-> Empty, up |-> TRUE]
    BY <1>3, <2>1, LinkNames DEF RightHand, Joining, Peer
  <2>3. link[<<k, "ctr">>].ns = <<c, inc[c]>> /\ ThisNic(x).host # Tmp
    BY <2>2, KnownFacts, ThisNicType, LinkNames DEF Moved
  <2>4. link'[<<k, "ctr">>] = link[<<k, "ctr">>] /\ link'[<<k, "host">>] = link[<<k, "host">>]
    BY <2>2, <2>3 DEF Untouched
  <2> QED
    BY <1>1, <1>3, <2>1, <2>2, <2>4 DEF RightHand
<1> QED
  BY <1>2, <1>3

LEMMA InOrderStays ==
  ASSUME Known, NEW c \in Container, inc'[c] = inc[c], file'[c] = file[c],
         Untouched(c, {}), \A k \in rtable' : k.ns = <<c, inc[c]>> => k \in rtable,
         NEW x \in Actor, SameWork(x), Serves(x, c), InOrder(x), NsOf(x) = <<c, inc[c]>>
  PROVE  InOrder(x)'
<1>1. /\ pc'[x] = pc[x] /\ mem'[x] = mem[x] /\ Cid(x)' = c /\ Cid(x) = c /\ NsOf(x)' = NsOf(x)
      /\ x \in Container => x = c
  BY DEF SameWork, Serves, Cid
<1>2. /\ Due(x)' = Due(x) /\ Carried(x)' = Carried(x) /\ DueRoutes(x)' = DueRoutes(x)
      /\ ThisNic(x)' = ThisNic(x) /\ Joining(x)' = Joining(x)
  BY <1>1 DEF Due, Carried, DueRoutes, Nics, Routes, Left, ThisNic, Joining, Peer
<1>3. Due(x) \in SUBSET Nic /\ Fits(c, Due(x), Carried(x)) /\ Covered(c, DueRoutes(x)) /\ RightHand(x)
  BY <1>1, DueType, KnownFacts DEF InOrder
<1>4. Fits(Cid(x), Due(x), Carried(x))'
  <2> DEFINE due == Due(x)
             carried == Carried(x)
  <2>1. \A d, y : Fits(c, d, y) /\ d \in SUBSET Nic => Fits(c, d, y)'
    <3>1. \A y : Untouched(c, y)
      BY DEF Untouched
    <3> QED
      BY <3>1, FitsStays
  <2>2. \A d, y : d = Due(x) /\ y = Carried(x) => Fits(c, d, y)'
    BY <1>3, <2>1
  <2>3. \A d, y : d = Due(x)' /\ y = Carried(x)' => Fits(c, d, y)'
    BY <1>2, <2>2
  <2> QED
    BY <1>1, <2>3
<1>5. Covered(Cid(x), DueRoutes(x))'
  <2>1. ASSUME NEW k \in rtable', k.ns = <<c, inc'[c]>>
        PROVE  \E r \in DueRoutes(x)' : Covers(r, k)'
    <3>1. k \in rtable /\ k.ns = <<c, inc[c]>> /\ k.lnk \in Link
      BY <2>1, KnownFacts DEF NetTypeOK, KernelTypeOK, KernelRoute
    <3>2. link'[k.lnk] = link[k.lnk]
      BY <3>1, KnownFacts DEF Untouched, RoutesPlaced
    <3>3. PICK r \in DueRoutes(x) : Covers(r, k)
      BY <1>3, <3>1 DEF Covered
    <3> QED
      BY <1>2, <3>2, <3>3 DEF Covers
  <2> QED
    BY <1>1, <2>1 DEF Covered
<1>6. RightHand(x)'
  BY <1>3, RightHandStays
<1> QED
  BY <1>4, <1>5, <1>6 DEF InOrder

\* The routes that a start hook has installed stay installed.
LEMMA HookMemStays ==
  ASSUME Known, NEW c \in Container, inc'[c] = inc[c], file'[c] = file[c],
         pc'[c] = pc[c], mem'[c] = mem[c],
         Untouched(c, {}), \A k \in rtable : k.ns = <<c, inc[c]>> => k \in rtable',
         HookMem(c)
  PROVE  HookMem(c)'
<1>1. ASSUME NEW r PROVE RoutesMeant(<<c, inc[c]>>, r) \subseteq RoutesMeant(<<c, inc[c]>>, r)'
  <2>1. ASSUME NEW k \in RoutesMeant(<<c, inc[c]>>, r) PROVE k \in RoutesMeant(<<c, inc[c]>>, r)'
    <3>1. k \in rtable /\ k.ns = <<c, inc[c]>> /\ k.lnk \in Link
      BY <2>1, KnownFacts DEF RoutesMeant, NetTypeOK, KernelTypeOK, KernelRoute
    <3>2. link'[k.lnk] = link[k.lnk] /\ k \in rtable'
      BY <3>1, KnownFacts DEF Untouched, RoutesPlaced
    <3> QED
      BY <2>1, <3>1, <3>2 DEF RoutesMeant
  <2> QED
    BY <2>1
<1>2. Nics(c)' = Nics(c) /\ Routes(c)' = Routes(c) /\ ThisNic(c)' = ThisNic(c)
  BY DEF Nics, Routes, ThisNic
<1> QED
  BY <1>1, <1>2 DEF HookMem

\* A container that nobody works on, or whose process does something else.
LEMMA SettledStays ==
  ASSUME Known, NEW c \in Container, inc'[c] = inc[c], file'[c] = file[c], st'[c] = st[c],
         pc'[c] = pc[c], mem'[c] = mem[c], Own(c), Active(c),
         Untouched(c, {}), \A k : k.ns = <<c, inc[c]>> => (k \in rtable' <=> k \in rtable),
         \A x \in Actor : SameWork(x) \/ (~ Serves(x, c) /\ ~ Serves(x, c)')
  PROVE  Settled(c)'
<1>1. st'[c] = "creating" => HookMem(c)'
  BY HookMemStays DEF Own, Settled
<1>2. \A x \in Actor : Serves(x, c)' <=> Serves(x, c)
  BY DEF SameWork, Serves
<1>3. ASSUME NEW x \in Actor, Serves(x, c) PROVE InOrder(x)'
  <2>1. SameWork(x) /\ InOrder(x) /\ NsOf(x) = <<c, inc[c]>>
    BY <1>3, InCharge DEF Own, Settled
  <2> QED
    BY <1>3, <2>1, InOrderStays
<1>4. ASSUME \A x \in Actor : ~ Serves(x, c) PROVE AtRest(c)'
  <2>1. Fits(c, file[c].nics, {}) /\ Covered(c, file[c].routes) /\ file[c].nics \in SUBSET Nic
    BY <1>4, KnownFacts DEF Own, Settled, AtRest, NetTypeOK, NetContainersTypeOK, Conf
  <2>2. \A nics : nics = file[c].nics => Fits(c, nics, {})'
    BY <2>1, FitsStays
  <2>3. \A nics : nics = file'[c].nics => Fits(c, nics, {})'
    BY <2>2
  <2>4. ASSUME NEW k \in rtable', k.ns = <<c, inc'[c]>>
        PROVE  \E r \in file'[c].routes : Covers(r, k)'
    <3>1. k \in rtable /\ k.ns = <<c, inc[c]>> /\ k.lnk \in Link
      BY <2>4, KnownFacts DEF NetTypeOK, KernelTypeOK, KernelRoute
    <3>2. link'[k.lnk] = link[k.lnk]
      BY <3>1, KnownFacts DEF Untouched, RoutesPlaced
    <3>3. PICK r \in file[c].routes : Covers(r, k)
      BY <2>1, <3>1 DEF Covered
    <3> QED
      BY <3>2, <3>3 DEF Covers
  <2>5. Covered(c, file[c].routes)'
    BY <2>4 DEF Covered
  <2> QED
    BY <2>3, <2>5 DEF AtRest
<1> QED
  BY <1>1, <1>2, <1>3, <1>4 DEF Settled

\* Commands that are under way when a container starts or stops disturb it.
LEMMA ApartKept ==
  ASSUME Known, NEW a \in Actor, StepOf(a), NEW c \in Container, Own(c), ~ disturbed'[c]
  PROVE  Apart(c)'
<1>1. /\ ~ disturbed[c] /\ Apart(c)
      /\ disturbed \in [Container -> BOOLEAN]
      /\ pc \in [Actor -> CommandStep \cup HookStep]
      /\ job \in [Command -> [req: Request, pid: Nat]]
  BY MarksStay, KnownFacts DEF Own, NetTypeOK, NetContainersTypeOK, NetProcessesTypeOK
<1>2. ASSUME NEW p \in Command, Busy(p), Cid(p) = c
      PROVE  /\ pc'[c] = "idle" /\ st'[c] = st[c] /\ inc'[c] = inc[c]
             /\ pc[c] = "idle" /\ job[p].pid = IF st[c] = "running" THEN inc[c] ELSE 0
  <2>1. pc[c] = "idle" /\ job[p].pid = IF st[c] = "running" THEN inc[c] ELSE 0
    BY <1>1, <1>2 DEF Apart
  <2>2. CASE a # c
    BY <2>1, <2>2, LifeStays, OthersStay, ActorTypes, KnownFacts DEF Kept
  <2>3. CASE a = c
    <3>1. BusyOn(c)
      BY <1>2 DEF BusyOn
    <3>2. ~ StartContainer(c) /\ ~ StopContainer(c)
      <4>1. ASSUME Disturb(c, BusyOn(c)) PROVE FALSE
        <5>1. disturbed' = [disturbed EXCEPT ![c] = TRUE]
          BY <3>1, <4>1 DEF Disturb
        <5> QED
          BY <1>1, <5>1
      <4> QED
        BY <4>1 DEF StartContainer, StopContainer
    <3>3. ~ Crash(a)
      BY <2>1, <2>3 DEF Crash
    <3>4. HookNext(c)
      BY <2>3, <3>2, <3>3, ActorTypes DEF StepOf
    <3> QED
      BY <2>1, <3>4 DEF HookNext, ReadConfig, MountNetns, StartFails, OpenNetns, HookNic,
         HookNicsDone, HookRoute, HookRouteFails, HookRoutesDone, UnmountNetns, AbortStart,
         HookReturns, DriverStep, CreatePair, CreatePairFails, TakeEth, TakeEthFails, JoinHost,
         JoinHostFails, JoinCtr, JoinCtrFails, DeletePair, DeletePairFails, DeleteEth,
         DeleteEthFails, NameEth, NameEthFails, EthNotFound
  <2> QED
    BY <2>1, <2>2, <2>3
<1>3. ASSUME NEW p \in Command, Busy(p)', Cid(p)' = c
      PROVE  /\ pc'[c] = "idle"
             /\ job'[p].pid = IF st'[c] = "running" THEN inc'[c] ELSE 0
  <2> p \in Actor /\ p \notin Container
    BY ActorTypes
  <2>1. CASE p # a
    <3>1. pc'[p] = pc[p] /\ job'[p] = job[p]
      BY <2>1, OthersStay, KnownFacts DEF Kept
    <3>2. Busy(p) /\ Cid(p) = c
      BY <1>3, <3>1 DEF Busy, Cid
    <3> QED
      BY <1>2, <3>1, <3>2
  <2>2. CASE p = a /\ CommandNext(p)
    <3>1. job'[p] = job[p] /\ Busy(p)
      BY <2>2, CommandMoves
    <3>2. Cid(p) = c
      BY <1>3, <3>1 DEF Cid
    <3> QED
      BY <1>2, <3>1, <3>2
  <2>3. CASE p = a /\ Crash(p)
    <3>1. pc'[p] = "done"
      BY <1>1, <2>3 DEF Crash, Goto
    <3> QED
      BY <1>3, <3>1 DEF Busy
  <2>4. ASSUME p = a, NEW r \in Requests, Begin(p, r)
        PROVE  /\ pc'[c] = "idle"
               /\ job'[p].pid = IF st'[c] = "running" THEN inc'[c] ELSE 0
    <3>1. job'[p] = [req |-> r, pid |-> IF st[r.cid] = "running" THEN inc[r.cid] ELSE 0]
      BY <1>1, <2>4 DEF Begin
    <3>2. c = r.cid
      BY <1>3, <3>1 DEF Cid
    <3>3. st[c] \in {"stopped", "running"} /\ UNCHANGED <<st, inc>>
      BY <2>4, <3>2 DEF Begin, Inspectable, ctrVars
    <3>4. pc[c] = "idle" /\ pc'[c] = pc[c]
      BY <2>4, <3>3, KnownFacts, ActorTypes, OthersStay DEF HookStages, Kept
    <3> QED
      BY <3>1, <3>2, <3>3, <3>4
  <2> QED
    BY <2>1, <2>2, <2>3, <2>4 DEF StepOf
<1> QED
  BY <1>3 DEF Apart

\* Who works for another container does not work on this one.
LEMMA OthersServe ==
  ASSUME Known, NEW a \in Actor, StepOf(a), NEW c \in Container, Cid(a) # c
  PROVE  \A x \in Actor : SameWork(x) \/ (~ Serves(x, c) /\ ~ Serves(x, c)')
<1>1. a # c /\ NetTypeOK /\ pc \in [Actor -> CommandStep \cup HookStep]
  BY KnownFacts DEF Cid, NetTypeOK, NetProcessesTypeOK
<1>2. ASSUME NEW x \in Actor PROVE SameWork(x) \/ (~ Serves(x, c) /\ ~ Serves(x, c)')
  <2>1. CASE x # a
    <3>1. Kept(x) /\ NsOf(x)' = NsOf(x)
      BY <1>1, <2>1, OthersStay, NsStays
    <3> QED
      BY <3>1, ActorTypes DEF SameWork, Kept, Cid, Actor
  <2>2. CASE x = a
    <3>1. ~ Serves(a, c)
      BY DEF Serves
    <3>2. ~ Serves(a, c)'
      <4>1. CASE a \in Container
        BY <1>1, <4>1 DEF Serves, Cid
      <4>2. CASE a \in Command /\ \E r \in Requests : Begin(a, r)
        <5>1. pc'[a] = "lock" /\ a \notin Container
          BY <1>1, <4>2, ActorTypes DEF Begin, Goto
        <5> QED
          BY <5>1 DEF Serves, Locked
      <4>3. CASE a \in Command /\ ~ \E r \in Requests : Begin(a, r)
        <5>1. UNCHANGED job
          BY <4>3, CommandMoves, ActorTypes DEF StepOf, Crash
        <5> QED
          BY <5>1 DEF Serves, Cid
      <4> QED
        BY <4>1, <4>2, <4>3 DEF Actor
    <3> QED
      BY <2>2, <3>1, <3>2
  <2> QED
    BY <2>1, <2>2
<1> QED
  BY <1>2

\* A step for another container.
LEMMA OthersOwn ==
  ASSUME Known, NEW a \in Actor, StepOf(a), NEW c \in Container, Own(c), Cid(a) # c
  PROVE  Own(c)'
<1>1. a # c /\ NetTypeOK
  BY KnownFacts DEF Cid
<1>2. /\ st'[c] = st[c] /\ inc'[c] = inc[c] /\ pc'[c] = pc[c] /\ mem'[c] = mem[c]
      /\ pc \in [Actor -> CommandStep \cup HookStep]
      /\ file \in [Container -> Conf]
  BY <1>1, LifeStays, OthersStay, ActorTypes
  DEF Kept, NetTypeOK, NetContainersTypeOK, NetProcessesTypeOK
<1>3. file'[c] = file[c]
  <2>1. CASE a \in Command /\ Flush(a)
    BY <1>1, <1>2, <2>1, CidType DEF Flush, NetTypeOK
  <2> QED
    BY <2>1, LockSteps DEF LockAndLoad, Crash
<1>4. ASSUME Active(c)' PROVE Settled(c)'
  <2>1. Active(c) /\ ~ disturbed'[c]
    BY <1>1, <1>2, <1>4, MarksStay DEF Active
  <2> QED
    BY <1>2, <1>3, <2>1, OthersServe, Elsewhere, SettledStays
<1> QED
  BY <1>4, ApartKept DEF Own

\* A step of the kernel.
LEMMA GoneOwn ==
  ASSUME Known, NEW m \in Link, NamespaceGone(m), NEW c \in Container, Own(c)
  PROVE  Own(c)'
<1>1. UNCHANGED <<file, st, inc, netns, pc, job, mem, disturbed, pending>>
  BY GoneTouches, KnownFacts DEF lockVars, ctrVars, noteVars
<1>2. Active(c)' <=> Active(c)
  BY <1>1 DEF Active
<1>3. Apart(c) => Apart(c)'
  BY <1>1 DEF Apart, Busy, Cid
<1>4. \A x \in Actor : SameWork(x)
  BY <1>1 DEF SameWork, Cid, NsOf
<1>5. Active(c) => Settled(c)'
  BY <1>1, <1>4, GoneElsewhere, SettledStays
<1> QED
  BY <1>1, <1>2, <1>3, <1>5 DEF Own

-----------------------------------------------------------------------------
(***************************************************************************)
(* The nics that are due, as the drivers report                            *)
(***************************************************************************)
\* A nic that is brought in is not due yet, one that is taken out still is, and they
\* differ from the others in their names.
LEMMA WorkFacts ==
  ASSUME Known, NEW c \in Container, NEW a \in Actor, Serves(a, c),
         a \in Container => Own(c) /\ Active(c)
  PROVE  /\ pc[a] \in Creating =>
              /\ ThisNic(a) \in Nics(a) \ Due(a)
              /\ Due(a) = Nics(a) \ Left(a) /\ Distinct(Due(a) \cup {ThisNic(a)})
              /\ a \in Container => ThisNic(a) \notin mem[a].nics
         /\ pc[a] = "delete" =>
              /\ ThisNic(a) \in Due(a) \ Nics(a)
              /\ Due(a) = Nics(a) \cup {ThisNic(a)} /\ Distinct(Due(a))
         /\ pc[a] = "delhost" => Due(a) = Nics(a) /\ ThisNic(a) \notin Nics(a)
         /\ pc[a] \in {"delete", "delhost"} => a \in Command
<1>1. /\ a \in Command => a \notin Container /\ Cid(a) = c
      /\ a \in Container => a = c /\ st[c] = "creating" /\ pc[c] \notin {"delete", "delhost"}
      /\ file[c].nics \in SUBSET Nic /\ Distinct(file[c].nics)
      /\ ThisNic(a) \in Nic
  BY InCharge, ActorTypes, ThisNicType, KnownFacts
  DEF NicsDistinct, NetTypeOK, NetContainersTypeOK, Conf, Serves
<1>2. CASE a \in Command
  <2>1. Served(pc[a], mem[a], Req(a), err[a], file[c])
    BY <1>1, <1>2, KnownFacts DEF CommandInv
  <2>2. pc[a] \in Creating => Adds(mem[a], Req(a), file[c])
    BY <2>1 DEF Served, Creating
  <2>3. pc[a] \in {"delete", "delhost"} => Removes(mem[a], Req(a), file[c])
    BY <2>1 DEF Served
  <2>4. ASSUME pc[a] \in Creating
        PROVE  /\ ThisNic(a) \in Nics(a) /\ Due(a) = Nics(a) \ Left(a)
               /\ Left(a) = {ThisNic(a)} /\ Distinct(Nics(a))
    BY <1>1, <1>2, <2>2, <2>4 DEF Adds, Due, Left, Nics, ThisNic, Creating
  <2>5. ASSUME pc[a] \in Creating
        PROVE  ThisNic(a) \in Nics(a) \ Due(a) /\ Due(a) \cup {ThisNic(a)} = Nics(a)
    BY <2>4, <2>5
  <2>6. ASSUME pc[a] = "delete"
        PROVE  /\ Nics(a) = file[c].nics \ {ThisNic(a)} /\ ThisNic(a) \in file[c].nics
               /\ Left(a) = {} /\ Due(a) = (Nics(a) \ Left(a)) \cup {ThisNic(a)}
    BY <1>1, <1>2, <2>3, <2>6 DEF Removes, FindInterfaceByName, Due, Left, Nics, ThisNic, Creating
  <2>7. ASSUME pc[a] = "delete"
        PROVE  /\ ThisNic(a) \in Due(a) \ Nics(a) /\ Due(a) = file[c].nics
               /\ Due(a) = Nics(a) \cup {ThisNic(a)}
    BY <2>6, <2>7
  <2>8. ASSUME pc[a] = "delhost" PROVE Due(a) = Nics(a) /\ ThisNic(a) \notin Nics(a)
    <3>1. Nics(a) = file[c].nics \ {ThisNic(a)} /\ Left(a) = {} /\ Due(a) = (Nics(a) \ Left(a)) \cup {}
      BY <1>1, <1>2, <2>3, <2>8 DEF Removes, Due, Left, Nics, ThisNic, Creating
    <3> QED
      BY <3>1
  <2> QED
    BY <1>1, <1>2, <2>4, <2>5, <2>7, <2>8
<1>3. CASE a \in Container
  <2>1. pc[a] # "read" => HookMem(c)
    BY <1>1, <1>3 DEF Own, Settled
  <2>2. ASSUME pc[a] \in Creating
        PROVE  /\ ThisNic(a) \in Nics(a) \ mem[a].nics /\ Nics(a) = file[c].nics
               /\ Due(a) = Nics(a) \ Left(a) /\ Left(a) = mem[a].nics \cup {ThisNic(a)}
    BY <1>1, <1>3, <2>1, <2>2 DEF HookMem, Due, Left, Nics, Creating
  <2>3. ASSUME pc[a] \in Creating
        PROVE  /\ ThisNic(a) \in Nics(a) \ Due(a)
               /\ Due(a) \cup {ThisNic(a)} \in SUBSET file[c].nics
    BY <2>2, <2>3
  <2> QED
    BY <1>1, <1>3, <2>2, <2>3, FewerDistinct
<1> QED
  BY <1>2, <1>3 DEF Actor

\* What the drivers' reports make of it.
LEMMA ReportDue ==
  ASSUME Known, NEW c \in Container, NEW a \in Actor, Serves(a, c),
         a \in Container => Own(c) /\ Active(c)
  PROVE  /\ Added(a) /\ pc[a] \in Creating =>
              Due(a)' = Due(a) \cup {ThisNic(a)} /\ Carried(a)' = {} /\ pc'[a] # "joinctr"
         /\ AddFailed(a) /\ a \in Command /\ pc[a] \in Creating =>
              Due(a)' = Due(a) /\ Carried(a)' = {} /\ pc'[a] # "joinctr"
         /\ Deleted(a) /\ pc[a] \in {"delete", "delhost"} =>
              Due(a)' = Due(a) \ {ThisNic(a)} /\ Carried(a)' = {} /\ pc'[a] # "joinctr"
         /\ DeleteFailed(a) /\ pc[a] = "delete" =>
              Due(a)' = Due(a) /\ Carried(a)' = {} /\ pc'[a] # "joinctr"
<1>1. /\ pc \in [Actor -> CommandStep \cup HookStep] /\ mem \in [Actor -> Memory]
      /\ mem[a] \in Memory /\ NetTypeOK
  BY KnownFacts, ThisNicType DEF NetTypeOK, NetProcessesTypeOK
<1>2. a \in Command <=> a \notin Container
  BY ActorTypes DEF Actor
<1>3. /\ pc[a] \in Creating =>
           /\ ThisNic(a) \in Nics(a) \ Due(a) /\ Due(a) = Nics(a) \ Left(a)
           /\ a \in Container => ThisNic(a) \notin mem[a].nics
      /\ pc[a] = "delete" => Due(a) = Nics(a) \cup {ThisNic(a)} /\ ThisNic(a) \notin Nics(a)
      /\ pc[a] = "delhost" => Due(a) = Nics(a) /\ ThisNic(a) \notin Nics(a)
      /\ pc[a] \in {"delete", "delhost"} => a \in Command
  BY WorkFacts
<1>4. \A nics : SetNics(a, nics).conf.nics = nics /\ SetNics(a, nics).nics = mem[a].nics
  BY <1>1 DEF SetNics, Memory, Conf
<1>5. ASSUME Added(a), pc[a] \in Creating
      PROVE  Due(a)' = Due(a) \cup {ThisNic(a)} /\ Carried(a)' = {} /\ pc'[a] # "joinctr"
  <2>1. mem' = mem /\ pc'[a] = IF a \in Command THEN "flush" ELSE "each"
    BY <1>1, <1>5 DEF Added, Goto
  <2>2. /\ Due(a)' = Nics(a) \ (IF a \in Container THEN mem[a].nics ELSE {})
        /\ Carried(a)' = {}
    BY <1>2, <2>1 DEF Due, Left, Nics, Creating, Carried
  <2> QED
    BY <1>3, <1>5, <2>1, <2>2 DEF Left
<1>6. ASSUME AddFailed(a), a \in Command, pc[a] \in Creating
      PROVE  Due(a)' = Due(a) /\ Carried(a)' = {} /\ pc'[a] # "joinctr"
  <2>1. mem'[a] = SetNics(a, Nics(a) \ {ThisNic(a)}) /\ pc'[a] = "flush"
    BY <1>1, <1>6 DEF AddFailed, Goto, Remember, WithoutNic
  <2>2. Due(a)' = Nics(a) \ {ThisNic(a)} /\ Carried(a)' = {}
    BY <1>2, <1>4, <1>6, <2>1 DEF Due, Left, Nics, Creating, Carried
  <2> QED
    BY <1>2, <1>3, <1>6, <2>1, <2>2 DEF Left
<1>7. ASSUME Deleted(a), pc[a] \in {"delete", "delhost"}
      PROVE  Due(a)' = Due(a) \ {ThisNic(a)} /\ Carried(a)' = {} /\ pc'[a] # "joinctr"
  <2>1. mem' = mem /\ pc'[a] = "flush"
    BY <1>1, <1>3, <1>7 DEF Deleted, Goto
  <2>2. Due(a)' = Nics(a) /\ Carried(a)' = {}
    BY <1>2, <1>3, <1>7, <2>1 DEF Due, Left, Nics, Creating, Carried
  <2>3. CASE pc[a] = "delete"
    BY <1>3, <2>1, <2>2, <2>3
  <2>4. CASE pc[a] = "delhost"
    BY <1>3, <2>1, <2>2, <2>4
  <2> QED
    BY <1>7, <2>3, <2>4
<1>8. ASSUME DeleteFailed(a), pc[a] = "delete"
      PROVE  Due(a)' = Due(a) /\ Carried(a)' = {} /\ pc'[a] # "joinctr"
  <2>1. mem'[a] = SetNics(a, Nics(a) \cup {ThisNic(a)}) /\ pc'[a] = "flush"
    BY <1>1, <1>3, <1>8 DEF DeleteFailed, Goto, Remember
  <2>2. Due(a)' = Nics(a) \cup {ThisNic(a)} /\ Carried(a)' = {}
    BY <1>2, <1>3, <1>4, <1>8, <2>1 DEF Due, Left, Nics, Creating, Carried
  <2> QED
    BY <1>3, <1>8, <2>1, <2>2
<1> QED
  BY <1>5, <1>6, <1>7, <1>8

-----------------------------------------------------------------------------
(***************************************************************************)
(* What a driver does to the container it works for                        *)
(***************************************************************************)
\* To change a link that is not on the host under a name, or that is no pair's end.
LEMMA ChangeUntouched ==
  ASSUME NetTypeOK, NEW c \in Container, inc[c] \in Nat, NEW l, NEW s, Change(l, s),
         link[l].ns # HostNs \/ link[l].name = Tmp \/ ~ IsPair(l)
  PROVE  /\ Untouched(c, {l})
         /\ link[l].ns # <<c, inc[c]>> /\ s.ns # <<c, inc[c]>> => Untouched(c, {})
<1>1. /\ \A m \in Link : m # l => link'[m] = link[m]
      /\ l \in Link => link'[l] = s
  BY DEF Change, NetTypeOK, KernelTypeOK
<1>2. ASSUME NEW k \in Pair, link[<<k, "host">>].ns = HostNs, link[<<k, "host">>].name # Tmp
      PROVE  link'[<<k, "host">>] = link[<<k, "host">>]
  BY <1>1, <1>2, LinkNames
<1> QED
  BY <1>1, <1>2 DEF Untouched

\* A pair that has the name on the host is deleted; those that stand have other names.
LEMMA VictimsGo ==
  ASSUME NetTypeOK, NEW c \in Container, inc[c] \in Nat, NEW a, NEW nics \in SUBSET Nic,
         NEW k \in Pair, Fits(c, nics, {<<k, "ctr">>}),
         link[<<k, "host">>].ns = HostNs, link[<<k, "host">>].name = ThisNic(a).host,
         \A e \in nics : e.host # ThisNic(a).host,
         Delete(Victims(a))
  PROVE  Untouched(c, {<<k, "ctr">>}) /\ link'[<<k, "ctr">>] = Absent
<1> DEFINE ns == <<c, inc[c]>>
           gone == UNION {Ends(m) : m \in Victims(a)}
<1>1. /\ \A m \in Link : link'[m] = IF m \in gone THEN Absent ELSE link[m]
      /\ ns # HostNs /\ ns # Nowhere /\ HostNs # Nowhere
  BY Namespaces DEF Delete
<1>2. ASSUME NEW m \in Link, m # <<k, "ctr">>, link[m].ns = ns, NEW v \in Victims(a)
      PROVE  Ends(m) # Ends(v) \/ ~ IsPair(m)
  <2>1. PICK e \in nics : Stands(c, m, e)
    BY <1>2 DEF Fits, LinksIn
  <2>2. e \in Nic /\ e.host # ThisNic(a).host
    BY <2>1
  <2>3. CASE e.type = "eth"
    BY <2>1, <2>2, <2>3, Standing
  <2>4. CASE e.type = "veth"
    <3>1. PICK j \in Pair :
            m = <<j, "ctr">> /\ link[<<j, "host">>].ns = HostNs /\ link[<<j, "host">>].name = e.host
      BY <2>1, <2>2, <2>4, Standing
    <3>2. v # <<j, "host">> /\ v # <<j, "ctr">>
      BY <1>1, <1>2, <2>2, <3>1 DEF Victims, LinksNamed
    <3>3. Ends(m) = {<<j, "host">>, <<j, "ctr">>}
      BY <3>1, LinkNames
    <3>4. v \in Link /\ (IsPair(v) => v \in Ends(v))
      BY LinkNames DEF Victims, LinksNamed
    <3>5. ~ IsPair(v) => Ends(v) = {}
      BY DEF Ends
    <3> QED
      BY <3>2, <3>3, <3>4, <3>5
  <2> QED
    BY <2>2, <2>3, <2>4 DEF Nic, Type
<1>3. ASSUME NEW m \in Link, m # <<k, "ctr">>, link[m].ns = ns
      PROVE  \A x \in Ends(m) \cup {m} : x \notin gone
  <2>1. ASSUME NEW v \in Victims(a), NEW x \in Ends(m) \cup {m}, x \in Ends(v) PROVE FALSE
    <3>1. IsPair(x) /\ IsPair(v) /\ Ends(x) = Ends(v)
      BY <2>1, LinkNames
    <3>2. IsPair(m) /\ Ends(m) = Ends(v)
      BY <2>1, <3>1, LinkNames
    <3> QED
      BY <1>2, <1>3, <3>2
  <2> QED
    BY <2>1
<1>4. ASSUME NEW j \in Pair, link[<<j, "ctr">>].ns = ns, j # k
      PROVE  link'[<<j, "host">>] = link[<<j, "host">>]
  <2>1. /\ <<j, "ctr">> \in Link /\ <<j, "host">> \in Link /\ <<j, "ctr">> # <<k, "ctr">>
        /\ <<j, "host">> \in Ends(<<j, "ctr">>)
    BY <1>4, LinkNames
  <2> QED
    BY <1>1, <1>3, <1>4, <2>1
<1>5. link'[<<k, "ctr">>] = Absent
  <2>1. <<k, "host">> \in Victims(a) /\ <<k, "ctr">> \in Ends(<<k, "host">>) /\ <<k, "ctr">> \in Link
    BY LinkNames DEF Victims, LinksNamed
  <2> QED
    BY <1>1, <2>1
<1>6. ASSUME NEW m \in Link \ {<<k, "ctr">>}, ns \in {link[m].ns, link'[m].ns}
      PROVE  link'[m] = link[m]
  BY <1>1, <1>3, <1>6 DEF Absent
<1> QED
  BY <1>4, <1>5, <1>6 DEF Untouched

\* A driver takes routes away only.
LEMMA DriverRoutes ==
  ASSUME NEW a \in Actor, DriverStep(a)
  PROVE  rtable' \subseteq rtable
<1>1. \A l, s : Change(l, s) => rtable' \subseteq rtable
  BY DEF Change
<1>2. \A links : Delete(links) => rtable' \subseteq rtable
  BY DEF Delete
<1> QED
  BY <1>1, <1>2 DEF DriverStep, CreatePair, CreatePairFails, TakeEth, TakeEthFails, JoinHost,
     JoinHostFails, JoinCtr, JoinCtrFails, TakeBack, DeletePair, DeletePairFails, DeleteEth,
     DeleteEthFails, NameEth, NameEthFails, EthNotFound, kernelVars

\* What is due and carried after a step.
LEMMA FitsNow ==
  ASSUME NEW c \in Container, NEW a, NEW nics, NEW carried,
         Fits(c, nics, carried)', Due(a)' = nics, Carried(a)' = carried
  PROVE  Fits(c, Due(a), Carried(a))'
<1>1. \A d, y : d = nics /\ y = carried => Fits(c, d, y)'
  OBVIOUS
<1>2. \A d, y : d = Due(a)' /\ y = Carried(a)' => Fits(c, d, y)'
  BY <1>1
<1> QED
  BY <1>2

\* Nothing changes where a works, and it has the same to do.
LEMMA FitsAgain ==
  ASSUME Known, NEW c \in Container, inc'[c] = inc[c], NEW a \in Actor, Untouched(c, {}),
         Fits(c, Due(a), {}), Due(a)' = Due(a), Carried(a)' = {}
  PROVE  Fits(c, Due(a), Carried(a))'
<1>1. Due(a) \in SUBSET Nic
  BY DueType, KnownFacts
<1>2. \A d : d = Due(a) => Fits(c, d, {})'
  BY <1>1, FitsStays
<1> QED
  BY <1>2, FitsNow

-----------------------------------------------------------------------------
\* A failure is reported by a command, or it ends the start.
LEMMA FailureReported ==
  ASSUME Known, NEW a \in Actor, AddFailed(a), a \in Container => pc'[a] # "abort"
  PROVE  a \in Command
<1>1. pc \in [Actor -> CommandStep \cup HookStep]
  BY KnownFacts DEF NetTypeOK, NetProcessesTypeOK
<1>2. a \notin Command => pc'[a] = "abort"
  BY <1>1 DEF AddFailed, Goto
<1> QED
  BY <1>2 DEF Actor

\* What is marked as disturbed is.
LEMMA Disturbs ==
  ASSUME NetTypeOK, NEW c \in Container
  PROVE  /\ Disturb(c, TRUE) => disturbed'[c]
         /\ \A cs : c \in cs /\ DisturbAll(cs) => disturbed'[c]
  BY DEF Disturb, DisturbAll, NetTypeOK, NetContainersTypeOK

\* The links stay while a driver begins.
LEMMA CreateSpares ==
  ASSUME NetTypeOK, NEW c \in Container, NEW a \in Actor, Cid(a) = c, ~ disturbed'[c],
         CreatePair(a) \/ CreatePairFails(a) \/ TakeEth(a) \/ TakeEthFails(a)
  PROVE  Untouched(c, {})
<1>1. inc[c] \in Nat
  BY DEF NetTypeOK, NetContainersTypeOK
<1>2. ASSUME NEW k \in FreePairs, Make(k) PROVE Untouched(c, {})
  <2>1. /\ Ends(<<k, "host">>) = {<<k, "host">>, <<k, "ctr">>}
        /\ link[<<k, "host">>].ns = Nowhere /\ link[<<k, "ctr">>].ns = Nowhere
        /\ <<c, inc[c]>> # HostNs /\ <<c, inc[c]>> # Nowhere /\ HostNs # Nowhere
    BY <1>1, LinkNames, Namespaces DEF FreePairs
  <2>2. \A l \in Link : \/ link'[l] = link[l]
                        \/ link[l].ns = Nowhere /\ link'[l] = Moved(HostNs, Tmp)
    BY <1>2, <2>1 DEF Make
  <2> QED
    BY <2>1, <2>2, LinkNames DEF Untouched, Moved
<1>3. UNCHANGED link => Untouched(c, {})
  BY DEF Untouched
<1>4. CASE CreatePair(a)
  BY <1>2, <1>4 DEF CreatePair
<1>5. CASE CreatePairFails(a)
  BY <1>2, <1>3, <1>5, Disturbs DEF CreatePairFails
<1> QED
  BY <1>3, <1>4, <1>5 DEF TakeEth, TakeEthFails, kernelVars

LEMMA CreateFits ==
  ASSUME Known, NEW c \in Container, inc'[c] = inc[c], Own(c), Active(c), NEW a \in Actor,
         Serves(a, c), ~ disturbed'[c], a \in Container => pc'[a] # "abort",
         CreatePair(a) \/ CreatePairFails(a) \/ TakeEth(a) \/ TakeEthFails(a)
  PROVE  Fits(c, Due(a), Carried(a))' /\ RightHand(a)'
<1>1. /\ pc[a] = "create" /\ Cid(a) = c /\ Fits(c, Due(a), {}) /\ inc[c] \in Nat
      /\ pc \in [Actor -> CommandStep \cup HookStep] /\ mem \in [Actor -> Memory]
      /\ a \in Container <=> a \notin Command
  <2>1. pc[a] = "create"
    BY DEF CreatePair, CreatePairFails, TakeEth, TakeEthFails
  <2>2. Fits(c, Due(a), Carried(a)) /\ Cid(a) = c /\ inc[c] \in Nat
    BY InCharge DEF InOrder
  <2>3. Fits(c, Due(a), {})
    BY <2>1, <2>2 DEF Carried
  <2> QED
    BY <2>1, <2>2, <2>3, KnownFacts, ActorTypes DEF NetTypeOK, NetProcessesTypeOK, Actor
<1>2. Untouched(c, {})
  BY <1>1, CreateSpares, KnownFacts
<1>3. /\ Due(a)' = Due(a) /\ Carried(a)' = {} /\ pc'[a] # "joinctr"
  <2>1. CASE CreatePair(a) \/ TakeEth(a)
    <3>1. /\ pc'[a] = "joinhost"
          /\ UNCHANGED mem \/ \E l : mem'[a] = [mem[a] EXCEPT !.lnk = l]
      BY <1>1, <2>1 DEF CreatePair, TakeEth, Goto, Remember
    <3>2. mem'[a].conf = mem[a].conf /\ mem'[a].nic = mem[a].nic /\ mem'[a].nics = mem[a].nics
      BY <1>1, <3>1 DEF Memory
    <3> QED
      BY <1>1, <3>1, <3>2 DEF Due, Left, Creating, Carried, Nics, ThisNic
  <2>2. CASE CreatePairFails(a) \/ TakeEthFails(a)
    BY <1>1, <2>2, FailureReported, ReportDue DEF CreatePairFails, TakeEthFails, Creating
  <2> QED
    BY <2>1, <2>2
<1>4. Fits(c, Due(a), Carried(a))'
  BY <1>1, <1>2, <1>3, FitsAgain
<1> QED
  BY <1>3, <1>4 DEF RightHand

\* JoinAndConfigure remembers the link that it works on, and nothing else.
LEMMA JoinHostRemembers ==
  ASSUME NetTypeOK, NEW a \in Actor, JoinHost(a)
  PROVE  /\ pc[a] = "joinhost" /\ pc'[a] = "joinctr"
         /\ UNCHANGED mem \/ \E l : mem'[a] = [mem[a] EXCEPT !.lnk = l]
<1>1. CASE ThisNic(a).type = "veth"
  BY <1>1, JoinHostMoves DEF Goto, NetTypeOK, NetProcessesTypeOK
<1>2. CASE ThisNic(a).type # "veth"
  BY <1>2, JoinHostMoves DEF Goto, Remember, NetTypeOK, NetProcessesTypeOK
<1> QED
  BY <1>1, <1>2

\* The first function of JoinAndConfigure brings one link into the container.
LEMMA JoinHostBrings ==
  ASSUME Known, NEW c \in Container, inc[c] \in Nat, NEW a \in Actor, Cid(a) = c,
         NsOf(a) = <<c, inc[c]>>, NsOf(a)' = NsOf(a), ~ disturbed'[c], JoinHost(a)
  PROVE  /\ Untouched(c, {Joining(a)'}) /\ link[Joining(a)'].ns # <<c, inc[c]>>
         /\ RightHand(a)' /\ Carried(a)' = {Joining(a)'}
         /\ pc[a] = "joinhost" /\ pc'[a] = "joinctr"
<1> DEFINE n == ThisNic(a)
<1> PICK j : j = Joining(a)'
  OBVIOUS
<1>1. /\ pc[a] = "joinhost" /\ NsOf(a) # HostNs /\ n \in Nic
      /\ link \in [Link -> LinkState]
      /\ pc'[a] = "joinctr"
  <2>1. pc[a] = "joinhost" /\ pc'[a] = "joinctr"
    BY KnownFacts DEF JoinHost, Goto, NetTypeOK, NetProcessesTypeOK
  <2> QED
    BY <2>1, KnownFacts, ThisNicType, Namespaces DEF NetTypeOK, KernelTypeOK
<1>2. ThisNic(a)' = ThisNic(a) /\ Carried(a)' = {j}
  BY <1>1, KnownFacts, JoinHostMoves DEF Carried
<1>3. CASE n.type = "veth"
  <2>1. PICK k \in Pair :
          /\ mem[a].lnk = <<k, "host">>
          /\ \A l \in Ends(<<k, "host">>) : link[l] = Moved(HostNs, Tmp)
    BY <1>1, <1>3, KnownFacts DEF PairsFresh
  <2> mem' = mem
    BY <1>3, KnownFacts, JoinHostMoves
  <2>2. /\ j = <<k, "ctr">> /\ <<k, "host">> \in Link /\ <<k, "ctr">> \in Link
        /\ link[<<k, "host">>] = Moved(HostNs, Tmp) /\ link[<<k, "ctr">>] = Moved(HostNs, Tmp)
    BY <1>2, <1>3, <2>1, LinkNames DEF Joining, Peer
  <2>3. link' = [link EXCEPT ![<<k, "host">>].name = n.host, ![<<k, "host">>].up = TRUE,
                             ![<<k, "ctr">>] = Moved(NsOf(a), Tmp)]
    <3>1. Peer(mem[a].lnk) = <<k, "ctr">>
      BY <2>1 DEF Peer
    <3> QED
      BY <1>3, <2>1, <3>1, KnownFacts, JoinHostMoves
  <2>4. /\ link'[<<k, "ctr">>] = Moved(NsOf(a), Tmp)
        /\ link'[<<k, "host">>] = [ns |-> HostNs, name |-> n.host, ip |-> Empty, up |-> TRUE]
        /\ \A l \in Link : l \notin {<<k, "ctr">>, <<k, "host">>} => link'[l] = link[l]
    <3> DEFINE x == <<k, "host">>
               y == <<k, "ctr">>
    <3>1. /\ x # y /\ x \in Link /\ y \in Link /\ DOMAIN link = Link
          /\ link[x] = [ns |-> HostNs, name |-> Tmp, ip |-> Empty, up |-> FALSE]
          /\ link' = [link EXCEPT ![x].name = n.host, ![x].up = TRUE, ![y] = Moved(NsOf(a), Tmp)]
      BY <1>1, <2>2, <2>3 DEF Moved
    <3> HIDE DEF x, y, n
    <3>2. /\ link'[y] = Moved(NsOf(a), Tmp)
          /\ \A l \in Link : l \notin {y, x} => link'[l] = link[l]
      BY <3>1
    <3>3. link'[x] = [[link[x] EXCEPT !.name = n.host] EXCEPT !.up = TRUE]
      BY <3>1
    <3>4. link'[x] = [ns |-> HostNs, name |-> n.host, ip |-> Empty, up |-> TRUE]
      BY <3>1, <3>3
    <3> QED
      BY <3>2, <3>4 DEF x, y
  <2>5. Untouched(c, {j}) /\ link[j].ns # <<c, inc[c]>>
    <3>1. ASSUME NEW m \in Pair, m # k PROVE link'[<<m, "host">>] = link[<<m, "host">>]
      BY <2>4, <3>1, LinkNames
    <3>2. link[<<k, "host">>].name = Tmp /\ link[<<k, "host">>].ns = HostNs
      BY <2>2 DEF Moved
    <3>3. link'[<<k, "host">>].ns = HostNs /\ link[j].ns = HostNs
      BY <2>2, <2>4 DEF Moved
    <3> QED
      BY <1>1, <2>2, <2>4, <3>1, <3>2, <3>3 DEF Untouched
  <2>6. RightHand(a)'
    <3>1. /\ link'[Joining(a)'] = Moved(NsOf(a)', Tmp)
          /\ link'[mem'[a].lnk] =
               [ns |-> HostNs, name |-> ThisNic(a)'.host, ip |-> Empty, up |-> TRUE]
      BY <1>1, <1>2, <2>1, <2>2, <2>4
    <3> QED
      BY <1>2, <1>3, <3>1 DEF RightHand, Moved
  <2> QED
    BY <1>1, <1>2, <2>5, <2>6
<1>4. CASE n.type # "veth"
  <2>1. PICK l \in LinksNamed(HostNs, n.host) :
          /\ mem'[a].lnk = l
          /\ link' = [link EXCEPT ![l] = Moved(NsOf(a), Tmp)]
          /\ rtable' = rtable \ RoutesOver({l})
          /\ l = <<n.host, "phys">> \/ DisturbAll(Owners({l}) \cup {Cid(a)})
    BY <1>4, KnownFacts, JoinHostMoves
  <2>2. /\ j = l /\ j \in Link /\ link[j].ns = HostNs /\ Change(j, Moved(NsOf(a), Tmp))
        /\ j = mem'[a].lnk
    BY <1>2, <1>4, <2>1 DEF LinksNamed, Joining, Change
  <2>3. j = <<n.host, "phys">>
    BY <1>1, <2>1, <2>2, Disturbs, KnownFacts
  <2>4. Untouched(c, {j}) /\ link[j].ns # <<c, inc[c]>>
    BY <1>1, <2>2, <2>3, ChangeUntouched, KnownFacts DEF IsPair
  <2>5. RightHand(a)'
    BY <1>1, <1>2, <1>4, <2>2, <2>3 DEF RightHand
  <2> QED
    BY <1>1, <1>2, <2>4, <2>5
<1> QED
  BY <1>3, <1>4

LEMMA JoinHostFits ==
  ASSUME Known, NEW c \in Container, inc'[c] = inc[c], Own(c), Active(c), NEW a \in Actor,
         Serves(a, c), ~ disturbed'[c], NsOf(a)' = NsOf(a), JoinHost(a)
  PROVE  Fits(c, Due(a), Carried(a))' /\ RightHand(a)'
<1> PICK j : j = Joining(a)'
  OBVIOUS
<1>1. /\ Untouched(c, {j}) /\ link[j].ns # <<c, inc[c]>> /\ RightHand(a)' /\ Carried(a)' = {j}
      /\ pc[a] = "joinhost" /\ pc'[a] = "joinctr"
  BY InCharge, JoinHostBrings
<1>2. Fits(c, Due(a), {}) /\ Due(a)' = Due(a) /\ Due(a) \in SUBSET Nic
  <2>1. mem'[a].nics = mem[a].nics /\ mem'[a].conf = mem[a].conf
    BY JoinHostRemembers, KnownFacts DEF NetTypeOK, NetProcessesTypeOK, Memory
  <2>2. ThisNic(a)' = ThisNic(a)
    BY KnownFacts, JoinHostMoves
  <2>3. Due(a)' = Due(a)
    BY <1>1, <2>1, <2>2 DEF Due, Left, Nics, Creating
  <2> QED
    BY <1>1, <2>3, InCharge, DueType, KnownFacts DEF InOrder, Carried
<1>3. \A d, y : d = Due(a) /\ y = {j} => Fits(c, d, y)'
  BY <1>1, <1>2, NotThere, FitsStays
<1> QED
  BY <1>1, <1>2, <1>3, FitsNow

\* Its recovery.
LEMMA JoinHostFailsFits ==
  ASSUME Known, NEW c \in Container, inc'[c] = inc[c], Own(c), Active(c), NEW a \in Actor,
         Serves(a, c), a \in Container => pc'[a] # "abort", JoinHostFails(a)
  PROVE  Fits(c, Due(a), Carried(a))' /\ RightHand(a)'
<1>1. /\ pc[a] = "joinhost" /\ Cid(a) = c /\ Fits(c, Due(a), {}) /\ inc[c] \in Nat
      /\ a \in Command /\ AddFailed(a)
  <2>1. pc[a] = "joinhost" /\ AddFailed(a)
    BY DEF JoinHostFails
  <2>2. Fits(c, Due(a), Carried(a)) /\ Cid(a) = c /\ inc[c] \in Nat
    BY InCharge DEF InOrder
  <2>3. Fits(c, Due(a), {})
    BY <2>1, <2>2 DEF Carried
  <2> QED
    BY <2>1, <2>2, <2>3, FailureReported
<1>2. Untouched(c, {})
  <2>1. CASE ThisNic(a).type = "veth"
    <3>1. PICK k \in Pair :
            /\ mem[a].lnk = <<k, "host">>
            /\ \A l \in Ends(<<k, "host">>) : link[l] = Moved(HostNs, Tmp)
      BY <1>1, <2>1, KnownFacts DEF PairsFresh
    <3>2. /\ \A l \in Link : link'[l] = IF l \in Ends(<<k, "host">>) THEN Absent ELSE link[l]
          /\ <<c, inc[c]>> # HostNs /\ <<c, inc[c]>> # Nowhere /\ HostNs # Nowhere
      <4>1. Delete({<<k, "host">>}) /\ UNION {Ends(l) : l \in {<<k, "host">>}} = Ends(<<k, "host">>)
        BY <2>1, <3>1 DEF JoinHostFails
      <4> QED
        BY <1>1, <4>1, Namespaces DEF Delete
    <3> QED
      BY <3>1, <3>2, LinkNames DEF Untouched, Moved, Absent
  <2>2. CASE ThisNic(a).type # "veth"
    BY <2>2 DEF JoinHostFails, Untouched, kernelVars
  <2> QED
    BY <2>1, <2>2
<1>3. Due(a)' = Due(a) /\ Carried(a)' = {} /\ pc'[a] # "joinctr"
  BY <1>1, ReportDue DEF Creating
<1> QED
  BY <1>1, <1>2, <1>3, FitsAgain DEF RightHand

\* What a driver has in its right hand.
LEMMA InRightHand ==
  ASSUME Known, NEW a \in Actor, pc[a] = "joinctr", RightHand(a)
  PROVE  /\ ThisNic(a).type = "veth" =>
              \E k \in Pair :
                /\ mem[a].lnk = <<k, "host">> /\ Joining(a) = <<k, "ctr">> /\ Joining(a) \in Link
                /\ link[<<k, "host">>] =
                     [ns |-> HostNs, name |-> ThisNic(a).host, ip |-> Empty, up |-> TRUE]
         /\ ThisNic(a).type # "veth" =>
              /\ ThisNic(a).type = "eth" /\ Joining(a) = mem[a].lnk /\ Joining(a) \in Link
              /\ Joining(a) = <<ThisNic(a).host, "phys">>
<1>1. ASSUME ThisNic(a).type = "veth"
      PROVE  \E k \in Pair :
               /\ mem[a].lnk = <<k, "host">> /\ Joining(a) = <<k, "ctr">> /\ Joining(a) \in Link
               /\ link[<<k, "host">>] =
                    [ns |-> HostNs, name |-> ThisNic(a).host, ip |-> Empty, up |-> TRUE]
  <2>1. PICK k \in Pair : mem[a].lnk = <<k, "host">>
    BY <1>1, KnownFacts DEF PairsFresh
  <2> QED
    BY <1>1, <2>1, LinkNames DEF RightHand, Joining, Peer
<1>2. ThisNic(a) \in Nic
  BY ThisNicType, KnownFacts
<1> QED
  BY <1>1, <1>2 DEF RightHand, Joining, Nic, Type

\* The second function leaves the link as the nic asks.
LEMMA JoinCtrStands ==
  ASSUME Known, NEW c \in Container, inc[c] \in Nat, inc'[c] = inc[c], NEW a \in Actor,
         NsOf(a) = <<c, inc[c]>>, RightHand(a), JoinCtr(a)
  PROVE  /\ \A j, n : j = Joining(a) /\ n = ThisNic(a) => Stands(c, j, n)' /\ Untouched(c, {j})
         /\ Joining(a) \in Link /\ Added(a)
<1> PICK n, j : n = ThisNic(a) /\ j = Joining(a)
  OBVIOUS
<1> DEFINE ns == <<c, inc[c]>>
<1>1. /\ pc[a] = "joinctr" /\ link[j].ns = ns /\ Change(j, Configured(ns, n)) /\ Added(a)
      /\ ns # HostNs /\ NetTypeOK /\ link \in [Link -> LinkState]
  BY KnownFacts, Namespaces DEF JoinCtr, CanConfigure, NetTypeOK, KernelTypeOK
<1>2. /\ n.type = "veth" =>
           \E k \in Pair :
             /\ j = <<k, "ctr">> /\ j \in Link
             /\ link[<<k, "host">>] = [ns |-> HostNs, name |-> n.host, ip |-> Empty, up |-> TRUE]
      /\ n.type # "veth" => n.type = "eth" /\ j \in Link /\ j = <<n.host, "phys">>
  BY <1>1, InRightHand
<1>3. Untouched(c, {j}) /\ j \in Link
  BY <1>1, <1>2, ChangeUntouched
<1>4. Stands(c, j, n)'
  <2>1. link'[j] = [ns |-> ns, name |-> n.ctr, ip |-> n.ip, up |-> TRUE]
    BY <1>1, <1>3 DEF Change, Configured
  <2>2. CASE n.type = "veth"
    <3>1. PICK k \in Pair :
            /\ j = <<k, "ctr">>
            /\ link[<<k, "host">>] = [ns |-> HostNs, name |-> n.host, ip |-> Empty, up |-> TRUE]
      BY <1>2, <2>2
    <3>2. link'[<<k, "host">>] = link[<<k, "host">>]
      BY <1>1, <3>1, LinkNames DEF Change
    <3> QED
      BY <2>1, <2>2, <3>1, <3>2 DEF Stands
  <2>3. CASE n.type # "veth"
    BY <1>2, <2>1, <2>3 DEF Stands
  <2> QED
    BY <2>2, <2>3
<1> QED
  BY <1>1, <1>3, <1>4

\* The second function, or its recovery.
LEMMA JoinCtrFits ==
  ASSUME Known, NEW c \in Container, inc'[c] = inc[c], Own(c), Active(c), NEW a \in Actor,
         Serves(a, c), ~ disturbed'[c], a \in Container => pc'[a] # "abort",
         JoinCtr(a) \/ JoinCtrFails(a)
  PROVE  Fits(c, Due(a), Carried(a))' /\ RightHand(a)'
<1> PICK due, n, j : due = Due(a) /\ n = ThisNic(a) /\ j = Joining(a)
  OBVIOUS
<1> DEFINE ns == <<c, inc[c]>>
<1>1. /\ pc[a] = "joinctr" /\ Cid(a) = c /\ Fits(c, due, {j}) /\ inc[c] \in Nat
      /\ NsOf(a) = ns /\ ns # HostNs /\ ns # Nowhere /\ HostNs # Nowhere /\ n \in Nic
      /\ link \in [Link -> LinkState] /\ due \in SUBSET Nic /\ RightHand(a) /\ NetTypeOK
  <2>1. pc[a] = "joinctr"
    BY DEF JoinCtr, JoinCtrFails
  <2>2. Fits(c, Due(a), Carried(a)) /\ Cid(a) = c /\ inc[c] \in Nat /\ NsOf(a) = ns /\ RightHand(a)
    BY InCharge DEF InOrder
  <2>3. Fits(c, due, {j})
    BY <2>1, <2>2 DEF Carried
  <2> QED
    BY <2>1, <2>2, <2>3, KnownFacts, ThisNicType, Namespaces, DueType DEF NetTypeOK, KernelTypeOK
<1>2. /\ n \notin due /\ \A e \in due : e.ctr # n.ctr /\ e.host # n.host
  BY <1>1, WorkFacts DEF Distinct, Creating
<1>3. /\ n.type = "veth" =>
           \E k \in Pair :
             /\ mem[a].lnk = <<k, "host">> /\ j = <<k, "ctr">> /\ j \in Link
             /\ link[<<k, "host">>] = [ns |-> HostNs, name |-> n.host, ip |-> Empty, up |-> TRUE]
      /\ n.type # "veth" => n.type = "eth" /\ j = mem[a].lnk /\ j \in Link /\ j = <<n.host, "phys">>
  BY <1>1, InRightHand
<1>4. CASE JoinCtr(a)
  <2>1. Added(a) /\ j \in Link /\ Stands(c, j, n)' /\ Untouched(c, {j})
    BY <1>1, <1>4, JoinCtrStands
  <2>2. Fits(c, due, {j})'
    BY <1>1, <2>1, FitsStays
  <2>3. Fits(c, due \cup {n}, {})'
    BY <1>2, <2>1, <2>2, PutIn
  <2>4. Due(a)' = due \cup {n} /\ Carried(a)' = {} /\ pc'[a] # "joinctr"
    BY <1>1, <2>1, ReportDue DEF Creating
  <2> QED
    BY <2>3, <2>4, FitsNow DEF RightHand
<1>5. CASE JoinCtrFails(a)
  <2>1. AddFailed(a) /\ a \in Command
    BY <1>5, FailureReported DEF JoinCtrFails
  <2>2. Due(a)' = due /\ Carried(a)' = {} /\ pc'[a] # "joinctr"
    BY <1>1, <2>1, ReportDue DEF Creating
  <2>3. TakeBack(a) /\ (n.type = "veth" \/ link[mem[a].lnk].ns = ns)
    BY <1>1, <1>5, Disturbs DEF JoinCtrFails, Arrived
  <2>4. Untouched(c, {j}) /\ link'[j].ns # ns
    <3>1. CASE n.type = "veth"
      <4>1. PICK k \in Pair : 
              /\ j = <<k, "ctr">>
              /\ link[<<k, "host">>] = [ns |-> HostNs, name |-> n.host, ip |-> Empty, up |-> TRUE]
        BY <1>3, <3>1
      <4>2. Delete(Victims(a)) /\ link[<<k, "host">>].ns = HostNs /\ link[<<k, "host">>].name = n.host
        BY <2>3, <3>1, <4>1 DEF TakeBack
      <4>3. Untouched(c, {j}) /\ link'[j] = Absent
        BY <1>1, <1>2, <4>1, <4>2, VictimsGo
      <4> QED
        BY <1>1, <4>3 DEF Absent
    <3>2. CASE n.type # "veth"
      <4>1. \E s : Change(j, s) /\ s.ns = HostNs
        BY <1>3, <2>3, <3>2 DEF TakeBack, Moved
      <4> QED
        BY <1>1, <1>3, <2>3, <3>2, <4>1, ChangeUntouched DEF Change
    <3> QED
      BY <3>1, <3>2
  <2>5. Fits(c, due, {j})'
    BY <1>1, <2>4, FitsStays
  <2>6. Fits(c, due, {})'
    BY <2>4, <2>5, NoMoreThere
  <2> QED
    BY <2>2, <2>6, FitsNow DEF RightHand
<1> QED
  BY <1>4, <1>5

\* DeleteIf.
LEMMA DeleteFits ==
  ASSUME Known, NEW c \in Container, inc'[c] = inc[c], Own(c), Active(c), NEW a \in Actor,
         Serves(a, c), ~ disturbed'[c],
         \/ DeletePair(a) \/ DeletePairFails(a) \/ DeleteEth(a) \/ DeleteEthFails(a)
  PROVE  Fits(c, Due(a), Carried(a))' /\ RightHand(a)'
<1> PICK due, n : due = Due(a) /\ n = ThisNic(a)
  OBVIOUS
<1> DEFINE ns == <<c, inc[c]>>
<1>1. /\ pc[a] = "delete" /\ Cid(a) = c /\ Fits(c, due, {}) /\ inc[c] \in Nat
      /\ NsOf(a) = ns /\ ns # HostNs /\ ns # Nowhere /\ HostNs # Nowhere /\ n \in Nic
      /\ due \in SUBSET Nic /\ NetTypeOK /\ CanEnter(a)
      /\ link \in [Link -> LinkState]
      /\ mem \in [Actor -> Memory] /\ pc \in [Actor -> CommandStep \cup HookStep]
  <2>1. pc[a] = "delete"
    BY DEF DeletePair, DeletePairFails, DeleteEth, DeleteEthFails
  <2>2. Fits(c, Due(a), Carried(a)) /\ Cid(a) = c /\ inc[c] \in Nat /\ NsOf(a) = ns /\ CanEnter(a)
    BY InCharge DEF InOrder
  <2>3. Fits(c, due, {})
    BY <2>1, <2>2 DEF Carried
  <2> QED
    BY <2>1, <2>2, <2>3, KnownFacts, ThisNicType, Namespaces, DueType
    DEF NetTypeOK, KernelTypeOK, NetProcessesTypeOK
<1>2. /\ n \in due \ Nics(a) /\ due = Nics(a) \cup {n} /\ Distinct(due) /\ a \in Command
      /\ a \notin Container
  BY <1>1, WorkFacts, ActorTypes
<1>3. PICK l \in Link : Stands(c, l, n) /\ Fits(c, due \ {n}, {l}) /\ link[l].ns = ns
  <2>1. PICK l \in Link : Stands(c, l, n) /\ link[l].ns = ns
    BY <1>1, <1>2 DEF Fits, LinksIn
  <2>2. link[l].name = n.ctr
    BY <1>1, <2>1, Standing
  <2> QED
    BY <1>1, <1>2, <2>1, <2>2, TakeOut
<1>4. \A e \in due \ {n} : e.host # n.host
  BY <1>2 DEF Distinct
<1>5. ASSUME Untouched(c, {l}), link'[l].ns # ns PROVE Fits(c, due \ {n}, {})'
  <2>1. due \ {n} \in SUBSET Nic
    BY <1>1
  <2> QED
    BY <1>3, <1>5, <2>1, FitsStays, NoMoreThere
<1>6. CASE DeletePair(a)
  <2>1. n.type = "veth" /\ Delete(Victims(a)) /\ Deleted(a)
    BY <1>6 DEF DeletePair
  <2>2. PICK k \in Pair :
          l = <<k, "ctr">> /\ link[<<k, "host">>].ns = HostNs /\ link[<<k, "host">>].name = n.host
    BY <1>1, <1>3, <2>1, Standing
  <2>3. Untouched(c, {l}) /\ link'[l] = Absent
    <3>1. due \ {n} \in SUBSET Nic
      BY <1>1
    <3> QED
      BY <1>1, <1>3, <1>4, <2>1, <2>2, <3>1, VictimsGo
  <2>4. Fits(c, due \ {n}, {})'
    BY <1>1, <1>5, <2>3 DEF Absent
  <2>5. Due(a)' = due \ {n} /\ Carried(a)' = {} /\ pc'[a] # "joinctr"
    BY <1>1, <2>1, ReportDue
  <2> QED
    BY <2>4, <2>5, FitsNow DEF RightHand
<1>7. CASE DeletePairFails(a)
  <2>1. DeleteFailed(a) /\ Untouched(c, {})
    BY <1>7 DEF DeletePairFails, Untouched, kernelVars
  <2>2. Due(a)' = Due(a) /\ Carried(a)' = {} /\ pc'[a] # "joinctr"
    BY <1>1, <2>1, ReportDue
  <2> QED
    BY <1>1, <2>1, <2>2, FitsAgain DEF RightHand
<1>8. CASE DeleteEth(a)
  <2>1. n.type = "eth" /\ l \in LinksNamed(NsOf(a), n.ctr)
    BY <1>1, <1>3, <1>8, Standing DEF DeleteEth, LinksNamed
  <2>2. PICK m \in Link : /\ link[m].ns = ns /\ link[m].name = n.ctr /\ Change(m, Moved(HostNs, Tmp))
                          /\ Remember(a, [mem[a] EXCEPT !.lnk = m]) /\ Goto(a, "delhost")
    BY <1>1, <1>8, <2>1 DEF DeleteEth, LinksNamed
  <2>3. Fits(c, due \ {n}, {m})
    BY <1>1, <1>2, <2>2, TakeOut
  <2>4. Untouched(c, {m}) /\ link'[m] = Moved(HostNs, Tmp)
    BY <1>1, <2>2, ChangeUntouched DEF Change
  <2>5. Fits(c, due \ {n}, {})'
    <3>1. link'[m].ns # <<c, inc'[c]>>
      BY <1>1, <2>4 DEF Moved
    <3> QED
      <4>1. due \ {n} \in SUBSET Nic
        BY <1>1
      <4> QED
        BY <2>3, <2>4, <3>1, <4>1, FitsStays, NoMoreThere
  <2>6. pc'[a] = "delhost" /\ mem'[a] = [mem[a] EXCEPT !.lnk = m]
    BY <1>1, <2>2 DEF Goto, Remember
  <2>7. Nics(a)' = Nics(a)
    BY <1>1, <2>6 DEF Nics, Memory
  <2>8. Due(a)' = (Nics(a)' \ {}) \cup {} /\ Carried(a)' = {}
    BY <1>2, <2>6 DEF Due, Left, Creating, Carried
  <2>9. Due(a)' = due \ {n}
    BY <1>2, <2>7, <2>8
  <2> QED
    BY <2>5, <2>6, <2>8, <2>9, FitsNow DEF RightHand
<1>9. CASE DeleteEthFails(a)
  <2>1. DeleteFailed(a) /\ Untouched(c, {})
    <3>1. UNCHANGED link
      BY <1>1, <1>9, Disturbs DEF DeleteEthFails, kernelVars
    <3> QED
      BY <1>9, <3>1 DEF DeleteEthFails, Untouched
  <2>2. Due(a)' = Due(a) /\ Carried(a)' = {} /\ pc'[a] # "joinctr"
    BY <1>1, <2>1, ReportDue
  <2> QED
    BY <1>1, <2>1, <2>2, FitsAgain DEF RightHand
<1> QED
  BY <1>6, <1>7, <1>8, <1>9

\* Its second function.
LEMMA DelHostFits ==
  ASSUME Known, NEW c \in Container, inc'[c] = inc[c], Own(c), Active(c), NEW a \in Actor,
         Serves(a, c), ~ disturbed'[c],
         NameEth(a) \/ NameEthFails(a) \/ EthNotFound(a)
  PROVE  Fits(c, Due(a), Carried(a))' /\ RightHand(a)'
<1>1. /\ pc[a] = "delhost" /\ Cid(a) = c /\ Fits(c, Due(a), {}) /\ inc[c] \in Nat
      /\ NetTypeOK /\ NameEth(a)
  <2>1. pc[a] = "delhost"
    BY DEF NameEth, NameEthFails, EthNotFound
  <2>2. Fits(c, Due(a), Carried(a)) /\ Cid(a) = c /\ inc[c] \in Nat
    BY InCharge DEF InOrder
  <2>3. Fits(c, Due(a), {})
    BY <2>1, <2>2 DEF Carried
  <2>4. NameEth(a)
    BY <2>2, KnownFacts, Disturbs DEF NameEthFails, EthNotFound
  <2> QED
    BY <2>1, <2>2, <2>3, <2>4, KnownFacts
<1>2. Due(a)' = Due(a) /\ Carried(a)' = {} /\ pc'[a] # "joinctr"
  <2>1. Due(a) = Nics(a) /\ ThisNic(a) \notin Nics(a)
    BY <1>1, WorkFacts
  <2>2. Due(a)' = Due(a) \ {ThisNic(a)} /\ Carried(a)' = {} /\ pc'[a] # "joinctr"
    BY <1>1, ReportDue DEF NameEth
  <2> QED
    BY <2>1, <2>2
<1>3. Untouched(c, {})
  <2>1. CASE mem[a].lnk \in Link
    <3>1. InHand(a, mem[a].lnk) /\ link[mem[a].lnk].ns = HostNs /\ Place(a) = HostNs
      BY <1>1 DEF InHand, NameEth, Arrived, Place
    <3>2. link[mem[a].lnk].name = Tmp
      <4>1. link[mem[a].lnk] = Moved(HostNs, Tmp) \/ link[mem[a].lnk] = Absent
        BY <2>1, <3>1, KnownFacts DEF CarriedAlone
      <4> QED
        BY <4>1 DEF Moved, Absent
    <3>3. /\ \E s : Change(mem[a].lnk, s) /\ s.ns = HostNs
          /\ <<c, inc[c]>> # HostNs
      BY <1>1, Namespaces DEF NameEth, Moved
    <3> QED
      BY <1>1, <3>1, <3>2, <3>3, ChangeUntouched
  <2>2. CASE mem[a].lnk \notin Link
    <3>1. \A l \in Link : link'[l] = link[l]
      BY <1>1, <2>2 DEF NameEth, Change, NetTypeOK, KernelTypeOK
    <3> QED
      BY <3>1, LinkNames DEF Untouched
  <2> QED
    BY <2>1, <2>2
<1> QED
  BY <1>1, <1>2, <1>3, FitsAgain DEF RightHand

-----------------------------------------------------------------------------
(***************************************************************************)
(* A step of who works on the container                                    *)
(***************************************************************************)
\* The others do not begin to work on it.
LEMMA WorkerOwn ==
  ASSUME Known, NEW c \in Container, NEW a \in Actor, StepOf(a), Own(c),
         \A x \in Actor : Serves(x, c) /\ ~ disturbed'[c] => x = a,
         Active(c)' => /\ st'[c] = "creating" => HookMem(c)'
                       /\ Serves(a, c)' => InOrder(a)'
                       /\ ~ Serves(a, c)' => AtRest(c)'
  PROVE  Own(c)'
<1>1. ASSUME NEW x \in Actor, x # a, Serves(x, c)' PROVE Serves(x, c)
  <2>1. Kept(x)
    BY <1>1, OthersStay, KnownFacts
  <2> QED
    BY <1>1, <2>1 DEF Kept, Serves, Cid, Actor
<1>2. ASSUME Active(c)' PROVE Settled(c)'
  <2>1. \A x \in Actor : Serves(x, c)' => x = a
    BY <1>1, <1>2 DEF Active
  <2> QED
    BY <1>2, <2>1 DEF Settled
<1> QED
  BY <1>2, ApartKept DEF Own

\* What a step of a driver leaves as it is.
LEMMA DriverFrame ==
  ASSUME NetTypeOK, NEW a \in Actor, DriverStep(a)
  PROVE  /\ UNCHANGED <<file, st, inc, netns, job, pending>>
         /\ Cid(a)' = Cid(a) /\ NsOf(a)' = NsOf(a)
         /\ DueRoutes(a)' = DueRoutes(a)
         /\ pc'[a] \in {"joinhost", "joinctr", "delhost", "abort", "flush", "each"}
         /\ pc'[a] = "flush" => a \in Command
         /\ pc'[a] \in {"abort", "each"} => a \in Container
         /\ a \in Container => /\ mem'[a].conf = mem[a].conf /\ mem'[a].nics = mem[a].nics
                               /\ mem'[a].routes = mem[a].routes /\ mem'[a].nic = mem[a].nic
<1>1. /\ mem \in [Actor -> Memory] /\ mem[a] \in Memory
      /\ pc \in [Actor -> CommandStep \cup HookStep]
      /\ \A l : Goto(a, l) => pc'[a] = l
      /\ \A m : Remember(a, m) => mem'[a] = m
      /\ a \in Command <=> a \notin Container
  BY Reads, ThisNicType, ActorTypes DEF NetTypeOK, NetProcessesTypeOK, Actor
<1>2. UNCHANGED <<file, st, inc, netns, job, pending>>
  BY DEF DriverStep, CreatePair, CreatePairFails, TakeEth, TakeEthFails, JoinHost, JoinHostFails,
     JoinCtr, JoinCtrFails, DeletePair, DeletePairFails, DeleteEth, DeleteEthFails, NameEth,
     NameEthFails, EthNotFound, lockVars, ctrVars, noteVars
<1>3. \/ UNCHANGED mem
      \/ \E l : mem'[a] = [mem[a] EXCEPT !.lnk = l]
      \/ a \in Command /\ \E nics : mem'[a] = SetNics(a, nics)
  BY <1>1 DEF DriverStep, CreatePair, CreatePairFails, TakeEth, TakeEthFails, JoinHost,
     JoinHostFails, JoinCtr, JoinCtrFails, DeletePair, DeletePairFails, DeleteEth,
     DeleteEthFails, NameEth, NameEthFails, EthNotFound, Added, AddFailed, Deleted,
     DeleteFailed
<1>4. /\ pc'[a] \in {"joinhost", "joinctr", "delhost", "abort", "flush", "each"}
      /\ pc'[a] = "flush" => a \in Command
      /\ pc'[a] \in {"abort", "each"} => a \in Container
  BY <1>1 DEF DriverStep, CreatePair, CreatePairFails, TakeEth, TakeEthFails, JoinHost,
     JoinHostFails, JoinCtr, JoinCtrFails, DeletePair, DeletePairFails, DeleteEth,
     DeleteEthFails, NameEth, NameEthFails, EthNotFound, Added, AddFailed, Deleted,
     DeleteFailed
<1>5. /\ mem'[a].conf.routes = mem[a].conf.routes
      /\ a \in Container => /\ mem'[a].conf = mem[a].conf /\ mem'[a].nics = mem[a].nics
                            /\ mem'[a].routes = mem[a].routes /\ mem'[a].nic = mem[a].nic
  <2>1. \A nics : SetNics(a, nics).conf.routes = mem[a].conf.routes
    BY <1>1 DEF SetNics, Memory, Conf
  <2>2. \A l : LET m == [mem[a] EXCEPT !.lnk = l]
               IN  /\ m.conf = mem[a].conf /\ m.nics = mem[a].nics /\ m.routes = mem[a].routes
                   /\ m.nic = mem[a].nic
    BY <1>1 DEF Memory
  <2> QED
    BY <1>1, <1>3, <2>1, <2>2
<1> QED
  BY <1>1, <1>2, <1>4, <1>5 DEF Cid, NsOf, DueRoutes, Routes

LEMMA DriverOwn ==
  ASSUME Known, NEW c \in Container, NEW a \in Actor, StepOf(a), Own(c), Cid(a) = c, DriverStep(a)
  PROVE  Own(c)'
<1>1. /\ UNCHANGED <<file, st, inc, netns, job, pending>>
      /\ Cid(a)' = c /\ NsOf(a)' = NsOf(a)
      /\ DueRoutes(a)' = DueRoutes(a)
      /\ pc'[a] \in {"joinhost", "joinctr", "delhost", "abort", "flush", "each"}
      /\ pc'[a] = "flush" => a \in Command
      /\ pc'[a] \in {"abort", "each"} => a \in Container
      /\ a \in Container => /\ mem'[a].conf = mem[a].conf /\ mem'[a].nics = mem[a].nics
                            /\ mem'[a].routes = mem[a].routes /\ mem'[a].nic = mem[a].nic
                            /\ a = c /\ a \notin Command
      /\ a \in Command => a \notin Container
      /\ pc[a] \in {"create", "joinhost", "joinctr", "delete", "delhost"}
  BY DriverFrame, DriverMoves, KnownFacts, ActorTypes DEF Cid
<1>2. Serves(a, c) /\ Serves(a, c)'
  BY <1>1 DEF Serves, Locked, CommandStep, Actor
<1>3. ~ disturbed'[c] => ~ disturbed[c] /\ Apart(c)
  BY MarksStay, KnownFacts DEF Own
<1>4. ASSUME Active(c)' PROVE Active(c) /\ ~ disturbed'[c] /\ (a \in Container => pc'[a] # "abort")
  <2>1. ~ disturbed'[c] /\ ~ disturbed[c]
    BY <1>3, <1>4 DEF Active
  <2>2. CASE a = c
    <3>1. pc[c] # "idle" /\ c \in Container
      BY <1>1, <2>2
    <3>2. st[c] = "creating"
      BY <1>1, <1>4, <3>1, KnownFacts DEF Active, HookStages
    <3> QED
      BY <1>1, <1>4, <2>1, <2>2, <3>2 DEF Active
  <2>3. CASE a # c
    <3>1. pc'[c] = pc[c] /\ a \notin Container
      BY <1>1, <2>3, OthersStay, ActorTypes, KnownFacts DEF Kept
    <3> QED
      BY <1>1, <1>4, <2>1, <3>1 DEF Active
  <2> QED
    BY <2>2, <2>3
<1>5. ASSUME Active(c)' PROVE InOrder(a)'
  <2>1. Active(c) /\ ~ disturbed'[c] /\ (a \in Container => pc'[a] # "abort") /\ inc'[c] = inc[c]
    BY <1>1, <1>4, <1>5
  <2>2. Fits(c, Due(a), Carried(a))' /\ RightHand(a)'
    BY <1>1, <1>2, <2>1, CreateFits, JoinHostFits, JoinHostFailsFits, JoinCtrFits, DeleteFits,
       DelHostFits DEF DriverStep
  <2>3. PICK routes : routes = DueRoutes(a)
    OBVIOUS
  <2>4. Covered(c, routes)'
    <3>1. Covered(c, routes)
      BY <1>2, <2>1, <2>3, InCharge DEF InOrder
    <3>2. rtable' \subseteq rtable
      BY DriverRoutes
    <3> QED
      BY <2>1, <3>1, <3>2, CoveredStays
  <2>5. \A r : r = DueRoutes(a)' => Covered(c, r)'
    BY <1>1, <2>3, <2>4
  <2> QED
    BY <1>1, <2>2, <2>5 DEF InOrder
<1>6. ASSUME Active(c)', st'[c] = "creating" PROVE HookMem(c)'
  <2>1. Active(c) /\ st[c] = "creating"
    BY <1>1, <1>4, <1>6
  <2>2. a = c /\ a \in Container /\ HookMem(c)
    BY <1>1, <1>2, <2>1, InCharge DEF Own, Settled, Actor
  <2>3. pc'[c] \in {"joinhost", "joinctr", "each"} /\ pc[c] \in Creating
    <3>1. pc[c] \notin {"delete", "delhost"}
      BY <2>1, KnownFacts DEF HookStages
    <3>2. pc'[c] # "abort"
      BY <1>4, <1>6, <2>2
    <3>3. pc'[c] # "delhost"
      <4>1. pc'[a] = "delhost" => DeleteEth(a)
        BY MovingSteps, KnownFacts
      <4> QED
        BY <2>2, <3>1, <4>1 DEF DeleteEth
    <3>4. pc'[c] # "flush"
      BY <1>1, <2>2
    <3> QED
      BY <1>1, <2>2, <3>1, <3>2, <3>3, <3>4 DEF Creating
  <2>4. Nics(c)' = Nics(c) /\ Routes(c)' = Routes(c) /\ ThisNic(c)' = ThisNic(c)
    BY <1>1, <2>2 DEF Nics, Routes, ThisNic
  <2>5. /\ mem[c].conf = file[c]
        /\ mem[c].nics \subseteq Nics(c) /\ mem[c].routes \subseteq Routes(c)
        /\ ThisNic(c) \in Nics(c) \ mem[c].nics /\ mem[c].routes = Routes(c)
    BY <2>2, <2>3 DEF HookMem, Creating
  <2> QED
    BY <1>1, <2>2, <2>3, <2>4, <2>5 DEF HookMem, Creating
<1> QED
  BY <1>2, <1>3, <1>5, <1>6, OnlyWorker, WorkerOwn

-----------------------------------------------------------------------------
(***************************************************************************)
(* The commands                                                            *)
(***************************************************************************)
\* A command that works on an active container, and goes on to.
LEMMA CommandOwn ==
  ASSUME Known, NEW c \in Container, NEW p \in Command, CommandNext(p), Own(c), Serves(p, c),
         Active(c) /\ Active(c)' =>
           \/ pc'[p] \in Locked /\ InOrder(p)'
           \/ pc'[p] \notin Locked /\ AtRest(c)'
  PROVE  Own(c)'
<1>1. p \in Actor /\ p # c /\ p \notin Container /\ StepOf(p) /\ Cid(p) = c /\ Cid(p)' = c
  BY ActorTypes, CommandMoves DEF StepOf, Serves, Cid
<1>2. UNCHANGED ctrVars /\ pc'[c] = pc[c] /\ mem'[c] = mem[c]
  <2>1. c \in Actor
    BY ActorTypes
  <2> QED
    BY <1>1, <2>1, CommandMoves, OthersStay, KnownFacts DEF Kept
<1>3. Active(c)' => Active(c) /\ st[c] = "running"
  <2>1. ASSUME Active(c)' PROVE Active(c)
    BY <1>1, <1>2, <2>1, MarksStay, KnownFacts DEF Active, ctrVars
  <2> QED
    BY <1>1, <2>1, InCharge
<1>4. Serves(p, c)' <=> pc'[p] \in Locked
  BY <1>1 DEF Serves
<1>5. \A x \in Actor : Serves(x, c) /\ ~ disturbed'[c] => x = p
  BY <1>1, MarksStay, OnlyWorker, KnownFacts DEF Own
<1>6. st'[c] = st[c]
  BY <1>2 DEF ctrVars
<1> QED
  BY <1>1, <1>3, <1>4, <1>5, <1>6, WorkerOwn

\* What a command has in memory when it is at none of the drivers' steps.
LEMMA CommandDue ==
  ASSUME NEW p \in Command
  PROVE  /\ pc[p] \notin Creating \cup {"delete"} => Due(p) = Nics(p)
         /\ pc[p] # "joinctr" => Carried(p) = {} /\ RightHand(p)
         /\ DueRoutes(p) = Routes(p)
<1>1. p \notin Container
  BY ActorTypes
<1>2. pc[p] \notin Creating \cup {"delete"} => Due(p) = (Nics(p) \ {}) \cup {}
  BY <1>1 DEF Due, Left
<1> QED
  BY <1>1, <1>2 DEF Carried, RightHand, DueRoutes

LEMMA CommandDueNow ==
  ASSUME NEW p \in Command
  PROVE  /\ pc'[p] \notin Creating \cup {"delete"} => Due(p)' = Nics(p)'
         /\ pc'[p] # "joinctr" => Carried(p)' = {} /\ RightHand(p)'
         /\ DueRoutes(p)' = Routes(p)'
<1>1. p \notin Container
  BY ActorTypes
<1>2. pc'[p] \notin Creating \cup {"delete"} => Due(p)' = (Nics(p)' \ {}) \cup {}
  BY <1>1 DEF Due, Left
<1> QED
  BY <1>1, <1>2 DEF Carried, RightHand, DueRoutes

\* It has in order what fits and covers.
LEMMA NowInOrder ==
  ASSUME NEW c \in Container, NEW p \in Command, Cid(p)' = c, pc'[p] # "joinctr",
         NEW due, NEW routes, Fits(c, due, {})', Covered(c, routes)',
         Due(p)' = due, Routes(p)' = routes
  PROVE  InOrder(p)'
<1>1. Carried(p)' = {} /\ RightHand(p)' /\ DueRoutes(p)' = routes
  BY CommandDueNow
<1>2. Fits(c, Due(p), Carried(p))'
  BY <1>1, FitsNow
<1>3. \A r : r = DueRoutes(p)' => Covered(c, r)'
  BY <1>1
<1> QED
  BY <1>1, <1>2, <1>3 DEF InOrder

\* A command that works on an active container.
LEMMA AtWork ==
  ASSUME Known, NEW c \in Container, Own(c), Active(c), NEW p \in Command, Serves(p, c),
         pc[p] \notin Creating \cup {"delete"}
  PROVE  /\ NsOf(p) = <<c, inc[c]>> /\ inc[c] \in Nat /\ st[c] = "running" /\ CanEnter(p)
         /\ Alive(p) /\ Cid(p) = c /\ (Applies(p) <=> ~ Req(p).only)
         /\ Fits(c, Nics(p), {}) /\ Covered(c, Routes(p)) /\ Nics(p) \in SUBSET Nic
         /\ Served(pc[p], mem[p], Req(p), err[p], file[c])
         /\ NsOf(p) # HostNs /\ NsOf(p) # Nowhere
<1>1. p \in Actor
  BY ActorTypes
<1>2. InOrder(p) /\ NsOf(p) = <<c, inc[c]>> /\ inc[c] \in Nat /\ st[c] = "running" /\ CanEnter(p)
      /\ Alive(p) /\ Cid(p) = c
  BY <1>1, InCharge
<1>3. Due(p) = Nics(p) /\ Carried(p) = {} /\ DueRoutes(p) = Routes(p)
  BY CommandDue DEF Creating
<1>4. Fits(c, Nics(p), {}) /\ Covered(c, Routes(p))
  BY <1>2, <1>3 DEF InOrder
<1>5. Nics(p) \in SUBSET Nic
  BY <1>1, <1>3, DueType, KnownFacts
<1> QED
  BY <1>2, <1>4, <1>5, KnownFacts, Namespaces DEF CommandInv, Applies

\* Nothing changes in the kernel, and what is due is what was.
LEMMA SameDue ==
  ASSUME Known, NEW c \in Container, Own(c), Active(c), NEW p \in Command, CommandNext(p),
         Serves(p, c), pc[p] \notin Creating \cup {"delete"}, pc'[p] # "joinctr",
         Untouched(c, {}), rtable' \subseteq rtable, Due(p)' = Nics(p), Routes(p)' = Routes(p)
  PROVE  InOrder(p)'
<1>1. p \in Actor /\ StepOf(p) /\ Cid(p)' = c /\ inc'[c] = inc[c]
  BY ActorTypes, CommandMoves DEF StepOf, Serves, Cid, ctrVars
<1>2. PICK due, routes : due = Nics(p) /\ routes = Routes(p)
  OBVIOUS
<1>3. Fits(c, due, {}) /\ Covered(c, routes) /\ due \in SUBSET Nic
  BY <1>2, AtWork
<1>4. Fits(c, due, {})'
  BY <1>1, <1>3, FitsStays
<1>5. Covered(c, routes)'
  BY <1>1, <1>3, CoveredStays
<1> QED
  BY <1>1, <1>2, <1>4, <1>5, NowInOrder

-----------------------------------------------------------------------------
\* A change that the next start brings about ends the agreement until then.
LEMMA Postponed ==
  ASSUME NetTypeOK, NEW c \in Container, Postpone(c, TRUE)
  PROVE  pending'[c]
  BY DEF Postpone, NetTypeOK, NetContainersTypeOK

\* A container that goes on to be active has nothing to wait for.
LEMMA NotPending ==
  ASSUME NEW c \in Container, Active(c)', UNCHANGED st, st[c] = "running"
  PROVE  ~ pending'[c] /\ ~ disturbed'[c]
  BY DEF Active

\* The steps that take up the nic of the request.
LEMMA NicCommandOwn ==
  ASSUME Known, NEW c \in Container, NEW p \in Command, CommandNext(p), Own(c), Serves(p, c),
         AddNic(p) \/ DelNic(p) \/ UpdateNic(p)
  PROVE  Own(c)'
<1> SUFFICES ASSUME Active(c), Active(c)' PROVE pc'[p] \in Locked /\ InOrder(p)'
  BY CommandOwn
<1>1. /\ pc[p] = "begin" /\ UNCHANGED <<link, rtable, st, inc>>
      /\ pc[p] \notin Creating \cup {"delete"}
  BY DEF AddNic, DelNic, UpdateNic, kernelVars, ctrVars, Creating
<1>2. /\ mem[p] \in Memory /\ NetTypeOK /\ p \in Actor /\ p \notin Container
      /\ \A l : Goto(p, l) => pc'[p] = l
      /\ \A m : Remember(p, m) => mem'[p] = m
      /\ Req(p) \in Request
  BY KnownFacts, CommandCid, Reads
<1>3. /\ Cid(p) = c /\ Alive(p) /\ (Applies(p) <=> ~ Req(p).only) /\ Nics(p) \in SUBSET Nic
      /\ ~ pending'[c] /\ Req(p).only \in BOOLEAN
  BY <1>1, <1>2, AtWork, NotPending DEF Request
<1>4. Untouched(c, {}) /\ rtable' \subseteq rtable
  BY <1>1 DEF Untouched
<1>5. ASSUME Postpone(c, Req(p).only) PROVE Applies(p)
  <2>1. Req(p).only => Postpone(c, TRUE)
    BY <1>5
  <2> QED
    BY <1>2, <1>3, <2>1, Postponed
<1>6. ASSUME pc'[p] \in Locked \ {"joinctr"}, Due(p)' = Nics(p), Routes(p)' = Routes(p)
      PROVE  pc'[p] \in Locked /\ InOrder(p)'
  BY <1>1, <1>4, <1>6, SameDue
<1>7. ASSUME NEW failed, GiveUp(p, failed)
      PROVE  pc'[p] \in Locked \ {"joinctr"} /\ Due(p)' = Nics(p) /\ Routes(p)' = Routes(p)
  <2>1. pc'[p] = "flush" /\ mem' = mem
    BY <1>2, <1>7 DEF GiveUp
  <2> QED
    BY <2>1, CommandDueNow DEF Nics, Routes, Creating, Locked, CommandStep
<1>8. CASE AddNic(p)
  <2>1. ASSUME ~ \E failed : GiveUp(p, failed)
        PROVE  pc'[p] \in Locked \ {"joinctr"} /\ Due(p)' = Nics(p) /\ Routes(p)' = Routes(p)
    <3> PICK n : n = Req(p).nic
      OBVIOUS
    <3>1. /\ ~ IsConflictInterface(Nics(p), n) /\ Postpone(Cid(p), Req(p).only)
          /\ Remember(p, [SetNics(p, Nics(p) \cup {n}) EXCEPT !.nic = n])
          /\ Goto(p, IF Applies(p) THEN "create" ELSE "flush")
      BY <1>8, <2>1 DEF AddNic
    <3>2. pc'[p] = "create" /\ mem'[p] = [SetNics(p, Nics(p) \cup {n}) EXCEPT !.nic = n]
      BY <1>2, <1>3, <1>5, <3>1
    <3>3. Nics(p)' = Nics(p) \cup {n} /\ ThisNic(p)' = n /\ Routes(p)' = Routes(p)
      BY <1>2, <3>2 DEF SetNics, Nics, ThisNic, Routes, Memory, Conf
    <3>4. n \notin Nics(p)
      BY <3>1 DEF IsConflictInterface, IsConflictNic
    <3>5. Due(p)' = (Nics(p)' \ ({} \cup {ThisNic(p)'})) \cup {}
      BY <1>2, <3>2 DEF Due, Left, Creating
    <3> QED
      BY <3>2, <3>3, <3>4, <3>5 DEF Locked, CommandStep
  <2> QED
    BY <1>6, <1>7, <2>1
<1>9. CASE DelNic(p)
  <2>1. ASSUME ~ \E failed : GiveUp(p, failed)
        PROVE  pc'[p] \in Locked \ {"joinctr"} /\ Due(p)' = Nics(p) /\ Routes(p)' = Routes(p)
    <3>1. PICK n \in FindInterfaceByName(Nics(p), Req(p).nic) :
            /\ Remember(p, [SetNics(p, WithoutNic(Nics(p), n)) EXCEPT !.nic = n])
            /\ Goto(p, IF Alive(p) THEN "delete" ELSE "flush")
      BY <1>9, <2>1 DEF DelNic
    <3>2. /\ pc'[p] = "delete" /\ n \in Nics(p)
          /\ mem'[p] = [SetNics(p, Nics(p) \ {n}) EXCEPT !.nic = n]
      BY <1>2, <1>3, <3>1 DEF WithoutNic, FindInterfaceByName
    <3>3. Nics(p)' = Nics(p) \ {n} /\ ThisNic(p)' = n /\ Routes(p)' = Routes(p)
      BY <1>2, <3>2 DEF SetNics, Nics, ThisNic, Routes, Memory, Conf
    <3>4. Due(p)' = (Nics(p)' \ {}) \cup {ThisNic(p)'}
      BY <1>2, <3>2 DEF Due, Left, Creating
    <3> QED
      BY <3>2, <3>3, <3>4 DEF Locked, CommandStep
  <2> QED
    BY <1>6, <1>7, <2>1
<1>10. CASE UpdateNic(p)
  <2>1. ASSUME ~ \E failed : GiveUp(p, failed)
        PROVE  pc'[p] \in Locked \ {"joinctr"} /\ Due(p)' = Nics(p) /\ Routes(p)' = Routes(p)
    <3>1. PICK old \in Old(p) :
            IF Applies(p)
            THEN /\ Remember(p, [mem[p] EXCEPT !.nic = Merged(old, Req(p).nic)])
                 /\ Goto(p, IF Merged(old, Req(p).nic).type = "veth" THEN "confhost" ELSE "confctr")
            ELSE Postpone(Cid(p), Req(p).only)
      BY <1>10, <2>1 DEF UpdateNic
    <3>2. Applies(p)
      BY <1>3, <1>5, <3>1
    <3>3. PICK new : new = Merged(old, Req(p).nic)
      OBVIOUS
    <3>4. pc'[p] \in {"confhost", "confctr"} /\ mem'[p] = [mem[p] EXCEPT !.nic = new]
      BY <1>2, <3>1, <3>2, <3>3
    <3>5. Nics(p)' = Nics(p) /\ Routes(p)' = Routes(p)
      BY <1>2, <3>4 DEF Nics, Routes, Memory, Conf
    <3> QED
      BY <3>4, <3>5, CommandDueNow DEF Creating, Locked, CommandStep
  <2> QED
    BY <1>6, <1>7, <2>1
<1> QED
  BY <1>8, <1>9, <1>10

\* The steps that change nothing in the kernel.
LEMMA RouteRefusalOwn ==
  ASSUME Known, NEW c \in Container, NEW p \in Command, CommandNext(p), Own(c), Serves(p, c),
         \/ \E r \in mem[p].routes : RefuseRoute(p, r) \/ AddRouteFails(p, r) \/ TakePattern(p, r)
         \/ \E r \in mem[p].matching : DelRouteFails(p, r)
         \/ RoutesDone(p)
  PROVE  Own(c)'
<1> SUFFICES ASSUME Active(c), Active(c)' PROVE pc'[p] \in Locked /\ InOrder(p)'
  BY CommandOwn
<1>1. /\ mem[p] \in Memory /\ p \in Actor
      /\ \A l : Goto(p, l) => pc'[p] = l
      /\ \A m : Remember(p, m) => mem'[p] = m
  BY KnownFacts, CommandCid, Reads
<1>2. /\ pc[p] = "routes" /\ pc'[p] \in {"routes", "flush"}
      /\ UNCHANGED <<link, rtable>>
  BY <1>1 DEF RefuseRoute, AddRouteFails, TakePattern, DelRouteFails, RoutesDone, kernelVars
<1>3. Nics(p)' = Nics(p) /\ Routes(p)' = Routes(p)
  <2>1. CASE \E r \in mem[p].routes : RefuseRoute(p, r)
    BY <2>1 DEF RefuseRoute, Nics, Routes
  <2>2. ASSUME NEW r, AddRouteFails(p, r) \/ DelRouteFails(p, r)
        PROVE  Nics(p)' = Nics(p) /\ Routes(p)' = Routes(p)
    <3>1. \/ mem'[p] = SetRoutes(p, Routes(p))
          \/ mem'[p] = [SetRoutes(p, Routes(p)) EXCEPT !.matching = @ \ {r}]
      BY <1>1, <2>2 DEF AddRouteFails, DelRouteFails
    <3> PICK m : m = SetRoutes(p, Routes(p))
      OBVIOUS
    <3>2. m.conf.nics = Nics(p) /\ m.conf.routes = Routes(p)
      BY <1>1, SetFields, KnownFacts
    <3>3. [m EXCEPT !.matching = @ \ {r}].conf = m.conf
      BY <1>1 DEF SetRoutes, Memory
    <3> QED
      BY <3>1, <3>2, <3>3 DEF Nics, Routes
  <2>3. ASSUME NEW r, TakePattern(p, r) PROVE Nics(p)' = Nics(p) /\ Routes(p)' = Routes(p)
    <3>1. \E x, y : mem'[p] = [mem[p] EXCEPT !.routes = x, !.matching = y]
      BY <1>1, <2>3 DEF TakePattern
    <3> QED
      BY <1>1, <3>1 DEF Nics, Routes, Memory, Conf
  <2>4. CASE RoutesDone(p)
    BY <2>4 DEF RoutesDone, Nics, Routes
  <2> QED
    BY <2>1, <2>2, <2>3, <2>4
<1>4. Untouched(c, {})
  BY <1>2 DEF Untouched
<1>5. Due(p)' = Nics(p)
  BY <1>2, <1>3, CommandDueNow DEF Creating
<1>6. pc'[p] \in Locked
  BY <1>2 DEF Locked, CommandStep
<1> QED
  BY <1>2, <1>3, <1>4, <1>5, <1>6, SameDue DEF Creating

\* update-nic, on the host: what is in the container is left alone.
LEMMA ConfigureHostSpares ==
  ASSUME NetTypeOK, NEW c \in Container, NEW p \in Command, Cid(p) = c, ~ disturbed'[c],
         ConfigureHost(p) \/ ConfigureHostFails(p)
  PROVE  Untouched(c, {})
<1>1. inc[c] \in Nat /\ <<c, inc[c]>> # HostNs /\ link \in [Link -> LinkState]
  BY Namespaces DEF NetTypeOK, NetContainersTypeOK, KernelTypeOK
<1>2. \A l \in Link : \/ link'[l] = link[l]
                      \/ link[l].ns = HostNs /\ link'[l] = [link[l] EXCEPT !.up = TRUE]
  <2>1. CASE ConfigureHost(p)
    BY <2>1 DEF ConfigureHost, LinksNamed
  <2>2. CASE ConfigureHostFails(p) /\ ~ UNCHANGED link
    <3>1. PICK up \in BOOLEAN :
            /\ link' = [l \in Link |-> IF l \in LinksNamed(HostNs, ThisNic(p).host)
                                       THEN [link[l] EXCEPT !.up = up] ELSE link[l]]
            /\ up \/ \E cs : c \in cs /\ DisturbAll(cs)
      BY <2>2 DEF ConfigureHostFails
    <3>2. up
      BY <3>1, Disturbs
    <3> QED
      BY <3>1, <3>2 DEF LinksNamed
  <2> QED
    BY <2>1, <2>2
<1>3. Untouched(c, {})
  <2>1. \A l \in Link : \/ link'[l] = link[l]
                        \/ link[l].ns = HostNs /\ link'[l].ns = HostNs /\ (link[l].up => link'[l] = link[l])
    <3>1. \A s \in LinkState : /\ [s EXCEPT !.up = TRUE].ns = s.ns
                               /\ s.up => [s EXCEPT !.up = TRUE] = s
      BY DEF LinkState
    <3> QED
      BY <1>1, <1>2, <3>1
  <2> QED
    BY <1>1, <2>1, LinkNames DEF Untouched
<1> QED
  BY <1>3

\* update-nic, on the host.
LEMMA ConfigureHostOwn ==
  ASSUME Known, NEW c \in Container, NEW p \in Command, CommandNext(p), Own(c), Serves(p, c),
         ConfigureHost(p) \/ ConfigureHostFails(p)
  PROVE  Own(c)'
<1> SUFFICES ASSUME Active(c), Active(c)' PROVE pc'[p] \in Locked /\ InOrder(p)'
  BY CommandOwn
<1>1. /\ p \in Actor
      /\ \A l : Goto(p, l) => pc'[p] = l
      /\ NetTypeOK /\ link \in [Link -> LinkState]
  BY KnownFacts, CommandCid, Reads DEF NetTypeOK, KernelTypeOK
<1>2. /\ pc[p] = "confhost" /\ pc'[p] \in {"confctr", "flush"}
      /\ UNCHANGED <<mem, rtable, st, inc>>
  BY <1>1 DEF ConfigureHost, ConfigureHostFails, UpdateFailed, kernelVars, ctrVars
<1>3. Cid(p) = c /\ inc[c] \in Nat /\ <<c, inc[c]>> # HostNs /\ ~ disturbed'[c]
  BY <1>2, AtWork, Namespaces, NotPending DEF Creating
<1>5. Untouched(c, {})
  BY <1>1, <1>3, ConfigureHostSpares
<1>6. Due(p)' = Nics(p) /\ Routes(p)' = Routes(p)
  BY <1>2, CommandDueNow DEF Creating, Nics, Routes
<1>7. pc'[p] \in Locked
  BY <1>2 DEF Locked, CommandStep
<1> QED
  BY <1>2, <1>5, <1>6, <1>7, SameDue DEF Creating

\* update-nic, in the container: the interface of the old nic becomes that of the new.
LEMMA ConfigureCtrOwn ==
  ASSUME Known, NEW c \in Container, NEW p \in Command, CommandNext(p), Own(c), Serves(p, c),
         ConfigureCtr(p) \/ ConfigureCtrFails(p)
  PROVE  Own(c)'
<1> SUFFICES ASSUME Active(c), Active(c)' PROVE pc'[p] \in Locked /\ InOrder(p)'
  BY CommandOwn
<1> DEFINE ns == <<c, inc[c]>>
<1>1. /\ p \in Actor /\ StepOf(p)
      /\ \A l : Goto(p, l) => pc'[p] = l
      /\ \A m : Remember(p, m) => mem'[p] = m
      /\ NetTypeOK /\ link \in [Link -> LinkState] /\ ThisNic(p) \in Nic
      /\ Req(p).nic \in NicArg
  BY KnownFacts, CommandCid, Reads, ThisNicType DEF NetTypeOK, KernelTypeOK, StepOf
<1>2. /\ pc[p] = "confctr" /\ pc'[p] = "flush" /\ UNCHANGED <<st, inc>>
  BY <1>1 DEF ConfigureCtr, ConfigureCtrFails, UpdateFailed, ctrVars
<1>3. /\ Cid(p) = c /\ inc[c] \in Nat /\ ns # HostNs /\ ~ disturbed'[c] /\ CanReach(p)
      /\ NsOf(p) = ns /\ Fits(c, Nics(p), {}) /\ Covered(c, Routes(p))
      /\ Nics(p) \in SUBSET Nic /\ Served("confctr", mem[p], Req(p), err[p], file[c])
  BY <1>2, AtWork, Namespaces, NotPending DEF Creating, CanReach
<1>4. CASE ConfigureCtrFails(p)
  <2>1. UNCHANGED kernelVars /\ mem' = mem
    BY <1>1, <1>3, <1>4, Disturbs DEF ConfigureCtrFails, UpdateFailed
  <2>2. Untouched(c, {})
    BY <2>1 DEF Untouched, kernelVars
  <2>3. Due(p)' = Nics(p) /\ Routes(p)' = Routes(p)
    BY <1>2, <2>1, CommandDueNow DEF Creating, Nics, Routes
  <2>4. pc'[p] \in Locked
    BY <1>2 DEF Locked, CommandStep
  <2> QED
    BY <1>2, <2>1, <2>2, <2>3, <2>4, SameDue DEF Creating, kernelVars
<1>5. CASE ConfigureCtr(p)
  <2>1. PICK old \in Nics(p) :
          /\ old.ctr = Req(p).nic.ctr /\ ThisNic(p) = Merged(old, Req(p).nic)
          /\ ~ IsConflictInterface(Nics(p) \ {old}, ThisNic(p))
    BY <1>3 DEF Served, Updates, Nics, ThisNic
  <2>2. PICK new, nics, routes :
          new = ThisNic(p) /\ nics = Nics(p) \ {old} /\ routes = Routes(p)
    OBVIOUS
  <2>3. /\ new \in Nic /\ old \in Nic /\ nics \in SUBSET Nic
        /\ new.ctr = old.ctr /\ new.host = old.host /\ new.type = old.type
        /\ \A e \in nics : e.ctr # new.ctr
    <3>1. new \in Nic /\ old \in Nic /\ nics \in SUBSET Nic
      BY <1>1, <1>3, <2>1, <2>2
    <3>2. new.ctr = old.ctr /\ new.host = old.host /\ new.type = old.type
      BY <2>1, <2>2, <3>1 DEF Merged, Nic
    <3>3. \A e \in nics : e.ctr # new.ctr
      BY <2>1, <2>2 DEF IsConflictInterface, IsConflictNic
    <3> QED
      BY <3>1, <3>2, <3>3
  <2>4. Distinct(Nics(p))
    <3>1. Nics(p) = file[c].nics
      BY <1>3 DEF Served, Nics
    <3> QED
      BY <3>1, KnownFacts DEF NicsDistinct
  <2>5. Old(p) = {old}
    <3>1. Old(p) = {e \in Nics(p) : e.ctr = Req(p).nic.ctr}
      BY <1>1, <1>3, OldByName DEF Old
    <3>2. \A e \in Nics(p) : e.ctr = old.ctr => e = old
      BY <2>1, <2>4 DEF Distinct
    <3> QED
      BY <2>1, <3>1, <3>2
  <2>6. PICK l \in Link :
          /\ link[l].ns = ns /\ link[l].name = new.ctr
          /\ Change(l, [link[l] EXCEPT !.ip = new.ip, !.up = @ \/ new.type = "veth"])
    BY <1>3, <1>5, <2>2 DEF ConfigureCtr, LinksNamed
  <2>7. Stands(c, l, old) /\ Fits(c, nics, {l})
    BY <1>1, <1>3, <2>1, <2>2, <2>3, <2>4, <2>6, TakeOut
  <2>8. Untouched(c, {l})
    BY <1>1, <1>3, <2>6, ChangeUntouched
  <2>9. link'[l] = [ns |-> ns, name |-> new.ctr, ip |-> new.ip, up |-> TRUE]
    <3>1. link[l] = [ns |-> ns, name |-> new.ctr, ip |-> old.ip, up |-> TRUE]
      BY <2>3, <2>7 DEF Stands
    <3>2. link'[l] = [link[l] EXCEPT !.ip = new.ip, !.up = link[l].up \/ new.type = "veth"]
      BY <1>1, <2>6 DEF Change
    <3>3. (link[l].up \/ new.type = "veth") = TRUE
      BY <3>1
    <3>4. link'[l] = [link[l] EXCEPT !.ip = new.ip, !.up = TRUE]
      BY <3>2, <3>3
    <3>5. link'[l] = [[ns |-> ns, name |-> new.ctr, ip |-> old.ip, up |-> TRUE]
                        EXCEPT !.ip = new.ip, !.up = TRUE]
      BY <3>1, <3>4
    <3> HIDE DEF ns
    <3> QED
      BY <3>5
  <2>10. Stands(c, l, new)'
    <3>1. CASE new.type = "eth"
      BY <1>2, <2>3, <2>7, <2>9, <3>1 DEF Stands
    <3>2. CASE new.type # "eth"
      <4>1. PICK k \in Pair :
              /\ l = <<k, "ctr">>
              /\ link[<<k, "host">>] = [ns |-> HostNs, name |-> new.host, ip |-> Empty, up |-> TRUE]
        BY <2>3, <2>7, <3>2 DEF Stands
      <4>2. link'[<<k, "host">>] = link[<<k, "host">>]
        BY <1>1, <2>6, <4>1, LinkNames DEF Change
      <4> QED
        BY <1>2, <2>9, <3>2, <4>1, <4>2 DEF Stands
    <3> QED
      BY <3>1, <3>2
  <2>11. Fits(c, nics, {l})'
    BY <1>2, <2>3, <2>7, <2>8, FitsStays
  <2>12. Fits(c, nics \cup {new}, {})'
    BY <2>3, <2>10, <2>11, PutIn
  <2>13. Covered(c, routes)'
    <3>1. rtable' \subseteq rtable /\ inc'[c] = inc[c] /\ Covered(c, routes)
      BY <1>2, <1>3, <2>2, <2>6 DEF Change
    <3> QED
      BY <1>1, <3>1, CoveredStays
  <2>14. mem'[p] = SetNics(p, nics \cup {new})
    BY <1>1, <1>5, <2>2, <2>5 DEF ConfigureCtr, Updated
  <2>15. Nics(p)' = nics \cup {new} /\ Routes(p)' = routes
    BY <1>1, <2>2, <2>14, SetFields DEF Nics, Routes
  <2>16. Due(p)' = nics \cup {new} /\ Cid(p)' = c
    BY <1>2, <1>3, <2>15, CommandDueNow, CommandMoves DEF Creating, Cid
  <2>17. InOrder(p)'
    BY <1>2, <2>12, <2>13, <2>15, <2>16, NowInOrder
  <2> QED
    BY <1>2, <2>17 DEF Locked, CommandStep
<1> QED
  BY <1>4, <1>5

\* add-route and remove-route.
LEMMA AddRouteOwn ==
  ASSUME Known, NEW c \in Container, NEW p \in Command, CommandNext(p), Own(c), Serves(p, c),
         NEW r \in mem[p].routes, AddRoute(p, r)
  PROVE  Own(c)'
<1> SUFFICES ASSUME Active(c), Active(c)' PROVE pc'[p] \in Locked /\ InOrder(p)'
  BY CommandOwn
<1> DEFINE ns == <<c, inc[c]>>
<1>1. /\ p \in Actor /\ NetTypeOK /\ mem[p] \in Memory
      /\ \A m : Remember(p, m) => mem'[p] = m
      /\ Req(p) \in Request
  BY KnownFacts, CommandCid, Reads
<1>2. pc[p] = "routes" /\ pc'[p] = "routes" /\ UNCHANGED <<link, st, inc, pc>>
  BY DEF AddRoute, ctrVars
<1>3. /\ Cid(p) = c /\ inc[c] \in Nat /\ NsOf(p) = ns /\ Fits(c, Nics(p), {})
      /\ Covered(c, Routes(p)) /\ Nics(p) \in SUBSET Nic /\ (Applies(p) <=> ~ Req(p).only)
      /\ Req(p).only \in BOOLEAN /\ Cid(p)' = c
  BY <1>1, <1>2, AtWork, CommandMoves DEF Creating, Request, Cid
<1>4. Applies(p)
  <2>1. Req(p).only => Postpone(c, TRUE)
    BY <1>3 DEF AddRoute
  <2> QED
    BY <1>1, <1>2, <1>3, <2>1, Postponed, NotPending, AtWork DEF Creating
<1>5. PICK l \in RouteLinks(ns, r) :
        rtable' = rtable \cup {[ns |-> ns, dest |-> KernelDest(r.dest), gw |-> r.gw, lnk |-> l]}
  BY <1>3, <1>4 DEF AddRoute, RouteAdd
<1>6. PICK nics, routes : nics = Nics(p) /\ routes = Routes(p) \cup {r}
  OBVIOUS
<1>7. Covered(c, routes)'
  <2>1. ASSUME NEW k \in rtable', k.ns = ns PROVE \E e \in routes : Covers(e, k)'
    <3>1. CASE k \in rtable
      BY <1>2, <1>3, <1>6, <2>1, <3>1 DEF Covered, Covers
    <3>2. CASE k \notin rtable
      <4>1. k = [ns |-> ns, dest |-> KernelDest(r.dest), gw |-> r.gw, lnk |-> l]
        BY <1>5, <2>1, <3>2
      <4>2. r.dev \in {link'[l].name, Empty}
        BY <1>2, <1>5 DEF RouteLinks
      <4>3. Covers(r, k)'
        BY <4>1, <4>2 DEF Covers
      <4> QED
        BY <1>6, <4>3
    <3> QED
      BY <3>1, <3>2
  <2> QED
    BY <1>2, <2>1 DEF Covered
<1>8. Fits(c, nics, {})'
  <2>1. Untouched(c, {})
    BY <1>2 DEF Untouched
  <2> QED
    BY <1>2, <1>3, <1>6, <2>1, FitsStays
<1>9. Nics(p)' = nics /\ Routes(p)' = routes
  <2> PICK m : m = SetRoutes(p, Routes(p) \cup {r})
    OBVIOUS
  <2>1. mem'[p] = [m EXCEPT !.routes = @ \ {r}]
    BY <1>1 DEF AddRoute
  <2>2. m.conf.nics = Nics(p) /\ m.conf.routes = routes
    BY <1>1, <1>6, SetFields
  <2>3. [m EXCEPT !.routes = @ \ {r}].conf = m.conf
    BY <1>1 DEF SetRoutes, Memory
  <2> QED
    BY <1>6, <2>1, <2>2, <2>3 DEF Nics, Routes
<1>10. Due(p)' = nics
  BY <1>2, <1>9, CommandDueNow DEF Creating
<1>11. InOrder(p)'
  BY <1>2, <1>3, <1>7, <1>8, <1>9, <1>10, NowInOrder
<1> QED
  BY <1>2, <1>11 DEF Locked, CommandStep

LEMMA DelRouteOwn ==
  ASSUME Known, NEW c \in Container, NEW p \in Command, CommandNext(p), Own(c), Serves(p, c),
         NEW r \in mem[p].matching, DelRoute(p, r)
  PROVE  Own(c)'
<1> SUFFICES ASSUME Active(c), Active(c)' PROVE pc'[p] \in Locked /\ InOrder(p)'
  BY CommandOwn
<1> DEFINE ns == <<c, inc[c]>>
<1>1. /\ p \in Actor /\ NetTypeOK /\ mem[p] \in Memory
      /\ \A m : Remember(p, m) => mem'[p] = m
      /\ Req(p) \in Request
  BY KnownFacts, CommandCid, Reads
<1>2. pc[p] = "routes" /\ pc'[p] = "routes" /\ UNCHANGED <<link, st, inc, pc>>
  BY DEF DelRoute, ctrVars
<1>3. /\ Cid(p) = c /\ inc[c] \in Nat /\ NsOf(p) = ns /\ Fits(c, Nics(p), {})
      /\ Covered(c, Routes(p)) /\ Nics(p) \in SUBSET Nic /\ (Applies(p) <=> ~ Req(p).only)
      /\ Req(p).only \in BOOLEAN /\ Cid(p)' = c
  BY <1>1, <1>2, AtWork, CommandMoves DEF Creating, Request, Cid
<1>4. Applies(p)
  <2>1. Req(p).only => Postpone(c, TRUE)
    BY <1>3 DEF DelRoute
  <2> QED
    BY <1>1, <1>2, <1>3, <2>1, Postponed, NotPending, AtWork DEF Creating
<1>5. \/ RoutesMeant(ns, r) = {} /\ UNCHANGED rtable
      \/ \E k \in RoutesMeant(ns, r) : rtable' = rtable \ {k}
  BY <1>3, <1>4 DEF DelRoute
<1>6. PICK nics, routes : nics = Nics(p) /\ routes = Routes(p) \ {r}
  OBVIOUS
<1>7. Covered(c, routes)'
  <2>1. ASSUME NEW k \in rtable', k.ns = ns PROVE \E e \in routes : Covers(e, k)'
    <3>1. k \in rtable
      BY <1>5, <2>1
    <3>2. PICK e \in Routes(p) : Covers(e, k)
      BY <1>3, <2>1, <3>1 DEF Covered
    <3>3. Covers(e, k)'
      BY <1>2, <3>2 DEF Covers
    <3>4. e # r
      <4>1. ASSUME e = r PROVE FALSE
        <5>1. k \in RoutesMeant(ns, r) /\ k.dest = KernelDest(r.dest)
          BY <2>1, <3>1, <3>2, <4>1 DEF Covers, RoutesMeant
        <5>2. \A m \in RoutesMeant(ns, r) : m = k
          BY <2>1, <3>1, <5>1, KnownFacts DEF RoutesMeant, RoutesPlaced
        <5> QED
          BY <1>5, <2>1, <5>1, <5>2
      <4> QED
        BY <4>1
    <3> QED
      BY <1>6, <3>2, <3>3, <3>4
  <2> QED
    BY <1>2, <2>1 DEF Covered
<1>8. Fits(c, nics, {})'
  <2>1. Untouched(c, {})
    BY <1>2 DEF Untouched
  <2> QED
    BY <1>2, <1>3, <1>6, <2>1, FitsStays
<1>9. Nics(p)' = nics /\ Routes(p)' = routes
  <2> PICK m : m = SetRoutes(p, Routes(p) \ {r})
    OBVIOUS
  <2>1. mem'[p] = [m EXCEPT !.matching = @ \ {r}]
    BY <1>1 DEF DelRoute, WithoutRoute
  <2>2. m.conf.nics = Nics(p) /\ m.conf.routes = routes
    BY <1>1, <1>6, SetFields
  <2>3. [m EXCEPT !.matching = @ \ {r}].conf = m.conf
    BY <1>1 DEF SetRoutes, Memory
  <2> QED
    BY <1>6, <2>1, <2>2, <2>3 DEF Nics, Routes
<1>10. Due(p)' = nics
  BY <1>2, <1>9, CommandDueNow DEF Creating
<1>11. InOrder(p)'
  BY <1>2, <1>3, <1>7, <1>8, <1>9, <1>10, NowInOrder
<1> QED
  BY <1>2, <1>11 DEF Locked, CommandStep

\* The deferred Flush: the file is what the command has in memory.
LEMMA FlushOwn ==
  ASSUME Known, NEW c \in Container, NEW p \in Command, CommandNext(p), Own(c), Serves(p, c),
         Flush(p)
  PROVE  Own(c)'
<1> SUFFICES ASSUME Active(c), Active(c)' PROVE pc'[p] \notin Locked /\ AtRest(c)'
  BY CommandOwn
<1>1. /\ p \in Actor /\ StepOf(p) /\ NetTypeOK
      /\ \A l : Goto(p, l) => pc'[p] = l
      /\ file \in [Container -> Conf] /\ mem[p] \in Memory
  BY KnownFacts, CommandCid, Reads DEF StepOf, NetTypeOK, NetContainersTypeOK
<1>2. pc[p] = "flush" /\ pc'[p] = "done" /\ UNCHANGED <<link, rtable, inc>>
  BY <1>1 DEF Flush, kernelVars, ctrVars
<1>3. /\ Cid(p) = c /\ Fits(c, Nics(p), {}) /\ Covered(c, Routes(p)) /\ Nics(p) \in SUBSET Nic
      /\ Served("flush", mem[p], Req(p), err[p], file[c])
  BY <1>2, AtWork DEF Creating
<1>4. file'[c] = mem[p].conf
  BY <1>1, <1>3 DEF Flush, Served, Writes
<1>5. PICK nics, routes : nics = Nics(p) /\ routes = Routes(p)
  OBVIOUS
<1>6. Fits(c, nics, {})' /\ Covered(c, routes)'
  <2>1. Untouched(c, {}) /\ rtable' \subseteq rtable
    BY <1>2 DEF Untouched
  <2> QED
    BY <1>1, <1>2, <1>3, <1>5, <2>1, FitsStays, CoveredStays
<1>7. \A n, r : n = file'[c].nics /\ r = file'[c].routes => Fits(c, n, {})' /\ Covered(c, r)'
  BY <1>4, <1>5, <1>6 DEF Nics, Routes
<1> QED
  BY <1>2, <1>7 DEF Locked, AtRest

\* The load under the lock: nobody else works on the container.
LEMMA LoadOwn ==
  ASSUME Known, NEW c \in Container, NEW p \in Command, Own(c), Cid(p) = c, LockAndLoad(p)
  PROVE  Own(c)'
<1>1. /\ p \in Actor /\ p # c /\ p \notin Container /\ CommandNext(p) /\ StepOf(p) /\ NetTypeOK
      /\ \A l : Goto(p, l) => pc'[p] = l
      /\ \A m : Remember(p, m) => mem'[p] = m
      /\ file \in [Container -> Conf] /\ file[c] \in Conf /\ c \in Actor
  BY KnownFacts, CommandCid, Reads, ActorTypes
  DEF StepOf, NetTypeOK, NetContainersTypeOK, CommandNext
<1>2. /\ pc[p] = "lock" /\ pc'[p] \in {"routes", "begin"} /\ flock[c] = NoOne
      /\ UNCHANGED <<link, rtable, file, st, inc, job>>
      /\ mem'[p] = [NoMemory EXCEPT !.conf = file[c], !.routes = Req(p).routes]
  BY <1>1 DEF LockAndLoad, CanLock, kernelVars, ctrVars
<1>3. Cid(p)' = c
  BY <1>2 DEF Cid
<1>4. ~ disturbed'[c] => ~ disturbed[c] /\ pc[c] = "idle"
  BY <1>1, <1>2, MarksStay, KnownFacts DEF Own, Apart, Busy
<1>5. \A x \in Actor : Serves(x, c) => x \in Container /\ pc[c] # "idle"
  <2>1. ASSUME NEW x \in Actor, Serves(x, c), x \notin Container PROVE FALSE
    <3>1. x \in Command /\ pc[x] \in Locked /\ Cid(x) = c
      BY <2>1 DEF Serves, Actor
    <3>2. flock[c] = x
      BY <3>1, KnownFacts DEF CommandInv
    <3> QED
      BY <1>2, <3>1, <3>2, NetActorsAssumption DEF Actor
  <2> QED
    BY <2>1 DEF Serves, Cid
<1>6. ASSUME Active(c)' PROVE st'[c] # "creating" /\ InOrder(p)' /\ Serves(p, c)'
  <2>1. pc'[c] = pc[c]
    BY <1>1, OthersStay DEF Kept
  <2>2. Active(c) /\ st[c] = "running" /\ ~ disturbed'[c]
    BY <1>1, <1>2, <1>4, <1>6, <2>1, MarksStay, KnownFacts DEF Active, HookStages
  <2>3. AtRest(c)
    BY <1>4, <1>5, <2>2 DEF Own, Settled
  <2>4. PICK nics, routes : nics = file[c].nics /\ routes = file[c].routes
    OBVIOUS
  <2>5. Fits(c, nics, {})' /\ Covered(c, routes)'
    <3>1. Untouched(c, {}) /\ rtable' \subseteq rtable /\ inc'[c] = inc[c] /\ nics \in SUBSET Nic
      BY <1>1, <1>2, <2>4 DEF Untouched, Conf
    <3> QED
      BY <1>1, <2>3, <2>4, <3>1, FitsStays, CoveredStays DEF AtRest
  <2>6. Nics(p)' = nics /\ Routes(p)' = routes
    BY <1>2, <2>4 DEF NoMemory, Nics, Routes
  <2>7. Due(p)' = nics
    BY <1>2, <2>6, CommandDueNow DEF Creating
  <2>8. InOrder(p)'
    BY <1>2, <1>3, <2>5, <2>6, <2>7, NowInOrder
  <2>9. Serves(p, c)'
    BY <1>1, <1>2, <1>3 DEF Serves, Locked, CommandStep
  <2> QED
    BY <1>2, <2>2, <2>8, <2>9
<1> QED
  BY <1>1, <1>4, <1>5, <1>6, WorkerOwn

\* A command that begins does not work on the container yet.
LEMMA BeginOwn ==
  ASSUME Known, NEW c \in Container, NEW p \in Command, Own(c), NEW r \in Requests, Begin(p, r)
  PROVE  Own(c)'
<1>1. p \in Actor /\ p # c /\ p \notin Container /\ StepOf(p) /\ NetTypeOK /\ c \in Actor
  BY KnownFacts, ActorTypes DEF StepOf
<1>2. /\ pc[p] = "idle" /\ pc'[p] = "lock"
      /\ UNCHANGED <<link, rtable, file, st, inc, mem, disturbed, pending>>
  BY <1>1, Reads DEF Begin, kernelVars, ctrVars, lockVars, noteVars
<1>3. pc'[c] = pc[c]
  BY <1>1, OthersStay DEF Kept
<1>4. ASSUME Active(c) PROVE Settled(c)'
  <2>1. Untouched(c, {})
    BY <1>2 DEF Untouched
  <2>2. ASSUME NEW x \in Actor PROVE SameWork(x) \/ (~ Serves(x, c) /\ ~ Serves(x, c)')
    <3>1. CASE x = p
      BY <1>1, <1>2, <3>1 DEF Serves, Locked
    <3>2. CASE x # p
      <4>1. Kept(x) /\ NsOf(x)' = NsOf(x)
        BY <1>1, <3>2, OthersStay, NsStays
      <4> QED
        BY <4>1, ActorTypes DEF SameWork, Kept, Cid, Actor
    <3> QED
      BY <3>1, <3>2
  <2> QED
    BY <1>2, <1>3, <1>4, <2>1, <2>2, SettledStays
<1>5. Active(c)' => Active(c)
  BY <1>2, <1>3 DEF Active
<1> QED
  BY <1>1, <1>4, <1>5, ApartKept DEF Own

\* Every step of a command on c.
LEMMA CommandsOwn ==
  ASSUME Known, NEW c \in Container, NEW p \in Command, CommandNext(p), Own(c), Cid(p) = c
  PROVE  Own(c)'
<1>1. p \in Actor /\ StepOf(p) /\ p \notin Container
  BY ActorTypes DEF StepOf
<1>2. pc[p] \in Locked => Serves(p, c)
  BY <1>1 DEF Serves
<1>3. CASE LockAndLoad(p)
  BY <1>3, LoadOwn
<1>4. CASE DriverStep(p)
  BY <1>1, <1>4, DriverOwn
<1>5. CASE AddNic(p) \/ DelNic(p) \/ UpdateNic(p)
  <2>1. pc[p] \in Locked
    BY <1>5 DEF AddNic, DelNic, UpdateNic, Locked, CommandStep
  <2> QED
    BY <1>2, <1>5, <2>1, NicCommandOwn
<1>6. CASE ConfigureHost(p) \/ ConfigureHostFails(p)
  <2>1. pc[p] \in Locked
    BY <1>6 DEF ConfigureHost, ConfigureHostFails, Locked, CommandStep
  <2> QED
    BY <1>2, <1>6, <2>1, ConfigureHostOwn
<1>7. CASE ConfigureCtr(p) \/ ConfigureCtrFails(p)
  <2>1. pc[p] \in Locked
    BY <1>7 DEF ConfigureCtr, ConfigureCtrFails, Locked, CommandStep
  <2> QED
    BY <1>2, <1>7, <2>1, ConfigureCtrOwn
<1>8. CASE \/ \E r \in mem[p].routes : \/ RefuseRoute(p, r) \/ AddRoute(p, r)
                                       \/ AddRouteFails(p, r) \/ TakePattern(p, r)
           \/ \E r \in mem[p].matching : DelRoute(p, r) \/ DelRouteFails(p, r)
           \/ RoutesDone(p)
  <2>1. pc[p] \in Locked
    BY <1>8 DEF RefuseRoute, AddRoute, AddRouteFails, TakePattern, DelRoute, DelRouteFails,
       RoutesDone, Locked, CommandStep
  <2> QED
    BY <1>2, <1>8, <2>1, RouteRefusalOwn, AddRouteOwn, DelRouteOwn
<1>9. CASE Flush(p)
  <2>1. pc[p] \in Locked
    BY <1>9 DEF Flush, Locked, CommandStep
  <2> QED
    BY <1>2, <1>9, <2>1, FlushOwn
<1> QED
  BY <1>3, <1>4, <1>5, <1>6, <1>7, <1>8, <1>9 DEF CommandNext

-----------------------------------------------------------------------------
(***************************************************************************)
(* The hooks                                                               *)
(***************************************************************************)
\* A start hook that works on an active container, and goes on to or has ended.
LEMMA HookOwn ==
  ASSUME Known, NEW c \in Container, HookNext(c), Own(c),
         Active(c) /\ Active(c)' /\ st[c] = "creating" /\ Serves(c, c) =>
           /\ pc'[c] # "idle" => HookMem(c)' /\ InOrder(c)'
           /\ pc'[c] = "idle" => st'[c] = "running" /\ AtRest(c)'
  PROVE  Own(c)'
<1>1. /\ c \in Actor /\ StepOf(c) /\ NetTypeOK /\ pc \in [Actor -> CommandStep \cup HookStep]
      /\ Cid(c) = c /\ Cid(c)' = c /\ st \in [Container -> {"stopped", "creating", "running", "stopping"}]
      /\ pending \in [Container -> BOOLEAN]
  BY KnownFacts, ActorTypes DEF StepOf, NetTypeOK, NetProcessesTypeOK, NetContainersTypeOK, Cid
<1>2. pc[c] # "idle"
  <2>1. CASE DriverStep(c)
    BY <1>1, <2>1, DriverMoves
  <2> QED
    BY <2>1 DEF HookNext, ReadConfig, MountNetns, StartFails, OpenNetns, HookNic, HookNicsDone,
       HookRoute, HookRouteFails, HookRoutesDone, UnmountNetns, AbortStart, HookReturns
<1>3. Serves(c, c) /\ (Serves(c, c)' <=> pc'[c] # "idle")
  BY <1>1, <1>2 DEF Serves
<1>4. \/ UNCHANGED st /\ pc[c] # "abort" /\ UNCHANGED pending
      \/ AbortStart(c) \/ HookReturns(c)
  <2>1. CASE DriverStep(c)
    <3>1. UNCHANGED st /\ UNCHANGED pending
      BY <1>1, <2>1, DriverFrame
    <3> QED
      BY <1>1, <2>1, <3>1, DriverMoves
  <2> QED
    BY <2>1 DEF HookNext, ReadConfig, MountNetns, StartFails, OpenNetns, HookNic, HookNicsDone,
       HookRoute, HookRouteFails, HookRoutesDone, UnmountNetns, ctrVars, noteVars
<1>5. ASSUME Active(c)' PROVE Active(c) /\ st[c] = "creating"
  <2>1. ~ disturbed'[c] /\ ~ disturbed[c]
    BY <1>1, <1>5, MarksStay DEF Active
  <2>2. st[c] \in {"creating", "stopping"}
    BY <1>1, <1>2, KnownFacts DEF HookStages
  <2>3. CASE UNCHANGED st /\ pc[c] # "abort" /\ UNCHANGED pending
    BY <1>5, <2>1, <2>2, <2>3 DEF Active
  <2>4. CASE AbortStart(c)
    <3>1. st'[c] = "stopping"
      BY <1>1, <2>4 DEF AbortStart
    <3> QED
      BY <1>5, <3>1 DEF Active
  <2>5. CASE HookReturns(c)
    <3>1. pc[c] = "done" /\ st'[c] = IF st[c] = "creating" THEN "running" ELSE "stopped"
      BY <1>1, <2>5 DEF HookReturns
    <3> QED
      BY <1>5, <2>1, <3>1 DEF Active
  <2> QED
    BY <1>4, <2>3, <2>4, <2>5
<1>6. \A x \in Actor : Serves(x, c) /\ ~ disturbed'[c] => x = c
  BY <1>1, <1>3, MarksStay, OnlyWorker DEF Own
<1> QED
  BY <1>1, <1>3, <1>5, <1>6, WorkerOwn

\* What a start hook has in memory when it is at none of the drivers' steps.
LEMMA HookDue ==
  ASSUME NEW c \in Container, pc[c] \notin Creating \cup {"delete", "read"}
  PROVE  Due(c) = Nics(c) \ mem[c].nics /\ Carried(c) = {}
<1>1. Due(c) = (Nics(c) \ (mem[c].nics \cup {})) \cup {}
  BY DEF Due, Left
<1> QED
  BY <1>1 DEF Carried, Creating

LEMMA HookDueNow ==
  ASSUME NEW c \in Container, pc'[c] \notin {"joinctr", "delete", "read"}
  PROVE  /\ pc'[c] \notin Creating => Due(c)' = Nics(c)' \ mem'[c].nics
         /\ pc'[c] \in Creating => Due(c)' = Nics(c)' \ (mem'[c].nics \cup {ThisNic(c)'})
         /\ Carried(c)' = {} /\ RightHand(c)' /\ Cid(c)' = c /\ DueRoutes(c)' = file'[c].routes
<1>1. pc'[c] \notin Creating => Due(c)' = (Nics(c)' \ (mem'[c].nics \cup {})) \cup {}
  BY DEF Due, Left
<1>2. pc'[c] \in Creating => Due(c)' = (Nics(c)' \ (mem'[c].nics \cup {ThisNic(c)'})) \cup {}
  BY DEF Due, Left
<1> QED
  BY <1>1, <1>2 DEF Carried, RightHand, Cid, DueRoutes

\* The hook at work.
LEMMA HookAtWork ==
  ASSUME Known, NEW c \in Container, Own(c), Active(c), st[c] = "creating", Serves(c, c)
  PROVE  /\ NsOf(c) = <<c, inc[c]>> /\ inc[c] \in Nat
         /\ pc[c] # "read" => HookMem(c)
         /\ Covered(c, file[c].routes) /\ Due(c) \in SUBSET Nic
         /\ pc[c] # "joinctr" => Fits(c, Due(c), {})
         /\ pc[c] \notin {"abort", "open", "delete", "delhost", "unmount"}
<1>1. c \in Actor
  BY ActorTypes
<1>2. /\ InOrder(c) /\ NsOf(c) = <<c, inc[c]>> /\ inc[c] \in Nat /\ Cid(c) = c
      /\ pc[c] \notin {"abort", "open", "delete", "delhost", "unmount"}
  BY <1>1, InCharge
<1>3. pc[c] # "joinctr" => Carried(c) = {}
  BY DEF Carried
<1>4. DueRoutes(c) = file[c].routes
  BY DEF DueRoutes
<1> QED
  BY <1>1, <1>2, <1>3, <1>4, DueType, KnownFacts DEF InOrder, Own, Settled

\* The kernel is left as it is.
LEMMA HookSameDue ==
  ASSUME Known, NEW c \in Container, HookNext(c), Own(c), Active(c), st[c] = "creating",
         Serves(c, c), pc[c] # "joinctr", pc'[c] \notin {"joinctr", "delete", "read"},
         UNCHANGED <<link, rtable, inc, file>>, Due(c)' = Due(c)
  PROVE  InOrder(c)'
<1>1. PICK due, routes : due = Due(c) /\ routes = file[c].routes
  OBVIOUS
<1>2. c \in Actor /\ StepOf(c)
  BY ActorTypes DEF StepOf
<1>3. Fits(c, due, {})' /\ Covered(c, routes)'
  <2>1. Untouched(c, {}) /\ rtable' \subseteq rtable /\ inc'[c] = inc[c]
    BY DEF Untouched
  <2>2. Fits(c, due, {}) /\ Covered(c, routes) /\ due \in SUBSET Nic
    BY <1>1, HookAtWork
  <2> QED
    BY <1>2, <2>1, <2>2, FitsStays, CoveredStays
<1>4. Carried(c)' = {} /\ RightHand(c)' /\ Cid(c)' = c /\ DueRoutes(c)' = routes /\ Due(c)' = due
  BY <1>1, HookDueNow
<1>5. Fits(c, Due(c), Carried(c))'
  BY <1>3, <1>4, FitsNow
<1>6. \A r : r = DueRoutes(c)' => Covered(c, r)'
  BY <1>3, <1>4
<1> QED
  BY <1>4, <1>5, <1>6 DEF InOrder

\* The steps between those of the drivers.
LEMMA HookPlainOwn ==
  ASSUME Known, NEW c \in Container, HookNext(c), Own(c),
         \/ ReadConfig(c) \/ MountNetns(c) \/ StartFails(c) \/ OpenNetns(c)
         \/ \E n \in mem[c].nics : HookNic(c, n)
         \/ HookNicsDone(c) \/ \E r \in mem[c].routes : HookRouteFails(c, r)
         \/ HookRoutesDone(c) \/ UnmountNetns(c) \/ AbortStart(c)
  PROVE  Own(c)'
<1> SUFFICES ASSUME Active(c), Active(c)', st[c] = "creating", Serves(c, c)
             PROVE  pc'[c] # "idle" /\ HookMem(c)' /\ InOrder(c)'
  BY HookOwn
<1>1. /\ c \in Actor /\ NetTypeOK /\ mem[c] \in Memory
      /\ \A l : Goto(c, l) => pc'[c] = l
      /\ \A m : Remember(c, m) => mem'[c] = m
      /\ st \in [Container -> {"stopped", "creating", "running", "stopping"}]
  BY KnownFacts, ActorTypes, Reads, ThisNicType DEF NetTypeOK, NetContainersTypeOK
<1>2. pc'[c] # "abort" /\ st'[c] # "stopping"
  <2>1. UNCHANGED st \/ AbortStart(c)
    BY DEF ReadConfig, MountNetns, StartFails, OpenNetns, HookNic, HookNicsDone, HookRouteFails,
       HookRoutesDone, UnmountNetns, ctrVars
  <2>2. AbortStart(c) => st'[c] = "stopping"
    BY <1>1 DEF AbortStart
  <2> QED
    BY <2>1, <2>2 DEF Active
<1>3. CASE ReadConfig(c)
  <2>1. /\ pc[c] = "read" /\ pc'[c] = "mount" /\ UNCHANGED <<link, rtable, inc, file>>
        /\ mem'[c] = [NoMemory EXCEPT !.conf = file[c], !.nics = file[c].nics,
                                      !.routes = file[c].routes]
    BY <1>1, <1>3 DEF ReadConfig, lockVars, ctrVars, kernelVars
  <2>2. mem'[c].conf = file[c] /\ mem'[c].nics = file[c].nics /\ mem'[c].routes = file[c].routes
    BY <2>1 DEF NoMemory
  <2>3. Due(c) = {} /\ Due(c)' = Nics(c)' \ mem'[c].nics /\ Nics(c)' = mem'[c].nics
    <3>1. Due(c) = {}
      BY <2>1 DEF Due
    <3>2. Due(c)' = Nics(c)' \ mem'[c].nics
      BY <2>1, HookDueNow DEF Creating
    <3>3. Nics(c)' = mem'[c].nics
      BY <2>2 DEF Nics
    <3> QED
      BY <3>1, <3>2, <3>3
  <2>4. InOrder(c)'
    BY <2>1, <2>3, HookSameDue
  <2>5. HookMem(c)'
    BY <2>1, <2>2 DEF HookMem, Nics, Routes, Creating
  <2> QED
    BY <2>1, <2>4, <2>5
<1>4. CASE MountNetns(c) \/ HookNicsDone(c) \/ HookRoutesDone(c)
  <2>1. /\ pc[c] \in {"mount", "each", "routes"} /\ pc'[c] \in {"each", "routes", "done"}
        /\ UNCHANGED <<link, rtable, inc, file, mem>>
        /\ pc[c] = "mount" => pc'[c] = "each"
        /\ pc[c] = "each" => pc'[c] = "routes" /\ mem[c].nics = {}
        /\ pc[c] = "routes" => pc'[c] = "done" /\ mem[c].routes = {}
    BY <1>1, <1>4 DEF MountNetns, HookNicsDone, HookRoutesDone, lockVars, ctrVars, kernelVars
  <2>2. HookMem(c)
    BY <2>1, HookAtWork
  <2>3. Due(c)' = Due(c)
    BY <2>1, HookDue, HookDueNow DEF Creating, Nics
  <2>4. InOrder(c)'
    BY <2>1, <2>3, HookSameDue
  <2>5. \A r : RoutesMeant(<<c, inc[c]>>, r)' = RoutesMeant(<<c, inc[c]>>, r)
    BY <2>1 DEF RoutesMeant
  <2>6. HookMem(c)'
    BY <2>1, <2>2, <2>5 DEF HookMem, Nics, Routes, ThisNic, Creating
  <2> QED
    BY <2>1, <2>4, <2>6
<1>5. ASSUME NEW n \in mem[c].nics, HookNic(c, n)
      PROVE  pc'[c] # "idle" /\ HookMem(c)' /\ InOrder(c)'
  <2>1. /\ pc[c] = "each" /\ pc'[c] = "create" /\ UNCHANGED <<link, rtable, inc, file>>
        /\ mem'[c] = [mem[c] EXCEPT !.nics = @ \ {n}, !.nic = n, !.lnk = NoOne]
    BY <1>1, <1>5 DEF HookNic, lockVars, ctrVars, kernelVars
  <2>2. /\ mem'[c].conf = mem[c].conf /\ mem'[c].nics = mem[c].nics \ {n} /\ mem'[c].nic = n
        /\ mem'[c].routes = mem[c].routes
    BY <1>1, <2>1 DEF Memory
  <2>3. HookMem(c)
    BY <2>1, HookAtWork
  <2>4. Due(c) = Nics(c) \ mem[c].nics /\ Nics(c)' = Nics(c) /\ ThisNic(c)' = n
    BY <2>1, <2>2, HookDue DEF Creating, Nics, ThisNic
  <2>5. Due(c)' = Nics(c)' \ (mem'[c].nics \cup {ThisNic(c)'})
    BY <2>1, HookDueNow DEF Creating
  <2>6. Due(c)' = Due(c)
    BY <2>2, <2>4, <2>5
  <2>7. InOrder(c)'
    BY <2>1, <2>6, HookSameDue
  <2>8. HookMem(c)'
    BY <2>1, <2>2, <2>3, <2>4 DEF HookMem, Nics, Routes, Creating
  <2> QED
    BY <2>1, <2>7, <2>8
<1>6. ~ StartFails(c) /\ ~ \E r \in mem[c].routes : HookRouteFails(c, r)
  BY <1>1, <1>2 DEF StartFails, HookRouteFails
<1>7. ~ OpenNetns(c) /\ ~ UnmountNetns(c) /\ ~ AbortStart(c)
  BY HookAtWork DEF OpenNetns, UnmountNetns, AbortStart
<1> QED
  BY <1>3, <1>4, <1>5, <1>6, <1>7

\* The hook installs a route, as AddRoutes.
LEMMA HookRouteOwn ==
  ASSUME Known, NEW c \in Container, HookNext(c), Own(c), NEW r \in mem[c].routes, HookRoute(c, r)
  PROVE  Own(c)'
<1> SUFFICES ASSUME Active(c), Active(c)', st[c] = "creating", Serves(c, c)
             PROVE  pc'[c] # "idle" /\ HookMem(c)' /\ InOrder(c)'
  BY HookOwn
<1> DEFINE ns == <<c, inc[c]>>
<1>1. /\ c \in Actor /\ NetTypeOK /\ mem[c] \in Memory
      /\ \A m : Remember(c, m) => mem'[c] = m
  BY KnownFacts, ActorTypes, Reads, ThisNicType
<1>2. /\ pc[c] = "routes" /\ pc'[c] = "routes" /\ UNCHANGED <<link, st, inc, pc, file>>
      /\ mem'[c] = [mem[c] EXCEPT !.routes = @ \ {r}]
  BY <1>1 DEF HookRoute, ctrVars, lockVars
<1>3. /\ mem'[c].conf = mem[c].conf /\ mem'[c].nics = mem[c].nics /\ mem'[c].nic = mem[c].nic
      /\ mem'[c].routes = mem[c].routes \ {r}
  BY <1>1, <1>2 DEF Memory
<1>4. /\ NsOf(c) = ns /\ inc[c] \in Nat /\ HookMem(c)
      /\ Covered(c, file[c].routes) /\ Due(c) \in SUBSET Nic /\ Fits(c, Due(c), {})
  BY <1>2, HookAtWork
<1>5. PICK l \in RouteLinks(ns, r) :
        rtable' = rtable \cup {[ns |-> ns, dest |-> KernelDest(r.dest), gw |-> r.gw, lnk |-> l]}
  BY <1>4 DEF HookRoute, RouteAdd
<1>6. PICK due, routes : due = Due(c) /\ routes = file[c].routes
  OBVIOUS
<1>7. r \in routes /\ r.dev \in {link'[l].name, Empty}
  BY <1>2, <1>4, <1>5, <1>6 DEF HookMem, Routes, RouteLinks
<1>8. Covered(c, routes)'
  <2>1. ASSUME NEW k \in rtable', k.ns = ns PROVE \E e \in routes : Covers(e, k)'
    <3>1. CASE k \in rtable
      BY <1>2, <1>4, <1>6, <2>1, <3>1 DEF Covered, Covers
    <3>2. CASE k \notin rtable
      <4>1. k = [ns |-> ns, dest |-> KernelDest(r.dest), gw |-> r.gw, lnk |-> l]
        BY <1>5, <2>1, <3>2
      <4>2. Covers(r, k)'
        BY <1>7, <4>1 DEF Covers
      <4> QED
        BY <1>7, <4>2
    <3> QED
      BY <3>1, <3>2
  <2> QED
    BY <1>2, <2>1 DEF Covered
<1>9. Fits(c, due, {})'
  <2>1. Untouched(c, {})
    BY <1>2 DEF Untouched
  <2> QED
    BY <1>2, <1>4, <1>6, <2>1, FitsStays
<1>10. Due(c)' = due
  BY <1>2, <1>3, <1>6, HookDue, HookDueNow DEF Creating, Nics
<1>11. InOrder(c)'
  <2>1. Carried(c)' = {} /\ RightHand(c)' /\ Cid(c)' = c /\ DueRoutes(c)' = routes
    BY <1>2, <1>6, HookDueNow
  <2>2. Fits(c, Due(c), Carried(c))'
    BY <1>9, <1>10, <2>1, FitsNow
  <2>3. \A e : e = DueRoutes(c)' => Covered(c, e)'
    BY <1>8, <2>1
  <2> QED
    BY <2>1, <2>2, <2>3 DEF InOrder
<1>12. \A e : RoutesMeant(ns, e) \subseteq RoutesMeant(ns, e)'
  BY <1>2, <1>5 DEF RoutesMeant
<1>13. RoutesMeant(ns, r)' # {}
  <2> DEFINE k == [ns |-> ns, dest |-> KernelDest(r.dest), gw |-> r.gw, lnk |-> l]
  <2>1. k \in rtable' /\ k.ns = ns /\ k.dest = KernelDest(r.dest) /\ k.gw = r.gw /\ k.lnk = l
    BY <1>5
  <2> HIDE DEF k
  <2>2. k \in RoutesMeant(ns, r)'
    BY <1>2, <1>7, <2>1 DEF RoutesMeant
  <2> QED
    BY <2>2
<1>14. HookMem(c)'
  <2>1. /\ mem[c].conf = file[c] /\ mem[c].routes \subseteq Routes(c) /\ mem[c].nics = {}
        /\ \A e \in Routes(c) \ mem[c].routes : RoutesMeant(ns, e) # {}
    BY <1>2, <1>4 DEF HookMem
  <2>2. Nics(c)' = Nics(c) /\ Routes(c)' = Routes(c) /\ mem'[c].conf = file'[c]
    BY <1>2, <1>3, <2>1 DEF Nics, Routes
  <2>3. \A e \in Routes(c)' \ mem'[c].routes : RoutesMeant(ns, e)' # {}
    BY <1>3, <1>12, <1>13, <2>1, <2>2
  <2> QED
    BY <1>2, <1>3, <2>1, <2>2, <2>3 DEF HookMem, Creating
<1> QED
  BY <1>2, <1>11, <1>14

\* What a start hook that has got to its end leaves behind.
LEMMA StartHasInstalled ==
  ASSUME Known, NEW c \in Container, Own(c), Active(c), st[c] = "creating", pc[c] = "done"
  PROVE  /\ AtRest(c) /\ Nics(c) = file[c].nics /\ file[c].nics \in SUBSET Nic
         /\ \A r \in Routes(c) : RoutesMeant(<<c, inc[c]>>, r) # {}
<1>1. c \in Actor /\ Serves(c, c)
  BY ActorTypes DEF Serves, Cid
<1>2. HookMem(c) /\ Covered(c, file[c].routes) /\ Fits(c, Due(c), {})
  BY <1>1, HookAtWork
<1>3. /\ mem[c].conf = file[c] /\ mem[c].nics = {} /\ mem[c].routes = {}
      /\ \A r \in Routes(c) \ mem[c].routes : RoutesMeant(<<c, inc[c]>>, r) # {}
  BY <1>2 DEF HookMem
<1>4. Due(c) = Nics(c) \ {}
  BY <1>3, HookDue DEF Creating
<1>5. Due(c) = file[c].nics /\ Nics(c) = file[c].nics
  BY <1>3, <1>4 DEF Nics
<1>6. file[c].nics \in SUBSET Nic
  BY KnownFacts DEF NetTypeOK, NetContainersTypeOK, Conf
<1> QED
  BY <1>2, <1>3, <1>5, <1>6 DEF AtRest

LEMMA HookReturnsOwn ==
  ASSUME Known, NEW c \in Container, HookNext(c), Own(c), HookReturns(c)
  PROVE  Own(c)'
<1> SUFFICES ASSUME Active(c), Active(c)', st[c] = "creating", Serves(c, c)
             PROVE  pc'[c] = "idle" /\ st'[c] = "running" /\ AtRest(c)'
  BY HookOwn
<1>1. /\ c \in Actor /\ StepOf(c) /\ NetTypeOK
      /\ \A l : Goto(c, l) => pc'[c] = l
      /\ st \in [Container -> {"stopped", "creating", "running", "stopping"}]
  BY KnownFacts, ActorTypes, Reads DEF StepOf, NetTypeOK, NetContainersTypeOK
<1>2. /\ pc[c] = "done" /\ pc'[c] = "idle" /\ st'[c] = "running"
      /\ UNCHANGED <<link, rtable, inc, file>>
  BY <1>1 DEF HookReturns, lockVars, kernelVars
<1>3. PICK nics, routes : nics = file[c].nics /\ routes = file[c].routes
  OBVIOUS
<1>4. Fits(c, nics, {})' /\ Covered(c, routes)'
  <2>1. Untouched(c, {}) /\ rtable' \subseteq rtable /\ inc'[c] = inc[c]
    BY <1>2 DEF Untouched
  <2> QED
    BY <1>1, <1>2, <1>3, <2>1, StartHasInstalled, FitsStays, CoveredStays DEF AtRest
<1>5. \A n, r : n = file'[c].nics /\ r = file'[c].routes => Fits(c, n, {})' /\ Covered(c, r)'
  BY <1>2, <1>3, <1>4
<1>6. AtRest(c)'
  BY <1>5 DEF AtRest
<1> QED
  BY <1>2, <1>6

\* Every step of the hooks of c.
LEMMA HooksOwn ==
  ASSUME Known, NEW c \in Container, HookNext(c), Own(c)
  PROVE  Own(c)'
<1>1. CASE DriverStep(c)
  BY <1>1, ActorTypes, DriverOwn DEF StepOf, Cid
<1>2. CASE \E r \in mem[c].routes : HookRoute(c, r)
  BY <1>2, HookRouteOwn
<1>3. CASE HookReturns(c)
  BY <1>3, HookReturnsOwn
<1> QED
  BY <1>1, <1>2, <1>3, HookPlainOwn DEF HookNext

-----------------------------------------------------------------------------
(***************************************************************************)
(* Starts, stops and kills                                                 *)
(***************************************************************************)
\* The namespace of a new start is empty.
LEMMA StartOwn ==
  ASSUME Known, NEW c \in Container, Own(c), StartContainer(c)
  PROVE  Own(c)'
<1>1. /\ c \in Actor /\ StepOf(c) /\ NetTypeOK /\ Cid(c)' = c
      /\ pc \in [Actor -> CommandStep \cup HookStep]
      /\ disturbed \in [Container -> BOOLEAN]
      /\ \A l : Goto(c, l) => pc'[c] = l
      /\ inc \in [Container -> Nat] /\ inc[c] \in Nat
  BY KnownFacts, ActorTypes, Reads
  DEF StepOf, Cid, NetTypeOK, NetContainersTypeOK, NetProcessesTypeOK
<1>2. /\ pc[c] = "idle" /\ pc'[c] = "read" /\ UNCHANGED <<link, rtable, file>>
      /\ inc'[c] = inc[c] + 1
  BY <1>1 DEF StartContainer, lockVars, kernelVars
<1>3. \A x \in Actor : Serves(x, c) /\ ~ disturbed'[c] => x = c
  <2>1. ASSUME NEW x \in Actor, Serves(x, c), x # c, ~ disturbed'[c] PROVE FALSE
    <3>1. x \in Command /\ pc[x] \in Locked /\ Cid(x) = c
      BY <2>1 DEF Serves, Cid, Actor
    <3>2. BusyOn(c)
      BY <3>1 DEF BusyOn, Busy, Locked
    <3>3. disturbed' = [disturbed EXCEPT ![c] = TRUE]
      BY <3>2 DEF StartContainer, Disturb
    <3> QED
      BY <1>1, <2>1, <3>3
  <2> QED
    BY <2>1
<1>4. /\ \A l \in Link : link'[l].ns # <<c, inc'[c]>>
      /\ \A k \in rtable' : k.ns # <<c, inc'[c]>>
  <2>1. \A l \in Link : link[l].ns # <<c, inc[c] + 1>>
    <3>1. inc[c] + 1 \in Nat /\ ~ (inc[c] + 1 <= inc[c])
      BY <1>1
    <3> QED
      BY <3>1, KnownFacts DEF NoFuture
  <2>2. \A k \in rtable : k.lnk \in Link /\ link[k.lnk].ns = k.ns
    BY KnownFacts DEF NetTypeOK, KernelTypeOK, KernelRoute, RoutesPlaced
  <2> QED
    BY <1>2, <2>1, <2>2
<1>5. Due(c)' = {} /\ Carried(c)' = {} /\ RightHand(c)' /\ HookMem(c)'
  BY <1>2 DEF Due, Carried, RightHand, HookMem
<1>6. InOrder(c)'
  <2>1. Fits(c, {}, {})'
    BY <1>4 DEF Fits, LinksIn
  <2>2. Fits(c, Due(c), Carried(c))'
    BY <1>5, <2>1, FitsNow
  <2>3. \A e : Covered(c, e)'
    BY <1>4 DEF Covered
  <2> QED
    BY <1>1, <1>5, <2>2, <2>3 DEF InOrder
<1>7. Serves(c, c)'
  BY <1>1, <1>2 DEF Serves
<1> QED
  BY <1>1, <1>3, <1>5, <1>6, <1>7, WorkerOwn

LEMMA StopOwn ==
  ASSUME Known, NEW c \in Container, Own(c), StopContainer(c)
  PROVE  Own(c)'
<1>1. st'[c] = "stopping"
  BY KnownFacts DEF StopContainer, NetTypeOK, NetContainersTypeOK
<1>2. ~ Active(c)'
  BY <1>1 DEF Active
<1> QED
  BY <1>2, ApartKept, ActorTypes DEF Own, StepOf

\* A kill disturbs the container.
LEMMA CrashOwn ==
  ASSUME Known, NEW a \in Actor, Crash(a), Own(Cid(a)), Cid(a) \in Container
  PROVE  \A c : c = Cid(a) => Own(c)'
<1>1. disturbed' = [disturbed EXCEPT ![Cid(a)] = TRUE] /\ disturbed \in [Container -> BOOLEAN]
  BY KnownFacts DEF Crash, Disturb, NetTypeOK, NetContainersTypeOK
<1>2. disturbed'[Cid(a)]
  BY <1>1
<1> QED
  BY <1>2 DEF Own, Active

-----------------------------------------------------------------------------
(***************************************************************************)
(* The invariant, and what it says of a container that nobody works on     *)
(***************************************************************************)
\* Every process's step keeps the invariant of every container.
LEMMA StepOwn ==
  ASSUME Known, NEW a \in Actor, StepOf(a), NEW c \in Container, Own(c)
  PROVE  Own(c)'
<1>1. CASE Cid(a) # c
  BY <1>1, OthersOwn
<1>2. CASE a \in Command /\ Cid(a) = c /\ CommandNext(a)
  BY <1>2, CommandsOwn
<1>3. CASE a \in Command /\ \E r \in Requests : Begin(a, r)
  BY <1>3, BeginOwn
<1>4. CASE a \in Container /\ Cid(a) = c /\ ~ Crash(a)
  <2>1. a = c /\ a \notin Command
    BY <1>4, ActorTypes DEF Cid
  <2> QED
    BY <1>4, <2>1, HooksOwn, StartOwn, StopOwn DEF StepOf
<1>5. CASE Cid(a) = c /\ Crash(a)
  BY <1>5, CrashOwn
<1> QED
  BY <1>1, <1>2, <1>3, <1>4, <1>5 DEF StepOf, Actor

LEMMA OwnInvInit == Init => OwnInv
<1> SUFFICES ASSUME Init, NEW c \in Container PROVE Own(c)
  BY DEF OwnInv
<1>1. st[c] = "stopped" /\ \A p \in Command : pc[p] = "idle"
  BY ActorTypes DEF Init
<1>2. ~ Active(c) /\ Apart(c)
  BY <1>1 DEF Active, Apart, Busy
<1> QED
  BY <1>2 DEF Own

LEMMA OwnInvNext == Known /\ OwnInv /\ [Next]_vars => OwnInv'
<1> SUFFICES ASSUME Known, [Next]_vars, NEW c \in Container, Own(c) PROVE Own(c)'
  BY DEF OwnInv
<1>1. ASSUME NEW a \in Actor, StepOf(a) PROVE Own(c)'
  BY <1>1, StepOwn
<1>2. ASSUME NEW m \in Link, NamespaceGone(m) PROVE Own(c)'
  BY <1>2, GoneOwn
<1>3. CASE UNCHANGED vars
  <2>1. /\ UNCHANGED <<file, st, inc, netns, link, rtable, pc, job, mem, disturbed, pending>>
        /\ c \in Actor
    BY <1>3, ActorTypes DEF vars, lockVars, ctrVars, kernelVars, noteVars
  <2>2. Active(c)' <=> Active(c)
    BY <2>1 DEF Active
  <2>3. Apart(c) => Apart(c)'
    BY <2>1 DEF Apart, Busy, Cid
  <2>4. \A x \in Actor : SameWork(x)
    BY <2>1 DEF SameWork, Cid, NsOf
  <2>5. Untouched(c, {})
    BY <2>1 DEF Untouched
  <2>6. Active(c) => Settled(c)'
    BY <2>1, <2>4, <2>5, SettledStays
  <2> QED
    BY <2>1, <2>2, <2>3, <2>6 DEF Own
<1> QED
  BY <1>1, <1>2, <1>3, NextIsStep

LEMMA OwnInvCorrect == Spec => [](Known /\ OwnInv)
<1>1. Spec => []Known
  BY NetInvCorrect, StoreInvCorrect, LinksInvCorrect, PTL DEF Known
<1> QED
  BY <1>1, OwnInvInit, OwnInvNext, PTL DEF Spec

\* A running container that nobody works on is at rest.
LEMMA QuietAtRest ==
  ASSUME Known, NEW c \in Container, Own(c), st[c] = "running", Undisturbed(c), ~ pending[c]
  PROVE  AtRest(c)
<1>1. Active(c) /\ pc[c] = "idle" /\ \A p \in Command : Busy(p) => Cid(p) # c
  BY DEF Undisturbed, Quiet, Active, BusyOn
<1>2. ASSUME NEW a \in Actor PROVE ~ Serves(a, c)
  <2>1. CASE a \in Container
    BY <1>1, <2>1 DEF Serves, Cid
  <2>2. CASE a \in Command /\ a \notin Container
    BY <1>1, <2>2 DEF Serves, Busy, Locked
  <2> QED
    BY <2>1, <2>2 DEF Actor
<1> QED
  BY <1>1, <1>2 DEF Own, Settled

\* A running container that nobody works on, that nothing has disturbed and for which
\* no command has left anything to the next start has exactly the interfaces that
\* are configured, and each is named, addressed and up; an add-nic or a remove-nic
\* that failed half way has rolled both back (JoinAndConfigure, AddNic, DelNic,
\* UpdateNic, UpdateNetwork).
THEOREM NicsAlwaysAgree == Spec => []NicsAgree
<1>1. Known /\ OwnInv => NicsAgree
  <2> SUFFICES ASSUME Known, OwnInv, NEW c \in Container, st[c] = "running", Undisturbed(c),
                      ~ pending[c]
               PROVE  /\ \A n \in file[c].nics : InPlace(c, n)
                      /\ \A l \in LinksIn(<<c, inc[c]>>) : \E n \in file[c].nics : Stands(c, l, n)
    BY DEF NicsAgree
  <2>1. Fits(c, file[c].nics, {}) /\ file[c].nics \in SUBSET Nic
    BY QuietAtRest, KnownFacts DEF OwnInv, AtRest, NetTypeOK, NetContainersTypeOK, Conf
  <2> QED
    BY <2>1, FittingInPlace
<1> QED
  BY <1>1, OwnInvCorrect, PTL

\* In the same circumstances every route in the kernel for its namespace is one of the
\* configuration, whatever add-route, remove-route and their roll backs did, and
\* whichever links were set down meanwhile (AddRoutes, DelRoutes, UpdateNetwork).
THEOREM RoutesAlwaysAgree == Spec => []RoutesAgree
<1>1. Known /\ OwnInv => RoutesAgree
  BY QuietAtRest DEF OwnInv, RoutesAgree, AtRest, Covered, Covers
<1> QED
  BY <1>1, OwnInvCorrect, PTL

\* A container runs when its start hook has returned.
LEMMA OnlyReturns ==
  ASSUME NetTypeOK, NEW c \in Container, StepOf(c), st[c] = "creating", st'[c] = "running"
  PROVE  HookReturns(c)
<1>1. c \in Actor /\ c \notin Command /\ st \in [Container -> {"stopped", "creating", "running", "stopping"}]
  BY ActorTypes DEF NetTypeOK, NetContainersTypeOK
<1>2. ~ DriverStep(c)
  BY <1>1, DriverFrame
<1>3. ~ Crash(c)
  BY DEF Crash, ctrVars
<1>4. ~ StartContainer(c) /\ ~ StopContainer(c) /\ ~ AbortStart(c)
  BY <1>1 DEF StartContainer, StopContainer, AbortStart
<1>5. HookNext(c)
  BY <1>1, <1>3, <1>4 DEF StepOf
<1> QED
  BY <1>2, <1>4, <1>5 DEF HookNext, ReadConfig, MountNetns, StartFails, OpenNetns, HookNic,
     HookNicsDone, HookRoute, HookRouteFails, HookRoutesDone, UnmountNetns, ctrVars

\* A start that succeeds, and that nothing has disturbed, has brought in every
\* interface it read from the configuration and installed every route over them
\* (UpdateNetwork).
THEOREM StartsInstallNetwork == Spec => StartInstallsNetwork
<1> DEFINE Installed(c) ==
             st[c] = "creating" /\ st'[c] = "running" /\ ~ disturbed[c] =>
               /\ \A n \in Nics(c) : InPlace(c, n)
               /\ \A r \in Routes(c) : RoutesMeant(<<c, inc[c]>>, r) # {}
<1>1. Known /\ OwnInv /\ [Next]_vars => [\A c \in Container : Installed(c)]_vars
  <2> SUFFICES ASSUME Known, OwnInv, Next, NEW c \in Container, st[c] = "creating",
                      st'[c] = "running", ~ disturbed[c]
               PROVE  /\ \A n \in Nics(c) : InPlace(c, n)
                      /\ \A r \in Routes(c) : RoutesMeant(<<c, inc[c]>>, r) # {}
    BY DEF vars
  <2>1. HookReturns(c)
    <3>1. st'[c] # st[c] /\ c \in Actor /\ NetTypeOK
      BY KnownFacts, ActorTypes
    <3>2. ~ \E m \in Link : NamespaceGone(m)
      BY <3>1, GoneTouches DEF ctrVars
    <3>3. StepOf(c)
      BY <3>1, <3>2, NextIsStep, LifeStays
    <3> QED
      BY <3>1, <3>3, OnlyReturns
  <2>2. Active(c) /\ pc[c] = "done" /\ Own(c)
    BY <2>1 DEF HookReturns, Active, OwnInv
  <2>3. Fits(c, Nics(c), {}) /\ Nics(c) \in SUBSET Nic
    BY <2>2, StartHasInstalled DEF AtRest
  <2> QED
    BY <2>2, <2>3, StartHasInstalled, FittingInPlace
<1> QED
  BY <1>1, OwnInvCorrect, PTL DEF Spec, StartInstallsNetwork

=============================================================================

-------------------------------- MODULE Network --------------------------------
(***************************************************************************)
(* The commands add-nic, remove-nic, update-nic, add-route and             *)
(* remove-route, and the part of the prestart and poststop hooks that      *)
(* gives a container its interfaces and takes them back.                   *)
(*                                                                         *)
(* An eth nic is a physical interface of the host that is renamed and      *)
(* moved into the container's network namespace; a veth nic is a pair of   *)
(* interfaces, one end of which is moved.  Links are found by name, in the *)
(* namespace a process is in, and the kernel refuses a name that is taken. *)
(* A namespace lives while the container runs, while the file that the     *)
(* start hook bound it to is mounted, and while a process has it open;     *)
(* then the kernel deletes its veth pairs and gives the others back.       *)
(*                                                                         *)
(* A command holds the container lock; the hooks read the configuration    *)
(* and work on links without it, and containers share the host's links.    *)
(***************************************************************************)
EXTENDS NetConfig, Sequences

CONSTANTS
  Container,        \* containers; a container also names the hook it runs
  Command,          \* processes of the command line tool
  NoOne,            \* the owner of a free lock; also: no link
  HostNs, Nowhere,  \* the host's network namespace; where no link is
  Eth,              \* physical interfaces, named by their names on the host
  Pair,             \* veth pairs that may exist at a time
  Requests,         \* the command lines considered
  InitialFile,      \* the configurations a container may have at first
  MaxStarts, MaxCrashes, MaxFaults   \* bounds on the environment

Actor == Command \cup Container

Op == {"add-nic", "remove-nic", "update-nic", "add-route", "remove-route"}

Request ==
  [op: Op, cid: Container, nic: NicArg, routes: SUBSET Route, only: BOOLEAN]

\* A random name, given to an interface while it is moved, clashes with none.
Tmp == "tmp"

Name == HostName \cup CtrName \cup {Tmp}

Link == (Eth \X {"phys"}) \cup (Pair \X {"host", "ctr"})

Ns == (Container \X Nat) \cup {HostNs, Nowhere}

ASSUME NetActorsAssumption ==
  /\ Command \cap Container = {}
  /\ NoOne \notin Actor \cup Link
  /\ Container # {}

ASSUME LinksAssumption ==
  /\ Eth \subseteq HostName
  /\ Eth \cap Pair = {}
  /\ Tmp \notin HostName \cup CtrName
  /\ HostNs # Nowhere /\ {HostNs, Nowhere} \cap (Container \X Nat) = {}

ASSUME NetRequestsAssumption ==
  /\ Requests \subseteq Request
  /\ \A r \in Requests : r.op = "add-nic" => r.nic \in Nic
  /\ InitialFile \subseteq Conf
  /\ \A conf \in InitialFile : Distinct(conf.nics)
  /\ {MaxStarts, MaxCrashes, MaxFaults} \subseteq Nat

VARIABLES
  file,      \* file[c]: the nics and routes in c's device_hook.json
  flock,     \* flock[c]: the holder of c's .device_hook.lock
  st,        \* st[c]: what iSulad is doing with c
  inc,       \* inc[c]: the number of starts of c, which stands for its pid
  netns,     \* netns[c]: what is mounted on c's netns file, the file itself last
  link,      \* link[l]: where interface l is, its name, address and state
  rtable,    \* the routes in the kernel
  pc,        \* pc[a]: the next step of process a
  job,       \* job[p]: the request of command p and the pid it read
  mem,       \* mem[a]: what a has in memory
  err,       \* err[a]: does a end with an error?
  disturbed, \* disturbed[c]: has something happened that nothing puts right?
  pending,   \* pending[c]: is there something that the next start puts right?
  crashes, faults   \* how often the environment has struck

lockVars == <<file, flock>>
ctrVars  == <<st, inc, netns>>
kernelVars == <<link, rtable>>
noteVars == <<disturbed, pending>>
envVars  == <<crashes, faults>>

vars == <<lockVars, ctrVars, kernelVars, pc, job, mem, err, noteVars, envVars>>

-----------------------------------------------------------------------------
CommandStep == {"idle", "lock", "begin", "routes", "create", "joinhost", "joinctr",
                "delete", "delhost", "confhost", "confctr", "flush", "done"}

HookStep == {"idle", "read", "mount", "open", "each", "create", "joinhost", "joinctr",
             "delete", "delhost", "unmount", "routes", "abort", "done"}

NoNic == CHOOSE n \in Nic : TRUE

NoArg == [type |-> Empty, host |-> Empty, ctr |-> Empty, ip |-> Empty, mac |-> Empty,
          qlen |-> NoQlen]

NoJob(c) ==
  [req |-> [op |-> "add-nic", cid |-> c, nic |-> NoArg, routes |-> {}, only |-> FALSE],
   pid |-> 0]

NoConf == [nics |-> {}, routes |-> {}]

\* conf: the configuration, and whether it is to be written back; nic: the nic
\* being worked on; lnk: its link, or the veth pair that was made for it; nics,
\* routes: what is left to do; matching: the routes a pattern stands for.
Memory ==
  [conf: Conf, dirty: BOOLEAN, nic: Nic, lnk: Link \cup {NoOne}, nics: SUBSET Nic,
   routes: SUBSET Route, matching: SUBSET Route]

NoMemory ==
  [conf |-> NoConf, dirty |-> FALSE, nic |-> NoNic, lnk |-> NoOne, nics |-> {},
   routes |-> {}, matching |-> {}]

LinkState == [ns: Ns, name: Name, ip: IP \cup {Empty}, up: BOOLEAN]

KernelRoute == [ns: Ns, dest: Dest \cup {"default"}, gw: IP \cup {Empty}, lnk: Link]

AtHome(e) == [ns |-> HostNs, name |-> e, ip |-> Empty, up |-> FALSE]
Absent == [ns |-> Nowhere, name |-> Tmp, ip |-> Empty, up |-> FALSE]

KernelTypeOK ==
  /\ link \in [Link -> LinkState]
  /\ rtable \in SUBSET KernelRoute
  /\ netns \in [Container -> Seq(Nat)]

NetContainersTypeOK ==
  /\ file \in [Container -> Conf]
  /\ flock \in [Container -> Command \cup {NoOne}]
  /\ st \in [Container -> {"stopped", "creating", "running", "stopping"}]
  /\ inc \in [Container -> Nat]
  /\ disturbed \in [Container -> BOOLEAN] /\ pending \in [Container -> BOOLEAN]
  /\ crashes \in Nat /\ faults \in Nat

NetProcessesTypeOK ==
  /\ \A p \in Command : pc[p] \in CommandStep
  /\ \A c \in Container : pc[c] \in HookStep
  /\ pc \in [Actor -> CommandStep \cup HookStep]
  /\ job \in [Command -> [req: Request, pid: Nat]]
  /\ mem \in [Actor -> Memory]
  /\ err \in [Actor -> BOOLEAN]

\* The types of all variables.
NetTypeOK == KernelTypeOK /\ NetContainersTypeOK /\ NetProcessesTypeOK

Init ==
  /\ file \in [Container -> InitialFile]
  /\ flock = [c \in Container |-> NoOne]
  /\ st = [c \in Container |-> "stopped"]
  /\ inc = [c \in Container |-> 0]
  /\ netns = [c \in Container |-> <<>>]
  /\ link = [l \in Link |-> IF l[2] = "phys" THEN AtHome(l[1]) ELSE Absent]
  /\ rtable = {}
  /\ pc = [a \in Actor |-> "idle"]
  /\ job = [p \in Command |-> NoJob(CHOOSE c \in Container : TRUE)]
  /\ mem = [a \in Actor |-> NoMemory]
  /\ err = [a \in Actor |-> FALSE]
  /\ disturbed = [c \in Container |-> FALSE] /\ pending = [c \in Container |-> FALSE]
  /\ crashes = 0 /\ faults = 0

-----------------------------------------------------------------------------
(***************************************************************************)
(* The kernel                                                              *)
(***************************************************************************)
\* Mutant: names are looked up without entering the namespace.
LinksNamedAnywhere(ns, n) == {l \in Link : link[l].ns # Nowhere /\ link[l].name = n}

LinksNamed(ns, n) == {l \in Link : link[l].ns = ns /\ link[l].name = n}

Free(ns, n) == n = Tmp \/ LinksNamed(ns, n) = {}

\* The routes over a link go when it is set down, moved or deleted.
RoutesOver(links) == {k \in rtable : k.lnk \in links}

IsPair(l) == l[2] # "phys"

\* To delete one end of a pair deletes both.
Ends(l) == IF IsPair(l) THEN {l[1]} \X {"host", "ctr"} ELSE {}

\* The containers that have an end of these pairs.
Owners(links) ==
  {c \in Container : \E l \in UNION {Ends(m) : m \in links} : link[l].ns \in {c} \X Nat}

Delete(links) ==
  LET gone == UNION {Ends(l) : l \in links}
  IN  /\ link' = [l \in Link |-> IF l \in gone THEN Absent ELSE link[l]]
      /\ rtable' = rtable \ RoutesOver(gone)

\* Link l is now s; its old routes are gone.
Change(l, s) ==
  /\ link' = [link EXCEPT ![l] = s]
  /\ rtable' = rtable \ RoutesOver({l})

\* Link l as it arrives in namespace ns: down, and without addresses.
Moved(ns, n) == [ns |-> ns, name |-> n, ip |-> Empty, up |-> FALSE]

\* Mutant: the link is not set up.
NotSetUp(ns, nic) == [ns |-> ns, name |-> nic.ctr, ip |-> nic.ip, up |-> FALSE]

\* Link l has been brought into the container and configured.
Configured(ns, nic) == [ns |-> ns, name |-> nic.ctr, ip |-> nic.ip, up |-> TRUE]

\* The links that route r can go over in namespace ns.
RouteLinks(ns, r) ==
  {l \in Link : /\ link[l].ns = ns /\ link[l].up
                /\ r.dev \in {link[l].name, Empty}
                /\ r.gw \in {link[l].ip, Empty}}

DestsIn(ns) == {k.dest : k \in {k \in rtable : k.ns = ns}}

RoutePossible(ns, r) ==
  /\ r.gw # Empty \/ r.dev # Empty
  /\ RouteLinks(ns, r) # {}
  /\ KernelDest(r.dest) \notin DestsIn(ns)

RouteAdd(ns, r) ==
  \E l \in RouteLinks(ns, r) :
    rtable' = rtable \cup {[ns |-> ns, dest |-> KernelDest(r.dest), gw |-> r.gw, lnk |-> l]}

\* The kernel compares what the rule gives.
RoutesMeant(ns, r) ==
  {k \in rtable : /\ k.ns = ns /\ k.dest = KernelDest(r.dest)
                  /\ r.gw \in {k.gw, Empty}
                  /\ r.dev \in {link[k.lnk].name, Empty}}

-----------------------------------------------------------------------------
(***************************************************************************)
(* Helpers                                                                 *)
(***************************************************************************)
Cid(a) == IF a \in Container THEN a ELSE job[a].req.cid

Req(p) == job[p].req

\* CheckPidExist, for the pid that container.New read.
Alive(p) ==
  LET c == Cid(p)
  IN  job[p].pid > 0 /\ job[p].pid = inc[c] /\ st[c] \in {"creating", "running"}

\* Mutant: the option is read the wrong way round.
AppliesOnly(p) == Req(p).only /\ Alive(p)

\* Does the command work in the container as well?
Applies(p) == ~ Req(p).only /\ Alive(p)

\* The namespace a process means by its path: that of the pid or, for the
\* poststop hook, what is mounted on the netns file.
NsOf(a) ==
  IF a \in Command THEN <<Cid(a), job[a].pid>>
  ELSE <<a, IF st[a] = "creating" THEN inc[a] ELSE Head(netns[a])>>

\* netns.GetFromPath and netns.Set succeed.
CanEnter(a) ==
  IF a \in Command THEN Alive(a)
  ELSE st[a] = "creating" \/ (netns[a] # <<>> /\ Head(netns[a]) # 0)

\* NsInvoke has the namespace open between its two functions.
Holds(a, ns) ==
  /\ pc[a] = "joinctr" \/ (pc[a] = "confctr" /\ mem[a].nic.type = "veth")
  /\ NsOf(a) = ns

NsAlive(c, i) ==
  \/ inc[c] = i /\ st[c] \in {"creating", "running"}
  \/ \E j \in DOMAIN netns[c] : netns[c][j] = i
  \/ \E a \in Actor : Holds(a, <<c, i>>)

\* iSulad holds the container's own lock while it starts or stops it.
Inspectable(c) == st[c] \in {"stopped", "running"}

Busy(p) == pc[p] \notin {"idle", "done"}

BusyOn(c) == \E p \in Command : Busy(p) /\ Cid(p) = c

\* Mutant: commands do not exclude each other.
CommandsShare(p) == TRUE

CanLock(p) == flock[Cid(p)] = NoOne

\* A call that fails for a reason outside the model.
Fault == faults < MaxFaults /\ faults' = faults + 1
NoFault == UNCHANGED faults

Goto(a, l) == pc' = [pc EXCEPT ![a] = l]
Fail(a) == err' = [err EXCEPT ![a] = TRUE]
Disturb(c, happened) == disturbed' = [disturbed EXCEPT ![c] = @ \/ happened]
DisturbAll(cs) == disturbed' = [c \in Container |-> disturbed[c] \/ c \in cs]
Postpone(c, happened) == pending' = [pending EXCEPT ![c] = @ \/ happened]

SetNics(a, nics) == [mem[a] EXCEPT !.conf.nics = nics, !.dirty = TRUE]
SetRoutes(a, routes) == [mem[a] EXCEPT !.conf.routes = routes, !.dirty = TRUE]

Remember(a, m) == mem' = [mem EXCEPT ![a] = m]
Forget(a) == Remember(a, NoMemory)

Nics(a) == mem[a].conf.nics
Routes(a) == mem[a].conf.routes
ThisNic(a) == mem[a].nic

-----------------------------------------------------------------------------
(***************************************************************************)
(* The commands                                                            *)
(***************************************************************************)
\* ValidNetworkConfig, without the lock: a veth needs a name on the host that is
\* free, an eth one that is there.
Valid(r) ==
  r.op = "add-nic" => (r.nic.type = "eth" <=> LinksNamed(HostNs, r.nic.host) # {})

\* container.New reads the pid.
Begin(p, r) ==
  /\ pc[p] = "idle"
  /\ Inspectable(r.cid) /\ Valid(r)
  /\ job' = [job EXCEPT ![p] =
               [req |-> r, pid |-> IF st[r.cid] = "running" THEN inc[r.cid] ELSE 0]]
  /\ Goto(p, "lock")
  /\ UNCHANGED <<lockVars, ctrVars, kernelVars, mem, err, noteVars, envVars>>

\* ctr.Lock and NewContainerConfig.
LockAndLoad(p) ==
  /\ pc[p] = "lock"
  /\ CanLock(p)
  /\ flock' = [flock EXCEPT ![Cid(p)] = p]
  /\ Remember(p, [NoMemory EXCEPT !.conf = file[Cid(p)], !.routes = Req(p).routes])
  /\ Goto(p, IF Req(p).op \in {"add-route", "remove-route"} THEN "routes" ELSE "begin")
  /\ UNCHANGED <<file, ctrVars, kernelVars, job, err, noteVars, envVars>>

\* A nic that is refused, or not configured; an update that changes nothing.
GiveUp(p, failed) ==
  /\ Goto(p, "flush")
  /\ err' = [err EXCEPT ![p] = failed]
  /\ UNCHANGED <<mem, pending>>

\* AddNic: the nic is recorded and, unless only the configuration is asked for
\* or the container does not run, created.
AddNic(p) ==
  LET n == Req(p).nic
  IN  /\ pc[p] = "begin" /\ Req(p).op = "add-nic"
      /\ IF NicLimitReached(Nics(p)) \/ IsConflictInterface(Nics(p), n)
         THEN GiveUp(p, TRUE)
         ELSE /\ Remember(p, [SetNics(p, Nics(p) \cup {n}) EXCEPT !.nic = n])
              /\ Goto(p, IF Applies(p) THEN "create" ELSE "flush")
              /\ Postpone(Cid(p), Req(p).only)
              /\ UNCHANGED err
      /\ UNCHANGED <<lockVars, ctrVars, kernelVars, job, disturbed, envVars>>

\* DelNic, which has no option to leave the container alone.
DelNic(p) ==
  /\ pc[p] = "begin" /\ Req(p).op = "remove-nic"
  /\ LET found == FindInterfaceByName(Nics(p), Req(p).nic)
     IN  IF found = {}
         THEN GiveUp(p, TRUE)
         ELSE \E n \in found :
                /\ Remember(p, [SetNics(p, WithoutNic(Nics(p), n)) EXCEPT !.nic = n])
                /\ Goto(p, IF Alive(p) THEN "delete" ELSE "flush")
                /\ UNCHANGED <<err, pending>>
  /\ UNCHANGED <<lockVars, ctrVars, kernelVars, job, disturbed, envVars>>

\* The nic that update-nic means, by its name in the container only.
Old(p) == FindInterfaceByName(Nics(p), [NoArg EXCEPT !.ctr = Req(p).nic.ctr])

\* Mutant: the arguments are stored as they are.
UpdatedAsGiven(p, n) == SetNics(p, (Nics(p) \ Old(p)) \cup {Req(p).nic})

Updated(p, n) == SetNics(p, (Nics(p) \ Old(p)) \cup {n})

UpdateNic(p) ==
  /\ pc[p] = "begin" /\ Req(p).op = "update-nic"
  /\ IF Old(p) = {} THEN GiveUp(p, TRUE)
     ELSE \E old \in Old(p) :
       LET new == Merged(old, Req(p).nic)
       IN  IF IsSameInterface(Nics(p), new) THEN GiveUp(p, FALSE)
           ELSE IF IsConflictInterface(WithoutNic(Nics(p), old), new) THEN GiveUp(p, TRUE)
           ELSE /\ IF Applies(p)
                   THEN /\ Remember(p, [mem[p] EXCEPT !.nic = new])
                        /\ Goto(p, IF new.type = "veth" THEN "confhost" ELSE "confctr")
                        /\ UNCHANGED pending
                   ELSE /\ Remember(p, Updated(p, new))
                        /\ Goto(p, "flush") /\ Postpone(Cid(p), Req(p).only)
                /\ UNCHANGED err
  /\ UNCHANGED <<lockVars, ctrVars, kernelVars, job, disturbed, envVars>>

\* AddRoutes returns at a route that is there already; the earlier ones stay.
RefuseRoute(p, r) ==
  /\ pc[p] = "routes" /\ Req(p).op = "add-route"
  /\ r \in mem[p].routes
  /\ ConflictsRoute(Routes(p), r)
  /\ Fail(p) /\ Goto(p, "flush")
  /\ UNCHANGED <<lockVars, ctrVars, kernelVars, job, mem, noteVars, envVars>>

AddRoute(p, r) ==
  /\ pc[p] = "routes" /\ Req(p).op = "add-route"
  /\ r \in mem[p].routes
  /\ ~ ConflictsRoute(Routes(p), r)
  /\ IF Applies(p) THEN RoutePossible(NsOf(p), r) /\ RouteAdd(NsOf(p), r)
                   ELSE UNCHANGED rtable
  /\ Remember(p, [SetRoutes(p, Routes(p) \cup {r}) EXCEPT !.routes = @ \ {r}])
  /\ Postpone(Cid(p), Req(p).only)
  /\ UNCHANGED <<lockVars, ctrVars, link, pc, job, err, disturbed, envVars>>

\* The route is taken out of the configuration again, and the command returns.
AddRouteFails(p, r) ==
  /\ pc[p] = "routes" /\ Req(p).op = "add-route"
  /\ r \in mem[p].routes
  /\ ~ ConflictsRoute(Routes(p), r)
  /\ Applies(p)
  /\ IF RoutePossible(NsOf(p), r) THEN Fault ELSE NoFault
  /\ Remember(p, SetRoutes(p, Routes(p)))
  /\ Fail(p) /\ Goto(p, "flush")
  /\ UNCHANGED <<lockVars, ctrVars, kernelVars, job, noteVars, crashes>>

\* DelRoutes takes the configured routes that a pattern stands for.
TakePattern(p, r) ==
  /\ pc[p] = "routes" /\ Req(p).op = "remove-route"
  /\ mem[p].matching = {} /\ r \in mem[p].routes
  /\ Remember(p, [mem[p] EXCEPT !.routes = @ \ {r}, !.matching = GetRoutes(Routes(p), r)])
  /\ err' = [err EXCEPT ![p] = @ \/ GetRoutes(Routes(p), r) = {}]
  /\ UNCHANGED <<lockVars, ctrVars, kernelVars, pc, job, noteVars, envVars>>

\* The interface the route names must be there; the route itself need not.
CanDelete(ns, r) ==
  /\ r.gw # Empty \/ r.dev # Empty
  /\ r.dev = Empty \/ LinksNamed(ns, r.dev) # {}

DelRoute(p, r) ==
  /\ pc[p] = "routes" /\ Req(p).op = "remove-route"
  /\ r \in mem[p].matching
  /\ IF Applies(p)
     THEN /\ CanDelete(NsOf(p), r)
          /\ LET meant == RoutesMeant(NsOf(p), r)
             IN  IF meant = {} THEN UNCHANGED rtable
                 ELSE \E k \in meant : rtable' = rtable \ {k}
     ELSE UNCHANGED rtable
  /\ Remember(p, [SetRoutes(p, WithoutRoute(Routes(p), r)) EXCEPT !.matching = @ \ {r}])
  /\ Postpone(Cid(p), Req(p).only)
  /\ UNCHANGED <<lockVars, ctrVars, link, pc, job, err, disturbed, envVars>>

\* The route is put back, and DelRoutes goes on.
DelRouteFails(p, r) ==
  /\ pc[p] = "routes" /\ Req(p).op = "remove-route"
  /\ r \in mem[p].matching
  /\ Applies(p)
  /\ IF CanDelete(NsOf(p), r) THEN Fault ELSE NoFault
  /\ Remember(p, [SetRoutes(p, Routes(p)) EXCEPT !.matching = @ \ {r}])
  /\ Fail(p)
  /\ UNCHANGED <<lockVars, ctrVars, kernelVars, pc, job, noteVars, crashes>>

RoutesDone(p) ==
  /\ pc[p] = "routes" /\ p \in Command
  /\ mem[p].routes = {} /\ mem[p].matching = {}
  /\ Goto(p, "flush")
  /\ UNCHANGED <<lockVars, ctrVars, kernelVars, job, mem, err, noteVars, envVars>>

\* The deferred Unlock.
Unlocked(p) == [flock EXCEPT ![Cid(p)] = NoOne]

\* The deferred Flush and Unlock.  UpdateNic flushes only when it succeeds, and
\* has nothing to write when it does not.
Flush(p) ==
  /\ pc[p] = "flush"
  /\ file' = IF mem[p].dirty THEN [file EXCEPT ![Cid(p)] = mem[p].conf] ELSE file
  /\ flock' = Unlocked(p)
  /\ Goto(p, "done") /\ Forget(p)
  /\ UNCHANGED <<ctrVars, kernelVars, job, err, noteVars, envVars>>

-----------------------------------------------------------------------------
(***************************************************************************)
(* The drivers, for commands and hooks                                     *)
(***************************************************************************)
\* AddNicToContainer has succeeded.
Added(a) ==
  /\ Goto(a, IF a \in Command THEN "flush" ELSE "each")
  /\ UNCHANGED <<mem, err>>

\* Mutant: a hook only logs the error.
AddFailedSilently(a) ==
  IF a \in Command
  THEN Fail(a) /\ Goto(a, "flush") /\ Remember(a, SetNics(a, WithoutNic(Nics(a), ThisNic(a))))
  ELSE Goto(a, "each") /\ UNCHANGED <<mem, err>>

\* It has failed: a command takes the nic out of the configuration again, the
\* start hook fails the start.
AddFailed(a) ==
  /\ Fail(a)
  /\ IF a \in Command
     THEN Goto(a, "flush") /\ Remember(a, SetNics(a, WithoutNic(Nics(a), ThisNic(a))))
     ELSE Goto(a, "abort") /\ UNCHANGED mem

\* DelNicFromContainer has succeeded, or DelNic takes its error for a success.
Deleted(a) ==
  /\ Goto(a, IF a \in Command THEN "flush" ELSE "each")
  /\ UNCHANGED <<mem, err>>

\* Mutant: the removal is tried until it succeeds.
DeleteRetried(a) == Goto(a, "delete") /\ UNCHANGED <<mem, err>>

\* It has failed: a command puts the nic back, the stop hook goes on.
DeleteFailed(a) ==
  IF a \in Command
  THEN /\ Goto(a, "flush") /\ Fail(a)
       /\ Remember(a, SetNics(a, Nics(a) \cup {ThisNic(a)}))
  ELSE Goto(a, "each") /\ UNCHANGED <<mem, err>>

\* UpdateNicInContainer has failed: nothing is saved.
UpdateFailed(p) == Goto(p, "flush") /\ Fail(p) /\ UNCHANGED mem

\* The pairs that can be made: a new pair is not one that a process still has in hand.
FreePairs ==
  {k \in Pair : /\ link[<<k, "host">>].ns = Nowhere /\ link[<<k, "ctr">>].ns = Nowhere
                /\ \A a \in Actor : mem[a].lnk \notin Ends(<<k, "host">>)}

\* A new pair, under random names.
Make(k) ==
  link' = [l \in Link |-> IF l \in Ends(<<k, "host">>) THEN Moved(HostNs, Tmp) ELSE link[l]]

\* CreateIf of a veth.
CreatePair(a) ==
  /\ pc[a] = "create" /\ ThisNic(a).type = "veth"
  /\ FreePairs # {}
  /\ LET k == CHOOSE k \in FreePairs : TRUE
     IN  Make(k) /\ Remember(a, [mem[a] EXCEPT !.lnk = <<k, "host">>])
  /\ Goto(a, "joinhost")
  /\ UNCHANGED <<lockVars, ctrVars, rtable, job, err, noteVars, envVars>>

\* The second half of CreateIf may fail too, and leaves the pair it has made.
CreatePairFails(a) ==
  /\ pc[a] = "create" /\ ThisNic(a).type = "veth"
  /\ FreePairs # {}
  /\ Fault
  /\ \/ UNCHANGED <<link, disturbed>>
     \/ Make(CHOOSE k \in FreePairs : TRUE) /\ Disturb(Cid(a), TRUE)
  /\ AddFailed(a)
  /\ UNCHANGED <<lockVars, ctrVars, rtable, job, pending, crashes>>

\* CreateIf of an eth looks for the interface on the host, and keeps its name.
TakeEth(a) ==
  /\ pc[a] = "create" /\ ThisNic(a).type = "eth"
  /\ LinksNamed(HostNs, ThisNic(a).host) # {}
  /\ Goto(a, "joinhost")
  /\ UNCHANGED <<lockVars, ctrVars, kernelVars, job, mem, err, noteVars, envVars>>

TakeEthFails(a) ==
  /\ pc[a] = "create" /\ ThisNic(a).type = "eth"
  /\ IF LinksNamed(HostNs, ThisNic(a).host) = {} THEN NoFault ELSE Fault
  /\ AddFailed(a)
  /\ UNCHANGED <<lockVars, ctrVars, kernelVars, job, noteVars, crashes>>

Peer(l) == <<l[1], "ctr">>

\* What the first function of NsInvoke works on: the pair that CreateIf has made;
\* an eth is looked up again, whatever has its name now.
ToJoin(a) ==
  IF ThisNic(a).type = "veth" THEN {mem[a].lnk} ELSE LinksNamed(HostNs, ThisNic(a).host)

\* Can it do its work?  A veth takes its name on the host.
CanJoin(a) ==
  /\ CanEnter(a)
  /\ IF ThisNic(a).type = "veth" THEN Free(HostNs, ThisNic(a).host) ELSE ToJoin(a) # {}

\* JoinAndConfigure, on the host: the container's end, or the interface itself
\* under a random name, is moved; the host's end is named and set up.  An interface
\* that only has the name now may be the end of a pair.
JoinHost(a) ==
  LET n == ThisNic(a)
  IN  /\ pc[a] = "joinhost"
      /\ CanJoin(a)
      /\ \E l \in ToJoin(a) :
           /\ link' = IF n.type = "veth"
                      THEN [link EXCEPT ![l].name = n.host, ![l].up = TRUE,
                                        ![Peer(l)] = Moved(NsOf(a), Tmp)]
                      ELSE [link EXCEPT ![l] = Moved(NsOf(a), Tmp)]
           /\ rtable' = rtable \ RoutesOver({l})
           /\ DisturbAll(IF n.type = "veth" \/ l = <<n.host, "phys">> THEN {}
                         ELSE Owners({l}) \cup {Cid(a)})
           /\ Remember(a, [mem[a] EXCEPT !.lnk = l])
      /\ Goto(a, "joinctr")
      /\ UNCHANGED <<lockVars, ctrVars, job, err, pending, envVars>>

\* The pair is deleted; the interface gets its name back.
JoinHostFails(a) ==
  /\ pc[a] = "joinhost"
  /\ IF CanJoin(a) THEN Fault ELSE NoFault
  /\ IF ThisNic(a).type = "veth" THEN Delete({mem[a].lnk}) ELSE UNCHANGED kernelVars
  /\ AddFailed(a)
  /\ UNCHANGED <<lockVars, ctrVars, job, noteVars, crashes>>

\* Mutant: the interface is not renamed on the host.
NoNameBack(n, otherwise) == otherwise

\* The name an interface has when it has come back to the host: its own, unless
\* that is taken.
NameBack(n, otherwise) == IF Free(HostNs, n) THEN n ELSE otherwise

\* The link that is moved.
Joining(a) == IF ThisNic(a).type = "veth" THEN Peer(mem[a].lnk) ELSE mem[a].lnk

\* In the container the link is named, configured and set up.
CanConfigure(a) ==
  /\ link[Joining(a)].ns = NsOf(a)
  /\ Free(NsOf(a), ThisNic(a).ctr)

JoinCtr(a) ==
  /\ pc[a] = "joinctr"
  /\ CanConfigure(a)
  /\ Change(Joining(a), Configured(NsOf(a), ThisNic(a)))
  /\ Added(a)
  /\ UNCHANGED <<lockVars, ctrVars, job, noteVars, envVars>>

\* The pairs that have the name on the host, whosever they are.
Victims(a) == LinksNamed(HostNs, ThisNic(a).host)

\* Mutant: what has been moved is left in the container.
LeaveBehind(a) == UNCHANGED <<kernelVars, disturbed>>

\* The recovery: the pair is deleted by its name on the host, the interface
\* moved back and renamed.
TakeBack(a) ==
  IF ThisNic(a).type = "veth"
  THEN Delete(Victims(a)) /\ DisturbAll(Owners(Victims(a)) \ {Cid(a)})
  ELSE /\ Change(mem[a].lnk, Moved(HostNs, NameBack(ThisNic(a).host, Tmp)))
       /\ Disturb(Cid(a), ~ Free(HostNs, ThisNic(a).host))

\* Is the interface that a moves where the driver has moved it?
Arrived(a) == link[mem[a].lnk].ns = IF pc[a] = "delhost" THEN HostNs ELSE NsOf(a)

\* Only an interface that the second function of NsInvoke does not find, or a
\* namespace that it cannot enter, leaves an eth where it is.
JoinCtrFails(a) ==
  /\ pc[a] = "joinctr"
  /\ \/ /\ ThisNic(a).type = "veth" \/ Arrived(a)
        /\ IF CanConfigure(a) THEN Fault ELSE NoFault
        /\ TakeBack(a)
     \/ /\ ThisNic(a).type = "eth" /\ IF Arrived(a) THEN Fault ELSE NoFault
        /\ UNCHANGED kernelVars /\ Disturb(Cid(a), TRUE)
  /\ AddFailed(a)
  /\ UNCHANGED <<lockVars, ctrVars, job, pending, crashes>>

\* DeleteIf of a veth: whatever pair has the name on the host is deleted.
DeletePair(a) ==
  /\ pc[a] = "delete" /\ ThisNic(a).type = "veth"
  /\ \A l \in Victims(a) : IsPair(l)
  /\ Delete(Victims(a)) /\ DisturbAll(Owners(Victims(a)) \ {Cid(a)})
  /\ Deleted(a)
  /\ UNCHANGED <<lockVars, ctrVars, job, pending, envVars>>

DeletePairFails(a) ==
  /\ pc[a] = "delete" /\ ThisNic(a).type = "veth"
  /\ IF \A l \in Victims(a) : IsPair(l) THEN Fault ELSE NoFault
  /\ DeleteFailed(a)
  /\ Disturb(Cid(a), a \in Container)
  /\ UNCHANGED <<lockVars, ctrVars, kernelVars, job, pending, crashes>>

\* DeleteIf of an eth, in the container: an interface that is not there is a
\* success; one that is gets a random name and is moved to the host.
DeleteEth(a) ==
  /\ pc[a] = "delete" /\ ThisNic(a).type = "eth"
  /\ CanEnter(a)
  /\ LET found == LinksNamed(NsOf(a), ThisNic(a).ctr)
     IN  IF found = {}
         THEN Deleted(a) /\ UNCHANGED kernelVars
         ELSE \E l \in found :
                /\ Change(l, Moved(HostNs, Tmp))
                /\ Remember(a, [mem[a] EXCEPT !.lnk = l])
                /\ Goto(a, "delhost") /\ UNCHANGED err
  /\ UNCHANGED <<lockVars, ctrVars, job, noteVars, envVars>>

\* The interface stays, perhaps set down and under the random name, which the
\* recovery looks for on the host.
DeleteEthFails(a) ==
  /\ pc[a] = "delete" /\ ThisNic(a).type = "eth"
  /\ IF ~ CanEnter(a) THEN NoFault /\ UNCHANGED <<kernelVars, disturbed>>
     ELSE /\ Fault
          /\ \/ UNCHANGED kernelVars /\ Disturb(Cid(a), a \in Container)
             \/ \E l \in LinksNamed(NsOf(a), ThisNic(a).ctr), n \in {ThisNic(a).ctr, Tmp} :
                   /\ Change(l, [link[l] EXCEPT !.name = n, !.up = FALSE])
                   /\ Disturb(Cid(a), TRUE)
  /\ DeleteFailed(a)
  /\ UNCHANGED <<lockVars, ctrVars, job, pending, crashes>>

\* On the host the interface gets the name it had.
NameEth(a) ==
  /\ pc[a] = "delhost"
  /\ Arrived(a) /\ Free(HostNs, ThisNic(a).host)
  /\ Change(mem[a].lnk, Moved(HostNs, ThisNic(a).host))
  /\ Deleted(a)
  /\ UNCHANGED <<lockVars, ctrVars, job, noteVars, envVars>>

\* The name is taken: the interface goes back into the container under its random
\* name or, if the container is gone, stays under the name it had there.
NameEthFails(a) ==
  /\ pc[a] = "delhost" /\ Arrived(a)
  /\ IF Free(HostNs, ThisNic(a).host) THEN Fault ELSE NoFault
  /\ Change(mem[a].lnk, IF CanEnter(a) THEN Moved(NsOf(a), Tmp)
                        ELSE Moved(HostNs, NameBack(ThisNic(a).ctr, Tmp)))
  /\ DeleteFailed(a) /\ Disturb(Cid(a), TRUE)
  /\ UNCHANGED <<lockVars, ctrVars, job, pending, crashes>>

\* The interface is not found on the host: DelNic takes this error for a success.
EthNotFound(a) ==
  /\ pc[a] = "delhost"
  /\ IF Arrived(a)
     THEN Fault /\ \E n \in {Tmp, NameBack(ThisNic(a).ctr, Tmp)} :
                     Change(mem[a].lnk, Moved(HostNs, n))
     ELSE NoFault /\ UNCHANGED kernelVars
  /\ Deleted(a) /\ Disturb(Cid(a), TRUE)
  /\ UNCHANGED <<lockVars, ctrVars, job, pending, crashes>>

\* Configure of a veth, on the host.
ConfigureHost(p) ==
  LET found == LinksNamed(HostNs, ThisNic(p).host)
  IN  /\ pc[p] = "confhost"
      /\ CanEnter(p) /\ found # {}
      /\ link' = [l \in Link |-> IF l \in found THEN [link[l] EXCEPT !.up = TRUE] ELSE link[l]]
      /\ Disturb(Cid(p), ~ \A l \in found : IsPair(l))
      /\ Goto(p, "confctr")
      /\ UNCHANGED <<lockVars, ctrVars, rtable, job, mem, err, pending, envVars>>

\* There is no clean up: the end on the host may stay down.
ConfigureHostFails(p) ==
  LET found == LinksNamed(HostNs, ThisNic(p).host)
  IN  /\ pc[p] = "confhost"
      /\ IF CanEnter(p) /\ found # {}
         THEN /\ Fault
              /\ \E up \in BOOLEAN :
                   /\ link' = [l \in Link |-> IF l \in found
                                              THEN [link[l] EXCEPT !.up = up] ELSE link[l]]
                   /\ DisturbAll(IF up /\ \A l \in found : IsPair(l) THEN {}
                                 ELSE Owners(found) \cup {Cid(p)})
         ELSE NoFault /\ UNCHANGED <<link, disturbed>>
      /\ UpdateFailed(p)
      /\ UNCHANGED <<lockVars, ctrVars, rtable, job, pending, crashes>>

\* The namespace is open already for a veth.
CanReach(p) == ThisNic(p).type = "veth" \/ CanEnter(p)

\* Configure, in the container: the interface is set down, changed and, unless it
\* is an eth that was down, set up.  Its routes do not come back.
ConfigureCtr(p) ==
  /\ pc[p] = "confctr"
  /\ CanReach(p)
  /\ \E l \in LinksNamed(NsOf(p), ThisNic(p).ctr) :
       Change(l, [link[l] EXCEPT !.ip = ThisNic(p).ip,
                                 !.up = @ \/ ThisNic(p).type = "veth"])
  /\ Remember(p, Updated(p, ThisNic(p)))
  /\ Goto(p, "flush")
  /\ UNCHANGED <<lockVars, ctrVars, job, err, noteVars, envVars>>

ConfigureCtrFails(p) ==
  LET found == LinksNamed(NsOf(p), ThisNic(p).ctr)
  IN  /\ pc[p] = "confctr"
      /\ IF CanReach(p) /\ found # {}
         THEN /\ Fault
              /\ \E l \in found : \E ip \in {link[l].ip, Empty, ThisNic(p).ip} :
                    Change(l, [link[l] EXCEPT !.ip = ip, !.up = FALSE])
              /\ Disturb(Cid(p), TRUE)
         ELSE NoFault /\ UNCHANGED <<kernelVars, disturbed>>
      /\ UpdateFailed(p)
      /\ UNCHANGED <<lockVars, ctrVars, job, pending, crashes>>

-----------------------------------------------------------------------------
(***************************************************************************)
(* The life of a container and its hooks                                   *)
(***************************************************************************)
\* iSulad creates the container and runs the prestart hook.
StartContainer(c) ==
  /\ st[c] = "stopped" /\ pc[c] = "idle"
  /\ inc[c] < MaxStarts
  /\ st' = [st EXCEPT ![c] = "creating"]
  /\ inc' = [inc EXCEPT ![c] = @ + 1]
  /\ Goto(c, "read")
  /\ err' = [err EXCEPT ![c] = FALSE]
  /\ Disturb(c, BusyOn(c))
  /\ UNCHANGED <<lockVars, netns, kernelVars, job, mem, pending, envVars>>

\* The container exits and the poststop hook runs.
StopContainer(c) ==
  /\ st[c] = "running"
  /\ st' = [st EXCEPT ![c] = "stopping"]
  /\ Goto(c, "read")
  /\ Disturb(c, BusyOn(c))
  /\ UNCHANGED <<lockVars, inc, netns, kernelVars, job, mem, err, pending, envVars>>

\* The last process of a container, and the last use of its namespace, are gone:
\* the kernel deletes a pair and gives another link back, under the name it had
\* in the namespace.
NamespaceGone(l) ==
  \E c \in Container, i \in 1..MaxStarts :
    /\ link[l].ns = <<c, i>>
    /\ ~ NsAlive(c, i)
    /\ IF IsPair(l) THEN Delete({l})
       ELSE Change(l, Moved(HostNs, NameBack(link[l].name, Tmp)))
    /\ UNCHANGED <<lockVars, ctrVars, pc, job, mem, err, noteVars, envVars>>

\* prepareHookData, without the lock.
ReadConfig(c) ==
  /\ pc[c] = "read"
  /\ Remember(c, [NoMemory EXCEPT !.conf = file[c], !.nics = file[c].nics,
                                  !.routes = file[c].routes])
  /\ Goto(c, IF st[c] = "creating" THEN "mount" ELSE "open")
  /\ UNCHANGED <<lockVars, ctrVars, kernelVars, job, err, noteVars, envVars>>

\* os.Create; what is mounted on the file already stays.
FileIn(mounts) == IF mounts = <<>> THEN <<0>> ELSE mounts

\* UpdateNetwork creates the netns file and binds the namespace to it.
MountNetns(c) ==
  /\ pc[c] = "mount"
  /\ netns' = [netns EXCEPT ![c] = <<inc[c]>> \o FileIn(@)]
  /\ Goto(c, "each")
  /\ UNCHANGED <<lockVars, st, inc, kernelVars, job, mem, err, noteVars, envVars>>

\* That, a part of the hook before it, or a part after it fails the start.
StartFails(c) ==
  /\ \/ pc[c] = "mount" /\ \E m \in {netns[c], FileIn(netns[c])} :
                              netns' = [netns EXCEPT ![c] = m]
     \/ pc[c] = "routes" /\ mem[c].routes = {} /\ UNCHANGED netns
  /\ c \in Container
  /\ Fault
  /\ Fail(c) /\ Goto(c, "abort")
  /\ UNCHANGED <<lockVars, st, inc, kernelVars, job, mem, noteVars, crashes>>

\* RemoveNetworkDevices opens the netns file, or gives up.
OpenNetns(c) ==
  /\ pc[c] = "open"
  /\ Goto(c, IF netns[c] = <<>> THEN "done" ELSE "each")
  /\ UNCHANGED <<lockVars, ctrVars, kernelVars, job, mem, err, noteVars, envVars>>

\* Both hooks go through the nics, the start hook then through the routes.
HookNic(c, n) ==
  /\ pc[c] = "each" /\ n \in mem[c].nics
  /\ Remember(c, [mem[c] EXCEPT !.nics = @ \ {n}, !.nic = n, !.lnk = NoOne])
  /\ Goto(c, IF st[c] = "creating" THEN "create" ELSE "delete")
  /\ UNCHANGED <<lockVars, ctrVars, kernelVars, job, err, noteVars, envVars>>

HookNicsDone(c) ==
  /\ pc[c] = "each" /\ mem[c].nics = {}
  /\ Goto(c, IF st[c] = "creating" THEN "routes" ELSE "unmount")
  /\ UNCHANGED <<lockVars, ctrVars, kernelVars, job, mem, err, noteVars, envVars>>

HookRoute(c, r) ==
  /\ pc[c] = "routes" /\ c \in Container /\ r \in mem[c].routes
  /\ RoutePossible(NsOf(c), r)
  /\ RouteAdd(NsOf(c), r)
  /\ Remember(c, [mem[c] EXCEPT !.routes = @ \ {r}])
  /\ UNCHANGED <<lockVars, ctrVars, link, pc, job, err, noteVars, envVars>>

HookRouteFails(c, r) ==
  /\ pc[c] = "routes" /\ c \in Container /\ r \in mem[c].routes
  /\ IF RoutePossible(NsOf(c), r) THEN Fault ELSE NoFault
  /\ Fail(c) /\ Goto(c, "abort")
  /\ UNCHANGED <<lockVars, ctrVars, kernelVars, job, mem, noteVars, crashes>>

HookRoutesDone(c) ==
  /\ pc[c] = "routes" /\ c \in Container /\ mem[c].routes = {}
  /\ Goto(c, "done")
  /\ UNCHANGED <<lockVars, ctrVars, kernelVars, job, mem, err, noteVars, envVars>>

\* Mutant: nothing is unmounted.
MountKept(mounts) == mounts

\* Unmount and the deferred Remove, which fails while something is mounted.
Unmounted(mounts) ==
  LET left == IF Head(mounts) = 0 THEN mounts ELSE Tail(mounts)
  IN  IF left = <<0>> THEN <<>> ELSE left

UnmountNetns(c) ==
  /\ pc[c] = "unmount"
  /\ netns' = [netns EXCEPT ![c] = Unmounted(@)]
  /\ Goto(c, "done")
  /\ UNCHANGED <<lockVars, st, inc, kernelVars, job, mem, err, noteVars, envVars>>

\* The prestart hook failed: the container is taken down, with or without its
\* poststop hook.
AbortStart(c) ==
  /\ pc[c] = "abort"
  /\ st' = [st EXCEPT ![c] = "stopping"]
  /\ \E poststop \in BOOLEAN :
       /\ Goto(c, IF poststop THEN "read" ELSE "done")
       /\ Disturb(c, ~ poststop)
  /\ Forget(c)
  /\ UNCHANGED <<lockVars, inc, netns, kernelVars, job, err, pending, envVars>>

\* The hook has returned.  A start that has succeeded agrees with the
\* configuration it read.
HookReturns(c) ==
  /\ pc[c] = "done" /\ c \in Container
  /\ st' = [st EXCEPT ![c] = IF @ = "creating" THEN "running" ELSE "stopped"]
  /\ pending' = [pending EXCEPT ![c] = @ /\ st[c] # "creating"]
  /\ Goto(c, "idle")
  /\ Forget(c)
  /\ UNCHANGED <<lockVars, inc, netns, kernelVars, job, err, disturbed, envVars>>

\* The process is killed, and the kernel releases its lock.
Crash(a) ==
  /\ pc[a] \notin {"idle", "abort", "done"}
  /\ crashes < MaxCrashes
  /\ crashes' = crashes + 1
  /\ flock' = [c \in Container |-> IF flock[c] = a THEN NoOne ELSE flock[c]]
  /\ Fail(a)
  /\ Goto(a, IF a \in Container /\ st[a] = "creating" THEN "abort" ELSE "done")
  /\ Forget(a)
  /\ Disturb(Cid(a), TRUE)
  /\ UNCHANGED <<file, ctrVars, kernelVars, job, pending, faults>>

-----------------------------------------------------------------------------
DriverStep(a) ==
  \/ CreatePair(a) \/ CreatePairFails(a) \/ TakeEth(a) \/ TakeEthFails(a)
  \/ JoinHost(a) \/ JoinHostFails(a) \/ JoinCtr(a) \/ JoinCtrFails(a)
  \/ DeletePair(a) \/ DeletePairFails(a) \/ DeleteEth(a) \/ DeleteEthFails(a)
  \/ NameEth(a) \/ NameEthFails(a) \/ EthNotFound(a)

CommandNext(p) ==
  \/ LockAndLoad(p)
  \/ AddNic(p) \/ DelNic(p) \/ UpdateNic(p)
  \/ ConfigureHost(p) \/ ConfigureHostFails(p)
  \/ ConfigureCtr(p) \/ ConfigureCtrFails(p)
  \/ \E r \in mem[p].routes : \/ RefuseRoute(p, r) \/ AddRoute(p, r)
                              \/ AddRouteFails(p, r) \/ TakePattern(p, r)
  \/ \E r \in mem[p].matching : DelRoute(p, r) \/ DelRouteFails(p, r)
  \/ DriverStep(p)
  \/ RoutesDone(p) \/ Flush(p)

HookNext(c) ==
  \/ ReadConfig(c) \/ MountNetns(c) \/ StartFails(c) \/ OpenNetns(c)
  \/ \E n \in mem[c].nics : HookNic(c, n)
  \/ DriverStep(c)
  \/ HookNicsDone(c)
  \/ \E r \in mem[c].routes : HookRoute(c, r) \/ HookRouteFails(c, r)
  \/ HookRoutesDone(c) \/ UnmountNetns(c)
  \/ AbortStart(c) \/ HookReturns(c)

Environment ==
  \/ \E p \in Command, r \in Requests : Begin(p, r)
  \/ \E c \in Container : StartContainer(c) \/ StopContainer(c)
  \/ \E a \in Actor : Crash(a)

Next ==
  \/ \E p \in Command : CommandNext(p)
  \/ \E c \in Container : HookNext(c)
  \/ \E l \in Link : NamespaceGone(l)
  \/ Environment

Spec == Init /\ [][Next]_vars

\* Every process that has been started runs on, and so does the kernel.
Fairness ==
  /\ \A p \in Command : WF_vars(CommandNext(p))
  /\ \A c \in Container : WF_vars(HookNext(c))
  /\ \A l \in Link : WF_vars(NamespaceGone(l))

FairSpec == Spec /\ Fairness

-----------------------------------------------------------------------------
(***************************************************************************)
(* Properties                                                              *)
(***************************************************************************)
\* No two nics of a container share a name, an address or a hardware address,
\* whatever is added, updated, rolled back or killed (IsConflictInterface, and
\* UpdateNic's check without the old nic).
NicsDistinct == \A c \in Container : Distinct(file[c].nics)

\* Nobody works on c, and the kernel has cleaned up after it.
Quiet(c) ==
  /\ pc[c] = "idle" /\ ~ BusyOn(c)
  /\ \A l \in Link, i \in 1..MaxStarts : link[l].ns = <<c, i>> => NsAlive(c, i)

Undisturbed(c) == Quiet(c) /\ ~ disturbed[c]

LinksIn(ns) == {l \in Link : link[l].ns = ns}

\* Link l is what nic n of container c asks for.
Stands(c, l, n) ==
  /\ link[l] = [ns |-> <<c, inc[c]>>, name |-> n.ctr, ip |-> n.ip, up |-> TRUE]
  /\ IF n.type = "eth" THEN l = <<n.host, "phys">>
     ELSE \E k \in Pair :
            /\ l = <<k, "ctr">>
            /\ link[<<k, "host">>] = [ns |-> HostNs, name |-> n.host, ip |-> Empty, up |-> TRUE]

\* Nic n is there, and nothing else has its name.
InPlace(c, n) ==
  \E l \in Link : LinksNamed(<<c, inc[c]>>, n.ctr) = {l} /\ Stands(c, l, n)

\* After starts, stops and commands that did not overlap, a running container has
\* exactly the interfaces that are configured, named, addressed and up: also
\* after an add or a removal that failed half way and was rolled back
\* (JoinAndConfigure, AddNic, DelNic), but for the failures nothing puts right.
NicsAgree ==
  \A c \in Container : st[c] = "running" /\ Undisturbed(c) /\ ~ pending[c] =>
    /\ \A n \in file[c].nics : InPlace(c, n)
    /\ \A l \in LinksIn(<<c, inc[c]>>) : \E n \in file[c].nics : Stands(c, l, n)

\* In the same circumstances every route of its namespace is configured, so that
\* it can be removed (AddRoutes, DelRoutes and their roll backs).
RoutesAgree ==
  \A c \in Container : st[c] = "running" /\ Undisturbed(c) /\ ~ pending[c] =>
    \A k \in rtable : k.ns = <<c, inc[c]>> =>
      \E r \in file[c].routes :
        /\ KernelDest(r.dest) = k.dest /\ r.gw = k.gw
        /\ r.dev \in {link[k.lnk].name, Empty}

\* When nothing is under way and nothing has disturbed it, the host has its
\* physical interfaces back, under their names, and of a stopped container no
\* pair is left (DeleteIf and the recoveries of both drivers, the netns file).
HostClean ==
  (\A c \in Container : Undisturbed(c)) =>
    \A l \in Link :
      IF IsPair(l)
      THEN link[Peer(l)].ns # Nowhere =>
             \E c \in Container : st[c] = "running" /\ link[Peer(l)].ns = <<c, inc[c]>>
      ELSE \/ link[l] = AtHome(l[1])
           \/ \E c \in Container : st[c] = "running" /\ link[l].ns = <<c, inc[c]>>

\* A start that succeeds, while no command was under way, has brought in all it
\* read from the configuration, the interfaces and the routes over them
\* (UpdateNetwork).
StartInstallsNetwork ==
  [][\A c \in Container : st[c] = "creating" /\ st'[c] = "running" /\ ~ disturbed[c] =>
       /\ \A n \in Nics(c) : InPlace(c, n)
       /\ \A r \in Routes(c) : RoutesMeant(<<c, inc[c]>>, r) # {}]_vars

\* The commands are the atomic commands of NetStore, in spite of what fails in
\* the kernel, of the containers that start and stop, and of kills.
Store ==
  INSTANCE NetStore WITH
    Request <- Requests \cup {NoJob(CHOOSE c \in Container : TRUE).req},
    store   <- file,
    phase   <- [p \in Command |-> IF Busy(p) THEN "pending" ELSE pc[p]],
    order   <- [p \in Command |-> job[p].req],
    ok      <- [p \in Command |-> pc[p] = "done" /\ ~ err[p]]

NetStoreRefined == Store!StoreSpec

\* A physical interface in the namespace of a container that starts or runs leaves it
\* only by a step of what works for this container, its hooks or a command on it (the
\* namespaces in which the drivers look for names, and the random names under which
\* they move an interface).  A pair is deleted by its name on the host, whosever it is.
OthersKept ==
  [][\A c \in Container, e \in Eth :
       /\ link[<<e, "phys">>].ns = <<c, inc[c]>> /\ st[c] \in {"creating", "running"}
       /\ link'[<<e, "phys">>].ns # <<c, inc[c]>>
       => \E a \in Actor : Cid(a) = c /\ pc'[a] # pc[a]]_vars

\* Every command, every start and every stop comes to an end.
NetCommandsFinish ==
  /\ \A p \in Command : pc[p] # "idle" ~> pc[p] = "done"
  /\ \A c \in Container : pc[c] # "idle" ~> pc[c] = "idle"

\* A physical interface that is still in the namespace of a stopped container, as
\* after an add-nic that overlapped the stop, gets back to the host: the stop hook
\* has unmounted the netns file and no process keeps the namespace open, unless
\* one was killed and its mount is left (RemoveNetworkDevices, NsInvoke's Close).
NicsComeHome ==
  \A c \in Container, e \in Eth :
    (/\ link[<<e, "phys">>].ns \in {c} \X (1..MaxStarts)
     /\ st[c] = "stopped" /\ (crashes = 0 \/ netns[c] = <<>>))
      ~> (link[<<e, "phys">>].ns = HostNs \/ st[c] # "stopped")

-----------------------------------------------------------------------------
(***************************************************************************)
(* What the documentation says and the code does not do                    *)
(***************************************************************************)
\* hooks/syscontainer-hooks/README.md:14, "And the hook will make sure the
\* resources you added to container will be persistent after restart": a start
\* that nothing has disturbed, and in which no call fails for another reason,
\* succeeds.
StartsSucceed ==
  \A c \in Container : pc[c] = "abort" => faults > 0 \/ disturbed[c]

=============================================================================

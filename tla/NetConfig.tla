------------------------------- MODULE NetConfig -------------------------------
(***************************************************************************)
(* The network interfaces and routes of a container's device_hook.json,    *)
(* with the operations of config/config_network.go and types/network.go.   *)
(*                                                                         *)
(* The two JSON arrays are sets: no two of their elements are equal, and   *)
(* nothing but the order of the calls depends on theirs.  Of a nic this    *)
(* module has what tells nics apart and one setting, qlen, for which zero  *)
(* is a value; mtu and bridge are compared and merged like mac.  A route's *)
(* src is compared like its gw.                                            *)
(***************************************************************************)
EXTENDS Integers, FiniteSets

CONSTANTS
  HostName,    \* names of interfaces on the host
  CtrName,     \* names of interfaces in a container
  IP, Mac,     \* addresses
  Qlen,        \* lengths of the transmit queue
  Dest,        \* destinations of routes
  MaxNicNum    \* the limit on the number of nics

\* An argument that is not given, and the -1 that stands for a qlen not given.
Empty == ""
NoQlen == -1

ASSUME NetNamesAssumption ==
  /\ HostName # {} /\ CtrName # {} /\ IP # {} /\ Qlen # {}
  /\ Empty \notin HostName \cup CtrName \cup IP \cup Mac
  /\ Qlen \subseteq Nat
  /\ MaxNicNum \in Nat

Type == {"veth", "eth"}

Nic ==
  [type: Type, host: HostName, ctr: CtrName, ip: IP, mac: Mac \cup {Empty}, qlen: Qlen]

\* What a command line may say of a nic.
NicArg ==
  [type: Type \cup {Empty}, host: HostName \cup {Empty}, ctr: CtrName \cup {Empty},
   ip: IP \cup {Empty}, mac: Mac \cup {Empty}, qlen: Qlen \cup {NoQlen}]

\* The gateway of a route is named by the address of the interface whose network
\* it is on.
Route == [dest: Dest, gw: IP \cup {Empty}, dev: CtrName \cup {Empty}]

Conf == [nics: SUBSET Nic, routes: SUBSET Route]

-----------------------------------------------------------------------------
(***************************************************************************)
(* Nics                                                                    *)
(***************************************************************************)
\* Mutant: the addresses are not compared.
ConflictByName(n, e) == n.ctr = e.ctr \/ n.host = e.host

IsConflictNic(n, e) ==
  \/ n.ctr = e.ctr
  \/ n.host = e.host
  \/ n.mac # Empty /\ n.mac = e.mac
  \/ n.ip = e.ip

IsConflictInterface(nics, n) == \E e \in nics : IsConflictNic(n, e)

\* What obj leaves empty, or zero, agrees with anything.
Agrees(field, with) == field = with \/ field = Empty

IsSameNic(obj, src) ==
  /\ Agrees(obj.type, src.type) /\ Agrees(obj.host, src.host) /\ Agrees(obj.ctr, src.ctr)
  /\ Agrees(obj.ip, src.ip) /\ Agrees(obj.mac, src.mac)
  /\ obj.qlen \in {src.qlen, 0}

\* No two of these nics share a name, an address or a hardware address.
Distinct(nics) ==
  \A n, e \in nics : n # e =>
    /\ n.ctr # e.ctr /\ n.host # e.host /\ n.ip # e.ip
    /\ n.mac = e.mac => n.mac = Empty

IsSameInterface(nics, n) == \E e \in nics : IsSameNic(n, e)

\* FindInterfaceByName, at most one of a container's nics.
FindInterfaceByName(nics, arg) ==
  {e \in nics :
     /\ arg.type \in {e.type, Empty}
     /\ \/ arg.ctr = e.ctr /\ arg.host \in {e.host, Empty}
        \/ arg.host = e.host /\ arg.ctr \in {e.ctr, Empty}}

\* UpdateNetworkInterface(nic, false), for a nic of the container.
WithoutNic(nics, n) == nics \ {n}

\* UpdateNic: what the command line gives replaces what the nic has.
Given(value, old) == IF value = Empty THEN old ELSE value

Merged(old, arg) ==
  [old EXCEPT !.ip = Given(arg.ip, @), !.mac = Given(arg.mac, @),
              !.qlen = IF arg.qlen < 0 THEN @ ELSE arg.qlen]

\* CheckNicNum.
NicLimitReached(nics) == Cardinality(nics) > MaxNicNum

-----------------------------------------------------------------------------
(***************************************************************************)
(* Routes                                                                  *)
(***************************************************************************)
IsSameRoute(obj, src) ==
  Agrees(obj.dest, src.dest) /\ Agrees(obj.gw, src.gw) /\ Agrees(obj.dev, src.dev)

\* IsConflictRoute looks at what the new route says only.
ConflictsRoute(routes, r) == \E e \in routes : IsSameRoute(r, e)

GetRoutes(routes, r) == {e \in routes : IsSameRoute(r, e)}

\* UpdateNetworkRoutes(route, false), for a route of the container.
WithoutRoute(routes, r) == routes \ {r}

\* The kernel's name for a destination.
KernelDest(dest) == IF dest = Empty THEN "default" ELSE dest

=============================================================================

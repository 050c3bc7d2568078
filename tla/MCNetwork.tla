------------------------------- MODULE MCNetwork -------------------------------
(***************************************************************************)
(* Instances of Network for TLC.                                           *)
(***************************************************************************)
EXTENDS Network, TLC

CONSTANTS c1, c2, p1, p2

EthNic == [type |-> "eth", host |-> "e0", ctr |-> "eth0", ip |-> "a", mac |-> "", qlen |-> 1]
VethNic == [type |-> "veth", host |-> "v0", ctr |-> "eth1", ip |-> "b", mac |-> "", qlen |-> 1]

Arg(ctr, host) == [NoArg EXCEPT !.ctr = ctr, !.host = host]
R(dest, gw, dev) == [dest |-> dest, gw |-> gw, dev |-> dev]

AddLine(c, n, only) ==
  [op |-> "add-nic", cid |-> c, nic |-> n, routes |-> {}, only |-> only]
NicLine(op, c, arg) == [op |-> op, cid |-> c, nic |-> arg, routes |-> {}, only |-> FALSE]
RouteLine(op, c, routes, only) ==
  [op |-> op, cid |-> c, nic |-> NoArg, routes |-> routes, only |-> only]

\* A container that has not been configured, and one with a nic and a route.
FirstFiles == {NoConf, [nics |-> {VethNic}, routes |-> {R("default", "b", "")}]}
OneNic == {[nics |-> {EthNic}, routes |-> {R("net", "", "eth0")}]}

\* Commands on the two kinds of nic, and on routes over them.
NetRequests ==
  {AddLine(c1, EthNic, FALSE),
   AddLine(c1, VethNic, TRUE),
   NicLine("remove-nic", c1, Arg("", "e0")),
   NicLine("remove-nic", c1, Arg("eth1", "")),
   NicLine("update-nic", c1, [NoArg EXCEPT !.ctr = "eth1", !.ip = "a"]),
   RouteLine("add-route", c1, {R("default", "b", ""), R("", "a", "")}, FALSE),
   RouteLine("remove-route", c1, {R("", "", "eth0"), R("default", "", "")}, FALSE)}

\* Two containers that want the same name on the host, one of them also for a veth,
\* and commands that are killed.
EachOne == {NoConf, [nics |-> {EthNic}, routes |-> {}]}
KillRequests ==
  {AddLine(c1, EthNic, FALSE), AddLine(c2, [EthNic EXCEPT !.ctr = "eth1", !.ip = "b"], FALSE),
   AddLine(c2, [EthNic EXCEPT !.type = "veth"], FALSE),
   NicLine("remove-nic", c1, Arg("", "e0"))}

\* The only nic, over which the route goes.
RemoveRequests == {NicLine("remove-nic", c1, Arg("eth0", ""))}

=============================================================================

----------------------------- MODULE MCDeviceTools -----------------------------
(***************************************************************************)
(* Instances of DeviceTools for TLC: two disks and the partition of one,   *)
(* a character device, and the command lines a run considers.              *)
(***************************************************************************)
EXTENDS DeviceTools, TLC

CONSTANTS c1, c2, p1, p2

\* Host devices.  "id" is a link under /dev/disk/by-id to a disk of its own.
AllDevs == {"sda", "sda1", "id", "tty"}
MCDevPath == AllDevs \cup {"x", "y", "xa1", "idbase"}

DevSda == {"sda"}
DevTwo == {"sda", "tty"}
DevThree == {"sda", "sda1", "tty"}
DevAlias == {"id"}

MCParent(devs) == [h \in devs |-> IF h = "sda1" THEN "sda" ELSE Unset]
MCKind(devs) == [h \in devs |-> CASE h = "sda1" -> "part"
                                  [] h = "tty" -> "char"
                                  [] OTHER -> "disk"]
MCNumber(devs) == [h \in devs |-> CASE h = "sda" -> 1 [] h = "tty" -> 2
                                    [] h = "sda1" -> 3 [] h = "id" -> 4 [] OTHER -> 5]

MCBaseName == [n \in MCDevPath |-> IF n = "id" THEN "idbase" ELSE n]
MCPartPath(devs) == [p \in MCDevPath |-> [h \in devs |-> "xa1"]]
NoImageNode == [p \in MCDevPath |-> 0]

ParentTwo == MCParent(DevTwo)
KindTwo == MCKind(DevTwo)
NumberTwo == MCNumber(DevTwo)
PartPathTwo == MCPartPath(DevTwo)

Arg(h, p) == [host |-> h, path |-> p]
Line(op, c, devs) ==
  [op |-> op, cid |-> c, devs |-> devs, limits |-> {},
   follow |-> FALSE, force |-> FALSE, cfgOnly |-> FALSE]
Limited(r, h, v) == [r EXCEPT !.limits = @ \cup {[path |-> h, val |-> v]}]

\* Two commands that compete for the names of a disk, its partition and a
\* character device, on either side.
KindThree == MCKind(DevThree)
ParentThree == MCParent(DevThree)
NumberThree == MCNumber(DevThree)
PartPathThree == MCPartPath(DevThree)
Following(r) == [r EXCEPT !.follow = TRUE]
RivalRequests ==
  {Line("add", c1, {Arg("sda", "x")}), Line("add", c1, {Arg("tty", Unset)}),
   Line("add", c1, {Arg("tty", "x"), Arg("sda", "y")}),
   Line("remove", c1, {Arg("sda", Unset)}), Line("remove", c1, {Arg(Unset, "x")}),
   Limited(Line("add", c1, {Arg("sda", "y")}), "sda", 1),
   Limited(Line("update", c1, {}), "sda", 2),
   Following(Line("add", c1, {Arg("sda", "x")})),
   Following(Line("add", c1, {Arg("sda", Unset)})),
   Line("add", c1, {Arg("sda1", "xa1")}),
   Following(Line("remove", c1, {Arg("sda", Unset)})),
   Following(Line("remove", c1, {Arg(Unset, "x")})),
   Line("remove", c1, {Arg("sda1", Unset)})}

\* Commands on a container that starts and stops meanwhile, and whose image
\* has a node of its own at "x".
LifeRequests ==
  {[Line("add", c1, {Arg("sda", "x")}) EXCEPT !.force = f] : f \in BOOLEAN}
  \cup {Line("remove", c1, {Arg("sda", Unset)}),
        Limited(Line("add", c1, {Arg("sda", "y")}), "sda", 1)}
ImageNodeAtX == [p \in MCDevPath |-> IF p = "x" THEN 9 ELSE 0]

\* One device that may vanish and come back under another number.
KindSda == MCKind(DevSda)
ParentSda == MCParent(DevSda)
NumberSda == MCNumber(DevSda)
PartPathSda == MCPartPath(DevSda)

\* Killed at any step.
CrashRequests ==
  {Line("add", c1, {Arg("sda", "x")}), Line("remove", c1, {Arg("sda", Unset)}),
   Limited(Line("update", c1, {}), "sda", 2)}

\* Two containers with the same names in them, and a limit, which a change of
\* the device's number carries along.  The commands are alike and so are the
\* containers; the run checks safety only.
NeighbourRequests ==
  UNION {{Limited(Line("add", c, {Arg("sda", "x")}), "sda", 1),
          Line("remove", c, {Arg("sda", Unset)})} : c \in {c1, c2}}
NeighbourSymmetry == Permutations({p1, p2}) \cup Permutations({c1, c2})

\* A disk named by a link, which is what a configuration that is to survive a
\* reboot is written with.
KindAlias == MCKind(DevAlias)
ParentAlias == MCParent(DevAlias)
NumberAlias == MCNumber(DevAlias)
PartPathAlias == MCPartPath(DevAlias)
AliasRequests == {Line("add", c1, {Arg("id", "x")})}

\* Two devices added one after the other, nothing removed.
AddRequests == {Line("add", c1, {Arg("sda", "x")}), Line("add", c1, {Arg("tty", "y")})}

=============================================================================

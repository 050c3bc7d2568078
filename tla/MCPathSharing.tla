----------------------------- MODULE MCPathSharing -----------------------------
(***************************************************************************)
(* Instances of PathSharing for TLC: two host directories, two paths in    *)
(* the container, options with and without "ro", and the command lines a   *)
(* run considers.                                                          *)
(***************************************************************************)
EXTENDS PathSharing, TLC

CONSTANTS c1, p1, p2

B(h, q, perm) == [host |-> h, path |-> q, perm |-> perm]
Line(op, c, binds) == [op |-> op, cid |-> c, binds |-> binds]

\* A container that has not been configured, one with a directory at two paths,
\* and one with a directory it cannot write.
SharedTwice == {B("h", "x", "rw"), B("h", "y", "rw")}
FirstFiles == {{}, SharedTwice, {B("g", "y", "ro")}}
OneFile == {{B("h", "x", "rw")}}

\* Commands that compete for the directories and the paths.
PathRequests ==
  {Line("add", c1, {B("h", "x", NoPerm)}),
   Line("add", c1, {B("h", "y", "rw"), B("g", "x", "rw")}),
   Line("remove", c1, {B("h", "x", NoPerm)}),
   Line("remove", c1, {B("h", "x", "rw"), B("h", "y", "rw")})}

\* Commands that are killed, some of which ask for what does not fit.
KillRequests ==
  {Line("add", c1, {B("h", "y", NoPerm)}),
   Line("add", c1, {B("h", "y", "ro"), B("g", "y", "ro")}),
   Line("remove", c1, {B("h", "x", NoPerm)})}

\* A bind taken away and added again.
AgainRequests ==
  {Line("remove", c1, {B("h", "x", NoPerm)}), Line("add", c1, {B("h", "x", NoPerm)})}

=============================================================================

------------------------------ MODULE PathConfig -------------------------------
(***************************************************************************)
(* The bind mounts of a container's device_hook.json (bindToAdd), with the *)
(* operations of config/config.go and config/config_device.go on them.     *)
(*                                                                         *)
(* The JSON array is a set: nothing depends on its order.  bindsInfo, the  *)
(* table of container paths and of host paths with their use counts that   *)
(* the program keeps beside the array, is what the array says: a host      *)
(* path is in it while a bind uses it.                                     *)
(***************************************************************************)
EXTENDS Naturals, FiniteSets

CONSTANTS
  HostPath,     \* directories of the host
  CtrPath,      \* paths in a container
  Perm,         \* mount options, a list like "rw,rslave"
  DefaultPerm,  \* the options of an argument that gives none
  NoPerm,       \* the options of such an argument
  Writable,     \* the options without "ro"
  MaxPathNum    \* the limit on the number of binds

ASSUME PermsAssumption ==
  /\ DefaultPerm \in Perm
  /\ NoPerm \notin Perm
  /\ Writable \subseteq Perm

Bind == [host: HostPath, path: CtrPath, perm: Perm]

\* Mutant: the options stay empty.
ParsedAsGiven(b) == b

\* ParseBind gives a bind without options the default ones.
Parsed(b) == IF b.perm = NoPerm THEN [b EXCEPT !.perm = DefaultPerm] ELSE b

-----------------------------------------------------------------------------
\* Mutant: the options of a host path are not compared.
TakenPath(binds, b) == \E e \in binds : e.path = b.path

\* bindsInfo.add: a path of the container shows one host path only, and a host
\* path is mounted with the same options everywhere.
Refused(binds, b) ==
  \/ \E e \in binds : e.path = b.path
  \/ \E e \in binds : e.host = b.host /\ e.perm # b.perm

\* hostPathExist, the answer of UpdateBind(b, true) before b is added.
HostPathExists(binds, b) == \E e \in binds : e.host = b.host

\* bindIndexInArray compares the two paths and not the options.
SameBind(e, b) == e.host = b.host /\ e.path = b.path

GetBindInConfig(binds, b) == {e \in binds : SameBind(e, b)}

\* UpdateBind(b, false), and its answer: was b the last user of its host path?
Without(binds, b) == {e \in binds : ~ SameBind(e, b)}

\* Mutant: the use count is not looked at.
AnyUser(binds, b) == TRUE

\* Mutant: the use count is not reduced.
NeverLast(binds, b) == FALSE

LastUser(binds, b) == ~ HostPathExists(Without(binds, b), b)

\* CheckPathNum.
LimitReached(binds) == Cardinality(binds) > MaxPathNum

-----------------------------------------------------------------------------
\* LoadContainerHookConfig adds bind after bind, and fails if one is refused.
Loadable(binds) ==
  \A e, f \in binds : e # f =>
    /\ e.path # f.path
    /\ e.host = f.host => e.perm = f.perm

=============================================================================

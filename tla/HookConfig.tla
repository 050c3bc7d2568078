------------------------------ MODULE HookConfig ------------------------------
(***************************************************************************)
(* The part of a container's device_hook.json that add-device,             *)
(* remove-device, update-device and the start hook work on: the device     *)
(* mappings and the bandwidth limits, with the operations of               *)
(* config/config_device.go on them.                                        *)
(*                                                                         *)
(* The two JSON arrays are sets.  A device number stands for the pair      *)
(* (Major, Minor) and the node type; of the five limit arrays (read/write  *)
(* iops, read/write bps, weight), which every operation treats alike, one  *)
(* is modelled.                                                            *)
(***************************************************************************)
EXTENDS Naturals, FiniteSets

CONSTANTS
  DevPath,    \* device path names, on the host or inside a container
  HostDev,    \* the names that may exist as devices on the host
  Unset,      \* the empty string
  Parent,     \* Parent[h]: the base device of a partition, or Unset
  Value       \* the values of a limit

ASSUME NamesAssumption ==
  /\ HostDev \subseteq DevPath
  /\ Unset \notin DevPath
  /\ Parent \in [HostDev -> HostDev \cup {Unset}]

\* What a user names on the command line; either side may be left empty.
Argument == [host: DevPath \cup {Unset}, path: DevPath \cup {Unset}]

\* types.Device, and DeviceMapping as it is stored.
Device  == [host: DevPath \cup {Unset}, path: DevPath \cup {Unset}, num: Nat]
Mapping == [host: HostDev, path: DevPath, num: Nat]
Qos     == [path: HostDev, num: Nat, val: Value]

Config == [devices: SUBSET Mapping, qos: SUBSET Qos]

EmptyConfig == [devices |-> {}, qos |-> {}]

-----------------------------------------------------------------------------
\* DeviceIndexInArray: an empty side of d matches anything.
Matches(e, d) ==
  \/ d.host = Unset /\ e.path = d.path
  \/ d.path = Unset /\ e.host = d.host
  \/ e.path = d.path /\ e.host = d.host

\* getConflictIndex: a device clashes with one that has either of its names.
Clash(e, d) == e.path = d.path \/ e.host = d.host

SamePair(e, d) == e.path = d.path /\ e.host = d.host

\* Mutant: only a mapping with both names is in the way.
ConflictsOnPair(config, d) == \E e \in config.devices : SamePair(e, d)

Conflicts(config, d) == \E e \in config.devices : Clash(e, d)

\* UpdateDevice(d, true) adds d unless it clashes, UpdateDevice(d, false)
\* removes it.
WithDevice(config, d) ==
  IF Conflicts(config, d) THEN config ELSE [config EXCEPT !.devices = @ \cup {d}]

WithoutDevice(config, d) ==
  [config EXCEPT !.devices = {e \in @ : ~ Matches(e, d)}]

\* FindDeviceByMapping, as the set of devices it may return.
FindDeviceByMapping(config, d) == {e \in config.devices : SamePair(e, d)}

\* Mutant: the flag is parsed and forgotten.
FindNoPartition(config, d) == {}

FindSubPartition(config, d) == {e \in config.devices : Parent[e.host] = d.host}

\* UpdateDeviceQos is keyed by the device number: a limit of the same number
\* keeps its path and gets the new value.
WithLimit(config, q) ==
  LET same == {e \in config.qos : e.num = q.num}
  IN  IF same = {}
      THEN [config EXCEPT !.qos = @ \cup {q}]
      ELSE LET e == CHOOSE e \in same : TRUE
           IN  [config EXCEPT !.qos = (@ \ {e}) \cup {[e EXCEPT !.val = q.val]}]

\* RemoveDeviceQos: the limits of a device, and the configuration without some.
LimitsOf(config, d) == {e \in config.qos : e.num = d.num}

WithoutLimits(config, old) == [config EXCEPT !.qos = @ \ old]

\* Mutant: the device is appended under its new number.
AppendedAs(config, d, n) ==
  [config EXCEPT !.devices = @ \cup {[d EXCEPT !.num = n]}]

\* Mutant: the copy keeps the number the device had.
NumberKept(config, d, n) == config

\* The start hook finds device d under number n, and the device of every limit
\* under number num[h]: AddDevices and UpdateQosDevNum.
Renumbered(config, d, n) ==
  [config EXCEPT !.devices = (@ \ {d}) \cup {[d EXCEPT !.num = n]}]

LimitsRenumbered(config, num) ==
  [config EXCEPT !.qos = {[q EXCEPT !.num = num[q.path]] : q \in @}]

\* Mutant: setDevicesPath without SetDefaultPath.
ResolveKeepsUnset(config, d) ==
  LET found == {e \in config.devices : Matches(e, d)}
  IN  IF found = {} THEN d
      ELSE LET e == CHOOSE e \in found : TRUE
           IN  [d EXCEPT !.host = e.host, !.path = e.path]

\* setDevicesPath completes the names of an argument from the configuration,
\* and SetDefaultPath gives a side that is still empty the other side's name.
Resolve(config, d) ==
  LET found == {e \in config.devices : Matches(e, d)}
      named == IF found = {} THEN d
               ELSE LET e == CHOOSE e \in found : TRUE
                    IN  [d EXCEPT !.host = e.host, !.path = e.path]
  IN  [named EXCEPT
         !.path = IF @ = Unset THEN named.host ELSE @,
         !.host = IF @ = Unset THEN named.path ELSE @]

-----------------------------------------------------------------------------
\* No host device and no container path occurs twice.
OneToOne(config) ==
  \A e, d \in config.devices : Clash(e, d) => SamePair(e, d) /\ e = d

=============================================================================

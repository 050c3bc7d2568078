---------------------------- MODULE DeviceToolsStore ----------------------------
(***************************************************************************)
(* DeviceTools implements DeviceStore while no host device comes back      *)
(* under another number, for any containers, commands, devices, requests,  *)
(* failures and kills.                                                     *)
(*                                                                         *)
(* A command has the lock of its container from the load to the flush, so  *)
(* that the file is all that time what it has loaded; the invariant says,  *)
(* step by step, how what it has in memory differs from the file, and what *)
(* it still has to do.  A hook, which works on what it has loaded without  *)
(* the lock, never has anything to write back.                             *)
(*                                                                         *)
(* The second part follows what is in a running container: the nodes, the  *)
(* permissions, the limits and the rules tell the story of the file while  *)
(* nobody has the lock, and that of the holder's memory, up to the device  *)
(* it has in hand, while somebody has.                                     *)
(***************************************************************************)
EXTENDS DeviceToolsMappings

-----------------------------------------------------------------------------
(***************************************************************************)
(* No device is renumbered                                                 *)
(***************************************************************************)
\* A device that is on the host or a limit, under the number the host device has.
DeviceNumbered(d) == d.num = InitialNumber[d.host] /\ d.num # 0
LimitNumbered(q)  == q.num = InitialNumber[q.path]

Numbered(config) ==
  /\ \A d \in config.devices : DeviceNumbered(d)
  /\ \A q \in config.qos : LimitNumbered(q)

Handling == {"mknod", "allow", "unlink", "deny", "clear"}

\* What a process has in hand is numbered as soon as it has a name.
InHandNumbered(a) ==
  /\ pc[a] \in Handling \cup {"each"} => \A d \in todo[a] : DeviceNumbered(d)
  /\ pc[a] \in Handling => DeviceNumbered(cur[a])
  /\ a \in Command => \A q \in quota[a] : LimitNumbered(q)
  /\ a \in Command /\ Op(a) = "add" /\ pc[a] \in {"resolve", "inspect", "lock", "udev"} =>
       \A d \in todo[a] : DeviceNumbered(d)

\* Nothing is renumbered, and so no hook has anything to write back.
NumbersKept ==
  /\ hostNum = InitialNumber
  /\ \A c \in Container : Numbered(file[c])
  /\ \A a \in Actor : Numbered(cfg[a]) /\ InHandNumbered(a)
  /\ \A c \in Container : ~ dirty[c]

-----------------------------------------------------------------------------
(***************************************************************************)
(* What a command has in memory                                            *)
(***************************************************************************)
\* The request q asks for d, as the argument arg of it says.
Hits(q, arg, d) ==
  \/ Store!Asks(arg, d)
  \/ q.follow /\ arg.host # Unset /\ Parent[d.host] = arg.host

\* The devices t of the command line, before their names are completed.
Given(q, t) ==
  /\ \A d \in t :
        \/ \E arg \in q.devs : d.host = arg.host /\ d.path = arg.path
        \/ /\ q.op = "add" /\ q.follow
           /\ \E arg \in q.devs : Parent[d.host] = arg.host
  /\ \A arg \in q.devs : \E d \in t : d.host = arg.host /\ d.path = arg.path

\* ... and afterwards.
Named(q, t) ==
  /\ \A d \in t :
        \/ \E arg \in q.devs : Store!Asks(arg, d)
        \/ /\ q.op = "add" /\ q.follow
           /\ \E arg \in q.devs : Parent[d.host] = arg.host
  /\ \A arg \in q.devs : \E d \in t : Store!Asks(arg, d)

\* A request without arguments is one of update-device; remove-device names what
\* it means.
WellAsked(q) ==
  /\ q.op = "update" => q.devs = {}
  /\ q.op = "remove" => \A arg \in q.devs : arg.host # Unset \/ arg.path # Unset

\* What add-device has made of the devices s of the file: ds in memory, t to do.
Adds(q, t, ds, e, s) ==
  /\ s \subseteq ds
  /\ \A d \in (ds \ s) \cup t : Store!MeantBy(q, d)
  /\ ~ e => \A arg \in q.devs : \E d \in ds \cup t : Store!Asks(arg, d)

\* What remove-device has made of them.
Removes(q, t, ds, e, s) ==
  /\ ds \subseteq s /\ t \subseteq s
  /\ \A d \in (s \ ds) \cup t : Store!MeantBy(q, d)
  /\ ~ e => \A arg \in q.devs, d \in ds : Hits(q, arg, d) => d \in t

Changes(q, t, ds, e, s) ==
  CASE q.op = "add"    -> Adds(q, t, ds, e, s)
    [] q.op = "remove" -> Removes(q, t, ds, e, s)
    [] q.op = "update" -> ds = s

Locked == {"udev", "each", "mknod", "allow", "unlink", "deny", "clear", "quota",
           "save", "rwrite", "flush"}

\* Of a command at l: q is its request, t and d are the devices left and in
\* hand, ds is what it has in memory, w is set when that has to be written,
\* e when it has failed, and s are the devices of the file.
Served(l, q, t, d, ds, w, e, s) ==
  /\ l \in {"idle", "resolve", "inspect", "lock", "udev"} => ~ e /\ ~ w
  /\ l = "resolve" => Given(q, t)
  /\ l \in {"inspect", "lock", "udev"} => Named(q, t)
  /\ l \in Locked /\ ~ w => ds = s
  /\ l \in Locked \ {"udev"} => Changes(q, t, ds, e, s)
  /\ l \in {"mknod", "allow"} => q.op = "add" /\ d \in ds \ s
  /\ l \in {"unlink", "deny", "clear"} => q.op = "remove" /\ d \in s
  /\ l \in {"each", "save", "rwrite", "udev"} => q.op # "update"
  /\ l \in {"quota", "save", "rwrite", "flush"} => t = {}

CommandInv(p) ==
  /\ WellAsked(job[p].req)
  /\ Served(pc[p], job[p].req, todo[p], cur[p], cfg[p].devices, dirty[p], err[p],
            file[Cid(p)].devices)
  /\ pc[p] \in Locked => ~ torn[Cid(p)]
  /\ pc[p] = "fwrite" => torn[Cid(p)]

HooksDoNotWrite == \A c \in Container : pc[c] # "fwrite"

ServedInv == HooksDoNotWrite /\ \A p \in Command : CommandInv(p)

StoreInv == LockInv /\ MappingInv /\ NumbersKept /\ ServedInv

-----------------------------------------------------------------------------
(***************************************************************************)
(* The operations of the configuration                                     *)
(***************************************************************************)
\* UpdateDevice, UpdateDeviceQos and RemoveDeviceQos bring in no other number.
LEMMA NumberedOps ==
  ASSUME NEW config \in Config, Numbered(config)
  PROVE  /\ \A d \in Mapping : DeviceNumbered(d) => Numbered(WithDevice(config, d))
         /\ \A d : Numbered(WithoutDevice(config, d))
         /\ \A old : Numbered(WithoutLimits(config, old))
         /\ \A q \in Qos : LimitNumbered(q) => Numbered(WithLimit(config, q))
<1>1. ASSUME NEW d \in Mapping, DeviceNumbered(d) PROVE Numbered(WithDevice(config, d))
  BY <1>1 DEF Numbered, WithDevice, Config
<1>2. ASSUME NEW d PROVE Numbered(WithoutDevice(config, d))
  BY DEF Numbered, WithoutDevice, Config
<1>3. ASSUME NEW old PROVE Numbered(WithoutLimits(config, old))
  BY DEF Numbered, WithoutLimits, Config
<1>4. ASSUME NEW q \in Qos, LimitNumbered(q) PROVE Numbered(WithLimit(config, q))
  <2> DEFINE same == {e \in config.qos : e.num = q.num}
             old == CHOOSE e \in same : TRUE
  <2>1. CASE same = {}
    BY <1>4, <2>1 DEF Numbered, WithLimit, Config
  <2>2. CASE same # {}
    <3>1. old \in config.qos /\ old \in Qos
      BY <2>2 DEF Config
    <3>2. LimitNumbered([old EXCEPT !.val = q.val])
      BY <3>1 DEF Numbered, LimitNumbered, Qos
    <3>3. WithLimit(config, q) = [config EXCEPT !.qos = (@ \ {old}) \cup {[old EXCEPT !.val = q.val]}]
      BY <2>2 DEF WithLimit
    <3> HIDE DEF old
    <3> QED
      BY <3>2, <3>3 DEF Numbered, Config
  <2> QED
    BY <2>1, <2>2
<1> QED
  BY <1>1, <1>2, <1>3, <1>4

\* A start hook that finds the old numbers changes nothing.
LEMMA NothingRenumbered ==
  ASSUME NEW config \in Config, Numbered(config)
  PROVE  /\ \A d \in config.devices : /\ d.num = InitialNumber[d.host]
                                       /\ Renumbered(config, d, InitialNumber[d.host]) = config
         /\ LimitsRenumbered(config, InitialNumber) = config
<1>1. ASSUME NEW d \in config.devices
      PROVE  /\ d.num = InitialNumber[d.host]
             /\ Renumbered(config, d, InitialNumber[d.host]) = config
  <2>1. [d EXCEPT !.num = InitialNumber[d.host]] = d /\ d.num = InitialNumber[d.host]
    BY DEF Numbered, DeviceNumbered, Config, Mapping
  <2> QED
    BY <2>1 DEF Renumbered, Config
<1>2. \A q \in config.qos : [q EXCEPT !.num = InitialNumber[q.path]] = q
  BY DEF Numbered, LimitNumbered, Config, Qos
<1>3. {[q EXCEPT !.num = InitialNumber[q.path]] : q \in config.qos} = config.qos
  BY <1>2
<1> QED
  BY <1>1, <1>3 DEF LimitsRenumbered, Config

\* UpdateDevice with a device that has both its names.
LEMMA DevicesOf ==
  ASSUME NEW config \in Config, OneToOne(config), NEW d \in Mapping
  PROVE  /\ ~ Conflicts(config, d) => WithDevice(config, d).devices = config.devices \cup {d}
         /\ WithDevice(config, d).devices \in {config.devices, config.devices \cup {d}}
         /\ d \notin WithoutDevice(config, d).devices
         /\ \A s : d \in s /\ config.devices \subseteq s /\ (\A e, f \in s : Clash(e, f) => e = f) =>
              WithoutDevice(config, d).devices = config.devices \ {d}
         /\ d \in config.devices =>
              WithoutDevice(config, d).devices = config.devices \ {d}
         /\ \A old : WithoutLimits(config, old).devices = config.devices
         /\ \A q : WithLimit(config, q).devices = config.devices
<1>1. WithoutDevice(config, d).devices = {e \in config.devices : ~ Matches(e, d)}
  BY DEF WithoutDevice, Config
<1>2. d.host # Unset /\ d.path # Unset
  BY NamesAssumption DEF Mapping
<1>3. \A e : Matches(e, d) <=> SamePair(e, d)
  BY <1>2 DEF Matches, SamePair
<1>4. \A e \in config.devices : SamePair(e, d) => Clash(e, d)
  BY DEF SamePair, Clash
<1>5. SamePair(d, d)
  BY DEF SamePair
<1>6. \A q : WithLimit(config, q).devices = config.devices
  BY DEF WithLimit, Config
<1> QED
  BY <1>1, <1>3, <1>4, <1>5, <1>6 DEF OneToOne, WithDevice, WithoutLimits, Config

\* ParseDevice and ParseMapping: what comes of the arguments, and its numbers.
LEMMA ParsedGiven ==
  ASSUME NEW r \in Requests
  PROVE  /\ Given(r, Parsed(r))
         /\ r.devs = {} /\ r.op # "add" => Parsed(r) = {}
         /\ r.op = "add" => \A d \in Parsed(r) :
              /\ d.num = hostNum[d.host]
              /\ d.num # 0 \/ \E arg \in r.devs : d.host = arg.host
<1> DEFINE num(h) == IF r.op = "add" THEN hostNum[h] ELSE 0
           given == {[host |-> d.host, path |-> d.path, num |-> num(d.host)] : d \in r.devs}
           part(d, h) == [host |-> h, num |-> num(h),
                          path |-> IF d.path = Unset THEN Unset ELSE PartPath[d.path][h]]
           missing(d) == {h \in HostDev : /\ Parent[h] = d.host
                                          /\ hostNum[h] # 0
                                          /\ \A e \in given : e.host # h}
           parts(d) == {part(d, h) : h \in missing(d)}
           extra == UNION {parts(d) : d \in {d \in given : IsDisk(d.host)}}
<1>1. /\ \A d \in given : \E arg \in r.devs : d.host = arg.host /\ d.path = arg.path
      /\ \A arg \in r.devs : \E d \in given : d.host = arg.host /\ d.path = arg.path
      /\ \A d \in given : d.num = num(d.host)
      /\ r.devs = {} => given = {}
  <2> HIDE DEF num
  <2>1. \A d \in given : \E arg \in r.devs :
           d = [host |-> arg.host, path |-> arg.path, num |-> num(arg.host)]
    OBVIOUS
  <2>2. \A arg \in r.devs : [host |-> arg.host, path |-> arg.path, num |-> num(arg.host)] \in given
    OBVIOUS
  <2> HIDE DEF given
  <2>3. \A d \in given : d.num = num(d.host)
    BY <2>1
  <2>4. \A d \in given : \E arg \in r.devs : d.host = arg.host /\ d.path = arg.path
    BY <2>1
  <2>5. \A arg \in r.devs : \E d \in given : d.host = arg.host /\ d.path = arg.path
    BY <2>2
  <2>6. r.devs = {} => given = {}
    BY <2>1
  <2> QED
    BY <2>3, <2>4, <2>5, <2>6
<1>2. \A x \in extra : \E d \in given : /\ Parent[x.host] = d.host /\ x.num = num(x.host)
                                        /\ hostNum[x.host] # 0
  OBVIOUS
<1>3. Parsed(r) = IF r.op = "add" /\ r.follow THEN given \cup extra ELSE given
  BY DEF Parsed
<1> HIDE DEF given, extra
<1>4. ASSUME NEW d \in Parsed(r)
      PROVE  \/ \E arg \in r.devs : d.host = arg.host /\ d.path = arg.path
             \/ /\ r.op = "add" /\ r.follow
                /\ \E arg \in r.devs : Parent[d.host] = arg.host
  BY <1>1, <1>2, <1>3
<1>5. given \subseteq Parsed(r)
  BY <1>3
<1> QED
  BY <1>1, <1>2, <1>3, <1>4, <1>5 DEF Given

\* setDevicesPath leaves the names that are given, and the number.
LEMMA ResolveKeeps ==
  ASSUME NEW config \in Config, NEW d \in Device
  PROVE  /\ d.host # Unset => Resolve(config, d).host = d.host
         /\ d.path # Unset => Resolve(config, d).path = d.path
         /\ Resolve(config, d).num = d.num
<1> DEFINE found == {e \in config.devices : Matches(e, d)}
           e == CHOOSE e \in found : TRUE
           named == IF found = {} THEN d ELSE [d EXCEPT !.host = e.host, !.path = e.path]
<1>1. found # {} => e \in config.devices /\ Matches(e, d)
  <2>1. found # {} => e \in found
    OBVIOUS
  <2> QED
    BY <2>1
<1>2. \A x \in config.devices : x.host # Unset /\ x.path # Unset
  BY NamesAssumption DEF Config, Mapping
<1>3. /\ named \in [host: {named.host}, path: {named.path}, num: {d.num}]
      /\ d.host # Unset => named.host = d.host
      /\ d.path # Unset => named.path = d.path
  BY <1>1, <1>2 DEF Matches, Device
<1> HIDE DEF named
<1> QED
  BY <1>3 DEF Resolve, named

\* It completes what is given to what is named.
LEMMA GivenNamed ==
  ASSUME NEW config \in Config, NEW q, NEW t \in SUBSET Device, Given(q, t),
         q.op = "add" => \A d \in t : d.host \in HostDev
  PROVE  Named(q, {Resolve(config, d) : d \in t})
<1>1. \A d \in t : /\ d.host # Unset => Resolve(config, d).host = d.host
                   /\ d.path # Unset => Resolve(config, d).path = d.path
  BY ResolveKeeps
<1>2. \A d \in t : d.host \in HostDev => d.host # Unset
  BY NamesAssumption
<1> QED
  BY <1>1, <1>2 DEF Given, Named, Store!Asks

\* RemoveDevice goes through what is meant by the arguments and is configured.
LEMMA RemovalFound ==
  ASSUME TypeInv, NEW p \in Command, OneToOne(cfg[p]), WellAsked(job[p].req), Op(p) = "remove",
         Named(job[p].req, todo[p])
  PROVE  Removes(job[p].req, ToRemove(p), cfg[p].devices,
                 \E d \in todo[p] : FindDeviceByMapping(cfg[p], d) = {}, cfg[p].devices)
<1> DEFINE q == job[p].req
           ds == cfg[p].devices
           found == UNION {FindDeviceByMapping(cfg[p], d) : d \in todo[p]}
           parts == UNION {FindSubPartition(cfg[p], d) : d \in found}
<1>1. q.op = "remove"
  BY DEF Op
<1>2. found = {e \in ds : \E d \in todo[p] : SamePair(e, d)}
  BY DEF FindDeviceByMapping
<1>3. parts = {e \in ds : \E d \in found : Parent[e.host] = d.host}
  BY DEF FindSubPartition
<1>4. ToRemove(p) = IF q.follow THEN found \cup parts ELSE found
  BY DEF ToRemove
<1> HIDE DEF found, parts
<1>5. \A e \in found : \E arg \in q.devs : Store!Asks(arg, e)
  BY <1>1, <1>2 DEF Named, Store!Asks, SamePair
<1>6. ToRemove(p) \subseteq ds /\ \A e \in ToRemove(p) : Store!MeantBy(q, e)
  BY <1>2, <1>3, <1>4, <1>5 DEF Store!MeantBy, Store!Asks
<1>7. ASSUME \A d \in todo[p] : FindDeviceByMapping(cfg[p], d) # {},
             NEW arg \in q.devs, NEW d \in ds, Hits(q, arg, d)
      PROVE  d \in ToRemove(p)
  <2>1. PICK d0 \in todo[p] : Store!Asks(arg, d0)
    BY DEF Named
  <2>2. PICK e \in ds : SamePair(e, d0)
    BY <1>7 DEF FindDeviceByMapping
  <2>3. e \in found /\ Store!Asks(arg, e)
    BY <1>2, <2>1, <2>2 DEF SamePair, Store!Asks
  <2>4. CASE Store!Asks(arg, d)
    <3>1. Clash(e, d)
      BY <1>1, <2>3, <2>4 DEF WellAsked, Store!Asks, Clash
    <3> QED
      BY <1>4, <2>3, <3>1 DEF OneToOne
  <2>5. CASE q.follow /\ arg.host # Unset /\ Parent[d.host] = arg.host
    BY <1>3, <1>4, <2>3, <2>5 DEF Store!Asks
  <2> QED
    BY <1>7, <2>4, <2>5 DEF Hits
<1> QED
  BY <1>6, <1>7 DEF Removes

-----------------------------------------------------------------------------
(***************************************************************************)
(* The steps of a command, for the command itself                          *)
(***************************************************************************)
\* What a command is about, and what an assignment to a variable of it does.
LEMMA Reads ==
  ASSUME TypeInv, NEW p \in Command
  PROVE  /\ p \in Actor /\ p \notin Container
         /\ Cid(p) = job[p].req.cid /\ Cid(p) \in Container /\ job[p].req \in Request
         /\ cfg[p] \in Config /\ file[Cid(p)] \in Config /\ todo[p] \in SUBSET Device
         /\ quota[p] \in SUBSET Qos /\ dirty[p] \in BOOLEAN /\ err[p] \in BOOLEAN
         /\ \A l : Goto(p, l) => pc'[p] = l
         /\ \A x : todo' = [todo EXCEPT ![p] = x] => todo'[p] = x
         /\ \A x : cur' = [cur EXCEPT ![p] = x] => cur'[p] = x
         /\ \A x : cfg' = [cfg EXCEPT ![p] = x] => cfg'[p] = x
         /\ \A x : dirty' = [dirty EXCEPT ![p] = x] => dirty'[p] = x
         /\ \A x : err' = [err EXCEPT ![p] = x] => err'[p] = x
         /\ \A x : quota' = [quota EXCEPT ![p] = x] => quota'[p] = x
<1>1. p \in Actor /\ p \notin Container /\ Cid(p) \in Container
  BY ActorTypes, CidType
<1> QED
  BY <1>1 DEF TypeInv, TypeOK, StepsTypeOK, ProcessesTypeOK, FilesTypeOK, Cid, Goto

\* RemoveDeviceQos takes away limits, or nothing.
LEMMA ClearsLimits ==
  ASSUME TypeInv, NEW p \in Command, ClearLimits(p) \/ ClearFails(p)
  PROVE  cfg' = cfg \/ \E old : cfg'[p] = WithoutLimits(cfg[p], old)
<1>1. \/ cfg' = cfg
      \/ \E old : cfg' = [cfg EXCEPT ![p] = WithoutLimits(cfg[p], old)]
  <2>1. CASE ClearLimits(p)
    BY <2>1 DEF ClearLimits
  <2>2. CASE ClearFails(p)
    BY <2>2 DEF ClearFails
  <2> QED
    BY <2>1, <2>2
<1> QED
  BY <1>1, Reads

\* The mappings of a command and of its file.
LEMMA OwnMappings ==
  ASSUME TypeInv, WellFormed, NEW p \in Command
  PROVE  /\ OneToOne(cfg[p]) /\ OneToOne(file[Cid(p)])
         /\ \A e, f \in file[Cid(p)].devices : Clash(e, f) => e = f
         /\ pc[p] \in Handling => cur[p] \in Mapping
         /\ pc[p] \in Handling \cup {"each"} => todo[p] \subseteq Mapping
  BY Reads DEF WellFormed, OneToOne, TypeInv, DevicesKnown, Known, Handling

\* Where p is after a step that leaves the files alone.
ServedNow(p) ==
  Served(pc'[p], job[p].req, todo'[p], cur'[p], cfg'[p].devices, dirty'[p], err'[p],
         file[Cid(p)].devices)

\* AddDevice, device by device.
LEMMA AddServed ==
  ASSUME TypeInv, WellFormed, NEW p \in Command, CommandInv(p), AddStep(p)
  PROVE  ServedNow(p)
<1> DEFINE q == job[p].req
           t == todo[p]
           d == cur[p]
           ds == cfg[p].devices
           s == file[Cid(p)].devices
<1>1. /\ Served(pc[p], q, t, d, ds, dirty[p], err[p], s)
      /\ cfg[p] \in Config /\ OneToOne(cfg[p]) /\ cfg[p].devices = ds
      /\ q = job[p].req /\ d = cur[p] /\ t = todo[p]
      /\ pc[p] \in Handling => d \in Mapping
      /\ pc[p] = "each" => t \subseteq Mapping
  BY Reads, OwnMappings DEF CommandInv
<1> HIDE DEF q, t, d, ds, s
<1>2. ASSUME NEW x \in todo[p], RefuseConflict(p, x) \/ RefuseUnknown(p, x) PROVE ServedNow(p)
  <2>1. /\ pc[p] = "each" /\ pc'[p] = "each" /\ q.op = "add" /\ todo'[p] = t \ {x}
        /\ cfg' = cfg /\ err'[p] = TRUE /\ x \in t
        /\ dirty'[p] = dirty[p] \/ dirty'[p] = TRUE
    BY <1>1, <1>2, Reads DEF RefuseConflict, RefuseUnknown, Take, Fail, Op
  <2> QED
    BY <1>1, <2>1 DEF Served, Changes, Adds, Locked, ServedNow, q, t, ds, s
<1>3. ASSUME NEW x \in todo[p], RecordDevice(p, x) PROVE ServedNow(p)
  <2>1. /\ pc[p] = "each" /\ q.op = "add" /\ todo'[p] = t \ {x} /\ x \in t
        /\ cfg'[p] = WithDevice(cfg[p], x) /\ err' = err /\ ~ Conflicts(cfg[p], x)
        /\ dirty'[p] = TRUE /\ \/ pc'[p] = "mknod" /\ cur'[p] = x
                               \/ pc'[p] = "each"
    BY <1>1, <1>3, Reads DEF RecordDevice, Take, Record, Op
  <2>2. cfg'[p].devices = ds \cup {x}
    BY <1>1, <2>1, DevicesOf
  <2>3. x \notin ds
    BY <1>1, <2>1 DEF Conflicts, Clash
  <2> QED
    BY <1>1, <2>1, <2>2, <2>3 DEF Served, Changes, Adds, Locked, ServedNow, q, s
<1>4. ASSUME Mknod(p) \/ Allow(p) PROVE ServedNow(p)
  <2>1. /\ \/ pc[p] = "mknod" /\ pc'[p] = "allow"
           \/ pc[p] = "allow" /\ pc'[p] = "each"
        /\ UNCHANGED <<todo, cur, cfg, dirty, err>>
    BY <1>4, Reads DEF Mknod, Allow
  <2> QED
    BY <1>1, <2>1 DEF Served, Locked, ServedNow, q, t, d, ds, s
<1>5. ASSUME MknodFails(p) \/ AllowFails(p) PROVE ServedNow(p)
  <2>1. /\ pc[p] \in {"mknod", "allow"} /\ pc'[p] = "each" /\ UNCHANGED <<todo, cur>>
        /\ cfg'[p] = WithoutDevice(cfg[p], d) /\ dirty'[p] = TRUE /\ err'[p] = TRUE
    BY <1>1, <1>5, Reads DEF MknodFails, AllowFails, RollBack, Record, Fail
  <2>2. d \in ds \ s /\ d \in Mapping /\ q.op = "add"
    BY <1>1, <2>1 DEF Served, Handling
  <2>3. cfg'[p].devices = ds \ {d}
    BY <1>1, <2>1, <2>2, DevicesOf
  <2> QED
    BY <1>1, <2>1, <2>2, <2>3 DEF Served, Changes, Adds, Locked, ServedNow, q, t, s
<1> QED
  BY <1>2, <1>3, <1>4, <1>5 DEF AddStep

\* RemoveDevice, device by device.
LEMMA RemoveServed ==
  ASSUME TypeInv, WellFormed, NEW p \in Command, CommandInv(p), RemoveStep(p)
  PROVE  ServedNow(p)
<1> DEFINE q == job[p].req
           t == todo[p]
           d == cur[p]
           ds == cfg[p].devices
           s == file[Cid(p)].devices
<1>1. /\ Served(pc[p], q, t, d, ds, dirty[p], err[p], s)
      /\ cfg[p] \in Config /\ OneToOne(cfg[p]) /\ cfg[p].devices = ds
      /\ q = job[p].req /\ d = cur[p] /\ t = todo[p]
      /\ \A e, f \in s : Clash(e, f) => e = f
      /\ pc[p] \in Handling => d \in Mapping
      /\ pc[p] = "each" => t \subseteq Mapping
  BY Reads, OwnMappings DEF CommandInv
<1> HIDE DEF q, t, d, ds, s
<1>2. ASSUME NEW x \in todo[p], Unrecord(p, x) PROVE ServedNow(p)
  <2>1. /\ pc[p] = "each" /\ q.op = "remove" /\ todo'[p] = t \ {x} /\ x \in t
        /\ cfg'[p] = WithoutDevice(cfg[p], x) /\ err' = err /\ dirty'[p] = TRUE
        /\ pc'[p] \in {"unlink", "clear"} /\ cur'[p] = x
    BY <1>1, <1>2, Reads DEF Unrecord, Take, Record, Op
  <2>2. Removes(q, t, ds, err[p], s) /\ x \in Mapping
    BY <1>1, <2>1 DEF Served, Changes, Locked
  <2>3. cfg'[p].devices = ds \ {x}
    BY <1>1, <2>1, <2>2, DevicesOf DEF Removes
  <2>4. Removes(q, t \ {x}, ds \ {x}, err[p], s)
    BY <2>1, <2>2 DEF Removes
  <2> QED
    BY <1>1, <2>1, <2>2, <2>3, <2>4 DEF Served, Changes, Removes, Locked, ServedNow, q, s
<1>3. ASSUME Unlink(p) \/ Deny(p) PROVE ServedNow(p)
  <2>1. /\ \/ pc[p] = "unlink" /\ pc'[p] = "deny"
           \/ pc[p] = "deny" /\ pc'[p] = "clear"
        /\ UNCHANGED <<todo, cur, cfg, dirty, err>>
    BY <1>3, Reads DEF Unlink, Deny
  <2> QED
    BY <1>1, <2>1 DEF Served, Locked, ServedNow, q, t, d, ds, s
<1>4. ASSUME UnlinkFails(p) PROVE ServedNow(p)
  <2>1. /\ pc[p] = "unlink" /\ pc'[p] = "each" /\ UNCHANGED <<todo, cur>>
        /\ cfg'[p] = WithDevice(cfg[p], d) /\ dirty'[p] = TRUE /\ err'[p] = TRUE
    BY <1>1, <1>4, Reads DEF UnlinkFails, Record, Fail
  <2>2. d \in s /\ d \in Mapping /\ q.op = "remove"
    BY <1>1, <2>1 DEF Served, Handling
  <2>3. cfg'[p].devices \in {ds, ds \cup {d}}
    BY <1>1, <2>1, <2>2, DevicesOf
  <2> QED
    BY <1>1, <2>1, <2>2, <2>3 DEF Served, Changes, Removes, Locked, ServedNow, q, t, s
<1>5. ASSUME DenyFails(p) PROVE ServedNow(p)
  <2>1. /\ pc[p] = "deny" /\ pc'[p] = "each" /\ UNCHANGED <<todo, cur, cfg, dirty>>
        /\ err'[p] = TRUE
    BY <1>5, Reads DEF DenyFails, Fail
  <2> QED
    BY <1>1, <2>1 DEF Served, Changes, Removes, Locked, ServedNow, q, t, d, ds, s
<1>6. ASSUME ClearLimits(p) \/ ClearFails(p) PROVE ServedNow(p)
  <2>0. cfg' = cfg \/ \E old : cfg'[p] = WithoutLimits(cfg[p], old)
    BY <1>6, ClearsLimits
  <2>1. /\ pc[p] = "clear" /\ pc'[p] = "each" /\ UNCHANGED <<todo, cur>>
        /\ err'[p] = err[p] \/ err'[p] = TRUE
    BY <1>6, Reads DEF ClearLimits, ClearFails, Fail
  <2>2. ~ dirty'[p] => ~ dirty[p]
    <3>1. \E x : dirty' = [dirty EXCEPT ![p] = dirty[p] \/ x]
      BY <1>6 DEF ClearLimits, ClearFails, Dirtied
    <3> QED
      BY <1>1, <3>1, Reads
  <2>3. cfg'[p].devices = ds
    <3>1. d \in Mapping
      BY <1>1, <2>1 DEF Handling
    <3> QED
      BY <1>1, <2>0, <2>1, <3>1, DevicesOf
  <2>4. q.op = "remove"
    BY <1>1, <2>1 DEF Served
  <2> QED
    BY <1>1, <2>1, <2>2, <2>3, <2>4 DEF Served, Changes, Removes, Locked, ServedNow, q, t, s
<1> QED
  BY <1>2, <1>3, <1>4, <1>5, <1>6 DEF RemoveStep

\* A command that is done has nothing more to do.
LEMMA DoneServed ==
  ASSUME NEW p \in Command, CommandInv(p), pc'[p] = "done", UNCHANGED job
  PROVE  CommandInv(p)'
  BY DEF CommandInv, Served, Locked

\* A step between the load and the flush.
LEMMA LockedServed ==
  ASSUME TypeInv, NEW p \in Command, CommandInv(p), ServedNow(p), pc[p] \in Locked,
         pc'[p] # "fwrite", UNCHANGED <<file, torn, job>>
  PROVE  CommandInv(p)'
<1>1. Cid(p)' = Cid(p)
  BY DEF Cid
<1> QED
  BY <1>1 DEF CommandInv, ServedNow

\* Up to the loaded configuration.
LEMMA LoadServed ==
  ASSUME TypeInv, WellFormed, NEW p \in Command, CommandInv(p),
         ResolvePaths(p) \/ Inspect(p) \/ LockAndLoad(p) \/ LockUdev(p)
  PROVE  CommandInv(p)'
<1> DEFINE q == job[p].req
           t == todo[p]
           s == file[Cid(p)].devices
<1>1. /\ Served(pc[p], q, t, cur[p], cfg[p].devices, dirty[p], err[p], s)
      /\ q = job[p].req /\ t = todo[p] /\ t \in SUBSET Device /\ WellAsked(q)
      /\ file[Cid(p)] \in Config /\ s = file[Cid(p)].devices /\ q \in Request
  BY Reads DEF CommandInv
<1>2. Cid(p)' = Cid(p) \/ job' # job
  BY DEF Cid
<1>3. ASSUME GiveUp(p) PROVE CommandInv(p)'
  BY <1>3, Reads, DoneServed DEF GiveUp
<1>4. ASSUME ResolvePaths(p), ~ GiveUp(p) PROVE CommandInv(p)'
  <2>1. /\ pc[p] = "resolve" /\ pc'[p] = "inspect" /\ UNCHANGED <<file, torn, job, cfg, dirty, err>>
        /\ todo' = [todo EXCEPT ![p] = {Resolve(file[Cid(p)], x) : x \in t}]
    BY <1>4, Reads DEF ResolvePaths, fileVars
  <2>2. todo'[p] = {Resolve(file[Cid(p)], x) : x \in t}
    BY <2>1, Reads
  <2>3. Given(q, t) /\ (q.op = "add" => \A d \in t : d.host \in HostDev)
    BY <1>1, <2>1, Reads DEF Served, TypeInv, DevicesKnown, Known
  <2>4. Named(q, todo'[p])
    BY <1>1, <2>2, <2>3, GivenNamed
  <2> HIDE DEF t, s
  <2> QED
    BY <1>1, <1>2, <2>1, <2>4 DEF CommandInv, Served, Locked, q
<1>5. ASSUME Inspect(p) PROVE CommandInv(p)'
  <2>1. /\ pc[p] = "inspect" /\ pc'[p] = "lock"
        /\ UNCHANGED <<file, torn, job, todo, cfg, dirty, err>>
    BY <1>5, Reads DEF Inspect, fileVars
  <2> QED
    BY <1>1, <1>2, <2>1 DEF CommandInv, Served, Locked
<1>6. ASSUME LockAndLoad(p), ~ GiveUp(p) PROVE CommandInv(p)'
  <2>1. /\ pc[p] = "lock" /\ pc'[p] = IF q.op = "update" THEN "quota" ELSE "udev"
        /\ UNCHANGED <<file, torn, job, todo, dirty, err>> /\ ~ torn[Cid(p)]
        /\ cfg'[p] = file[Cid(p)]
    BY <1>6, Reads DEF LockAndLoad, fileVars, Readable, Op
  <2>2. Named(q, t) /\ ~ err[p] /\ ~ dirty[p]
    BY <1>1, <2>1 DEF Served
  <2>3. CASE q.op = "update"
    <3>1. t = {}
      BY <1>1, <2>2, <2>3 DEF Named, WellAsked
    <3> QED
      BY <1>1, <1>2, <2>1, <2>2, <2>3, <3>1 DEF CommandInv, Served, Changes, Locked
  <2>4. CASE q.op # "update"
    BY <1>1, <1>2, <2>1, <2>2, <2>4 DEF CommandInv, Served, Locked
  <2> QED
    BY <2>3, <2>4
<1>7. ASSUME LockUdev(p) PROVE CommandInv(p)'
  <2>1. /\ pc[p] = "udev" /\ pc'[p] = "each" /\ UNCHANGED <<file, torn, job, cfg, dirty>>
        /\ IF q.op = "remove"
           THEN /\ todo'[p] = ToRemove(p)
                /\ err'[p] = \E d \in todo[p] : FindDeviceByMapping(cfg[p], d) = {}
           ELSE UNCHANGED <<todo, err>>
    BY <1>7, Reads DEF LockUdev, fileVars, Op
  <2>2. Named(q, t) /\ ~ err[p] /\ ~ dirty[p] /\ cfg[p].devices = s /\ q.op # "update"
        /\ ~ torn[Cid(p)]
    BY <1>1, <2>1 DEF Served, Locked, CommandInv
  <2>3. Changes(q, todo'[p], s, err'[p], s)
    <3>1. CASE q.op = "remove"
      <4>1. Removes(q, ToRemove(p), cfg[p].devices,
                    \E d \in todo[p] : FindDeviceByMapping(cfg[p], d) = {}, cfg[p].devices)
        BY <1>1, <2>2, <3>1, OwnMappings, RemovalFound DEF Op
      <4>2. Removes(q, todo'[p], s, err'[p], s)
        BY <2>1, <2>2, <3>1, <4>1
      <4> QED
        BY <3>1, <4>2 DEF Changes
    <3>2. CASE q.op = "add"
      <4> HIDE DEF q, s
      <4>1. Adds(q, t, s, err[p], s)
        BY <2>2 DEF Named, Adds, Store!MeantBy, Store!Asks
      <4> QED
        BY <2>1, <3>2, <4>1 DEF Changes
    <3> QED
      BY <1>1, <2>2, <3>1, <3>2 DEF Request
  <2> HIDE DEF s
  <2> QED
    BY <1>1, <1>2, <2>1, <2>2, <2>3 DEF CommandInv, Served, Locked
<1> QED
  BY <1>3, <1>4, <1>5, <1>6, <1>7

\* From the last device to the end.
LEMMA SaveServed ==
  ASSUME TypeInv, NEW p \in Command, CommandInv(p),
         EachDone(p) \/ LimitStep(p) \/ WriteStep(p)
  PROVE  CommandInv(p)'
<1> DEFINE q == job[p].req
           t == todo[p]
           ds == cfg[p].devices
           s == file[Cid(p)].devices
<1>1. /\ Served(pc[p], q, t, cur[p], ds, dirty[p], err[p], s) /\ WellAsked(q)
      /\ cfg[p] \in Config /\ q \in Request /\ p \in Actor /\ quota[p] \in SUBSET Qos
      /\ cfg[p].devices = ds /\ q = job[p].req /\ t = todo[p]
  BY Reads DEF CommandInv
<1> HIDE DEF q, t, ds, s
<1>2. ASSUME EachDone(p) \/ TruncateRules(p) \/ UnlockUdev(p) PROVE CommandInv(p)'
  <2>1. /\ \/ /\ pc[p] = "each" /\ t = {}
              /\ pc'[p] = IF q.op = "add" THEN "quota" ELSE "save"
           \/ pc[p] = "save" /\ pc'[p] = "rwrite"
           \/ pc[p] \in {"save", "rwrite"} /\ pc'[p] = "flush"
        /\ UNCHANGED <<file, torn, job, todo, cur, cfg, dirty, err>>
    BY <1>1, <1>2, Reads DEF EachDone, TruncateRules, UnlockUdev, AfterRules, fileVars, Op
  <2>2. ServedNow(p) /\ pc[p] \in Locked /\ pc'[p] # "fwrite"
    BY <1>1, <2>1 DEF Served, ServedNow, Locked, q, t, ds, s
  <2> QED
    BY <2>1, <2>2, LockedServed
<1>3. ASSUME LimitStep(p) PROVE CommandInv(p)'
  <2>1. /\ pc[p] = "quota" /\ UNCHANGED <<file, torn, job, todo, cur>>
        /\ pc'[p] \in {"quota", IF q.op = "add" THEN "save" ELSE "flush"}
        /\ err'[p] = err[p] \/ err'[p] = TRUE
        /\ cfg' = cfg \/ \E l : cfg'[p] = WithLimit(cfg[p], l)
        /\ dirty' = dirty \/ \E x : dirty' = [dirty EXCEPT ![p] = dirty[p] \/ x]
    <3>1. ASSUME NEW x \in quota[p], SetLimit(p, x)
          PROVE  /\ pc[p] = "quota" /\ UNCHANGED <<file, torn, job, todo, cur, pc, err>>
                 /\ cfg'[p] = WithLimit(cfg[p], x)
                 /\ \E y : dirty' = [dirty EXCEPT ![p] = dirty[p] \/ y]
      BY <3>1, Reads DEF SetLimit, fileVars, Dirtied
    <3>2. ASSUME SetLimitFails(p) \/ LimitsDone(p)
          PROVE  /\ pc[p] = "quota" /\ UNCHANGED <<file, torn, job, todo, cur, cfg, dirty>>
                 /\ pc'[p] = IF q.op = "add" THEN "save" ELSE "flush"
                 /\ err'[p] = err[p] \/ err'[p] = TRUE
      BY <1>1, <3>2, Reads DEF SetLimitFails, LimitsDone, fileVars, AfterQuota, Op, Fail
    <3> QED
      BY <1>3, <3>1, <3>2 DEF LimitStep
  <2>2. cfg'[p].devices = ds
    BY <1>1, <2>1 DEF WithLimit, Config
  <2>3. ~ dirty'[p] => ~ dirty[p]
    BY <2>1, Reads
  <2>4. Changes(q, t, ds, err'[p], s)
    <3>1. Changes(q, t, ds, err[p], s)
      BY <1>1, <2>1 DEF Served, Locked
    <3>2. Changes(q, t, ds, TRUE, s)
      BY <1>1, <3>1 DEF Changes, Adds, Removes, Request
    <3> QED
      BY <2>1, <3>1, <3>2
  <2>5. ServedNow(p) /\ pc[p] \in Locked /\ pc'[p] # "fwrite"
    BY <1>1, <2>1, <2>2, <2>3, <2>4 DEF Served, ServedNow, Locked, q, t, s
  <2> QED
    BY <2>1, <2>5, LockedServed
<1>4. ASSUME TruncateConfig(p) PROVE CommandInv(p)'
  <2>1. pc'[p] = "fwrite" /\ torn'[Cid(p)] = TRUE /\ UNCHANGED job
    BY <1>4, Reads DEF TruncateConfig, TypeInv, TypeOK, FilesTypeOK
  <2>2. Cid(p)' = Cid(p)
    BY <2>1 DEF Cid
  <2> QED
    BY <1>1, <2>1, <2>2 DEF CommandInv, Served, Locked, q
<1>5. ASSUME UnlockConfig(p) PROVE CommandInv(p)'
  BY <1>5, Reads, DoneServed DEF UnlockConfig
<1> QED
  BY <1>2, <1>3, <1>4, <1>5 DEF WriteStep

\* The command line.
LEMMA BeginServed ==
  ASSUME TypeInv, NEW p \in Command, CommandInv(p), NEW r \in Requests, Begin(p, r)
  PROVE  CommandInv(p)'
<1>1. /\ pc[p] = "idle" /\ pc'[p] = (IF r.op = "update" THEN "inspect" ELSE "resolve")
      /\ todo'[p] = Parsed(r) /\ UNCHANGED <<dirty, err>> /\ job'[p].req = r
  BY Reads DEF Begin, TypeInv, TypeOK, ProcessesTypeOK
<1>2. WellAsked(r)
  BY RequestsAssumption DEF WellAsked
<1>3. Given(r, Parsed(r)) /\ (r.op = "update" => Parsed(r) = {} /\ r.devs = {})
  BY <1>2, ParsedGiven DEF WellAsked
<1>4. ~ err[p] /\ ~ dirty[p]
  BY <1>1 DEF CommandInv, Served
<1>5. r.op = "update" => Named(r, Parsed(r))
  BY <1>3 DEF Named
<1> QED
  BY <1>1, <1>2, <1>3, <1>4, <1>5 DEF CommandInv, Served, Locked

\* Every step of a command keeps its own invariant.
LEMMA OwnServed ==
  ASSUME TypeInv, WellFormed, NEW p \in Command, CommandInv(p), StepOf(p)
  PROVE  CommandInv(p)'
<1>1. CASE AddStep(p) \/ RemoveStep(p)
  <2>1. ServedNow(p)
    BY <1>1, AddServed, RemoveServed
  <2>2. /\ pc[p] \in Locked /\ UNCHANGED <<file, torn, job>>
        /\ pc'[p] \in {"each", "mknod", "allow", "unlink", "deny", "clear"}
    BY <1>1, Reads
    DEF AddStep, RefuseConflict, RefuseUnknown, RecordDevice, Mknod, MknodFails, Allow,
        AllowFails, RollBack, RemoveStep, Unrecord, Unlink, UnlinkFails, Deny, DenyFails,
        ClearLimits, ClearFails, fileVars, Locked
  <2> QED
    BY <2>1, <2>2, LockedServed
<1>2. CASE Crash(p)
  BY <1>2, Reads, DoneServed DEF Crash
<1> QED
  BY <1>1, <1>2, LoadServed, SaveServed, BeginServed, ActorTypes DEF StepOf, CommandNext

-----------------------------------------------------------------------------
(***************************************************************************)
(* No number changes                                                       *)
(***************************************************************************)
\* What a has in memory is numbered.
OwnNumbered(a) == Numbered(cfg[a]) /\ InHandNumbered(a)

\* A command that is done has nothing in hand.
LEMMA EmptyNumbered ==
  ASSUME NEW p \in Command, pc'[p] = "done", cfg'[p] = EmptyConfig, quota'[p] = {}
  PROVE  OwnNumbered(p)'
  BY DEF OwnNumbered, Numbered, InHandNumbered, EmptyConfig, Handling

\* The arguments of add-device are on the host, and so are the limits.
LEMMA BeginNumbered ==
  ASSUME TypeInv, NumbersKept, NEW p \in Command, NEW r \in Requests, Begin(p, r)
  PROVE  OwnNumbered(p)'
<1>1. /\ pc'[p] \in {"inspect", "resolve"} /\ todo'[p] = Parsed(r) /\ job'[p].req = r
      /\ cfg' = cfg /\ hostNum = InitialNumber
      /\ quota'[p] = {[path |-> l.path, num |-> hostNum[l.path], val |-> l.val] : l \in r.limits}
  BY Reads DEF Begin, TypeInv, TypeOK, ProcessesTypeOK, NumbersKept
<1>2. \A q \in quota'[p] : LimitNumbered(q)
  BY <1>1 DEF LimitNumbered
<1>3. Numbered(cfg[p])
  BY Reads DEF NumbersKept
<1>4. r.op = "add" => \A d \in Parsed(r) : DeviceNumbered(d)
  <2>1. r.op = "add" => \A arg \in r.devs : hostNum[arg.host] # 0
    BY DEF Begin
  <2> QED
    BY <1>1, <2>1, ParsedGiven DEF DeviceNumbered
<1> QED
  BY <1>1, <1>2, <1>3, <1>4 DEF OwnNumbered, InHandNumbered, Handling, Op

\* So far nothing but a file of numbered devices has been loaded.
LEMMA LoadNumbered ==
  ASSUME TypeInv, NumbersKept, NEW p \in Command,
         ResolvePaths(p) \/ Inspect(p) \/ LockAndLoad(p) \/ LockUdev(p)
  PROVE  OwnNumbered(p)'
<1>1. /\ Numbered(cfg[p]) /\ InHandNumbered(p) /\ Numbered(file[Cid(p)])
      /\ cfg[p].devices \subseteq Mapping /\ p \in Actor
  BY Reads, ConfigTypes DEF NumbersKept
<1>2. ASSUME GiveUp(p) PROVE OwnNumbered(p)'
  <2>1. pc'[p] = "done" /\ cfg'[p] = EmptyConfig /\ quota'[p] = {}
    BY <1>2, Reads DEF GiveUp, Forget
  <2> QED
    BY <2>1, EmptyNumbered
<1>3. ASSUME ResolvePaths(p), ~ GiveUp(p) PROVE OwnNumbered(p)'
  <2>1. /\ pc[p] = "resolve" /\ pc'[p] = "inspect" /\ UNCHANGED <<job, cfg, quota>>
        /\ todo'[p] = {Resolve(file[Cid(p)], x) : x \in todo[p]}
    BY <1>3, Reads DEF ResolvePaths
  <2>2. Op(p) = "add" => \A d \in todo[p] : d.host \in HostDev /\ DeviceNumbered(d)
    BY <1>1, <2>1 DEF InHandNumbered, TypeInv, DevicesKnown, Known, Op
  <2>3. Op(p) = "add" => \A d \in todo'[p] : DeviceNumbered(d)
    <3>1. file[Cid(p)] \in Config /\ todo[p] \in SUBSET Device
      BY Reads
    <3>2. ASSUME NEW x \in todo[p], x.host \in HostDev, DeviceNumbered(x)
          PROVE  DeviceNumbered(Resolve(file[Cid(p)], x))
      BY <3>1, <3>2, ResolveKeeps, NamesAssumption DEF DeviceNumbered
    <3> QED
      BY <2>1, <2>2, <3>2
  <2> QED
    BY <1>1, <2>1, <2>3 DEF OwnNumbered, InHandNumbered, Handling, Op
<1>4. ASSUME Inspect(p) \/ LockAndLoad(p), ~ GiveUp(p) PROVE OwnNumbered(p)'
  <2>1. /\ pc[p] \in {"inspect", "lock"} /\ pc'[p] \in {"lock", "quota", "udev"}
        /\ UNCHANGED <<job, todo, quota>> /\ cfg'[p] \in {cfg[p], file[Cid(p)]}
    BY <1>4, Reads DEF Inspect, LockAndLoad
  <2> QED
    BY <1>1, <2>1 DEF OwnNumbered, InHandNumbered, Handling, Op
<1>5. ASSUME LockUdev(p) PROVE OwnNumbered(p)'
  <2>1. /\ pc[p] = "udev" /\ pc'[p] = "each" /\ UNCHANGED <<job, cfg, quota>>
        /\ todo'[p] = IF Op(p) = "remove" THEN ToRemove(p) ELSE todo[p]
    BY <1>5, Reads DEF LockUdev
  <2>2. ToRemove(p) \subseteq cfg[p].devices
    BY DEF ToRemove, FindDeviceByMapping, FindSubPartition
  <2>3. Op(p) \in {"add", "remove"}
    BY <1>1, <2>1, Reads DEF TypeInv, DevicesKnown, Known, Op, Request
  <2> QED
    BY <1>1, <2>1, <2>2, <2>3 DEF OwnNumbered, Numbered, InHandNumbered, Handling, Op
<1> QED
  BY <1>2, <1>3, <1>4, <1>5

\* UpdateDevice and its roll backs handle devices that are numbered.
LEMMA EachNumbered ==
  ASSUME TypeInv, NumbersKept, NEW p \in Command, AddStep(p) \/ RemoveStep(p)
  PROVE  OwnNumbered(p)'
<1> DEFINE m == cfg[p]
<1>1. /\ Numbered(m) /\ InHandNumbered(p) /\ m \in Config /\ p \in Actor
      /\ pc[p] \in Handling => cur[p] \in Mapping
      /\ pc[p] \in Handling \cup {"each"} => todo[p] \subseteq Mapping
  BY Reads DEF NumbersKept, TypeInv, DevicesKnown, Known, Handling
<1>2. /\ \A d \in Mapping : DeviceNumbered(d) => Numbered(WithDevice(m, d))
      /\ \A d : Numbered(WithoutDevice(m, d))
      /\ \A old : Numbered(WithoutLimits(m, old))
  BY <1>1, NumberedOps
<1>3. UNCHANGED <<job, quota>> /\ pc[p] \in Handling \cup {"each"}
  BY <1>1 DEF AddStep, RefuseConflict, RefuseUnknown, RecordDevice, Mknod, MknodFails,
     Allow, AllowFails, RemoveStep, Unrecord, Unlink, UnlinkFails, Deny, DenyFails, ClearLimits,
     ClearFails, Handling
<1>4. \A d \in todo[p] : d \in Mapping /\ DeviceNumbered(d)
  BY <1>1, <1>3 DEF InHandNumbered
<1>5. pc[p] \in Handling => cur[p] \in Mapping /\ DeviceNumbered(cur[p])
  BY <1>1 DEF InHandNumbered
<1>6. /\ pc'[p] \in Handling \cup {"each"} /\ todo'[p] \subseteq todo[p]
      /\ \/ cur'[p] \in todo[p]
         \/ cur'[p] = cur[p] /\ pc[p] \in Handling
         \/ pc'[p] = "each"
  <2>0. \A d : Take(p, d) => d \in todo[p] /\ todo'[p] \subseteq todo[p]
    BY Reads DEF Take
  <2>1. CASE \E d \in todo[p] : RefuseConflict(p, d) \/ RefuseUnknown(p, d) \/ RecordDevice(p, d)
    BY <2>0, <2>1, Reads DEF RefuseConflict, RefuseUnknown, RecordDevice, Handling
  <2>2. CASE Mknod(p) \/ MknodFails(p) \/ Allow(p) \/ AllowFails(p)
    BY <2>2, Reads DEF Mknod, MknodFails, Allow, AllowFails, RollBack, Handling
  <2>3. CASE \E d \in todo[p] : Unrecord(p, d)
    <3>1. PICK d \in todo[p] : Unrecord(p, d)
      BY <2>3
    <3>2. todo'[p] \subseteq todo[p] /\ cur'[p] = d /\ pc'[p] \in {"unlink", "clear"}
      BY <2>0, <3>1, Reads DEF Unrecord
    <3> QED
      BY <3>1, <3>2 DEF Handling
  <2>4. CASE Unlink(p) \/ UnlinkFails(p) \/ Deny(p) \/ DenyFails(p)
    BY <2>4, Reads DEF Unlink, UnlinkFails, Deny, DenyFails, Handling
  <2>5. CASE ClearLimits(p) \/ ClearFails(p)
    BY <2>5, Reads DEF ClearLimits, ClearFails, Handling
  <2> QED
    BY <2>1, <2>2, <2>3, <2>4, <2>5 DEF AddStep, RemoveStep
<1>7. \/ cfg'[p] = m
      \/ \E d \in Mapping : DeviceNumbered(d) /\ cfg'[p] = WithDevice(m, d)
      \/ \E d : cfg'[p] = WithoutDevice(m, d)
      \/ \E old : cfg'[p] = WithoutLimits(m, old)
  <2>1. CASE AddStep(p)
    BY <1>4, <2>1, Reads DEF AddStep, RefuseConflict, RefuseUnknown, RecordDevice, Mknod,
       MknodFails, Allow, AllowFails, RollBack, Record
  <2>2. CASE UnlinkFails(p)
    BY <1>5, <2>2, Reads DEF UnlinkFails, Record, Handling
  <2>3. CASE RemoveStep(p) /\ ~ UnlinkFails(p)
    <3>1. CASE ClearLimits(p) \/ ClearFails(p)
      BY <3>1, ClearsLimits
    <3>2. CASE \E d \in todo[p] : Unrecord(p, d)
      BY <3>2, Reads DEF Unrecord, Record
    <3> QED
      BY <2>3, <3>1, <3>2 DEF RemoveStep, Unlink, Deny, DenyFails
  <2> QED
    BY <2>1, <2>2, <2>3
<1>8. Numbered(cfg'[p])
  BY <1>1, <1>2, <1>7
<1> QED
  BY <1>1, <1>3, <1>4, <1>5, <1>6, <1>8 DEF OwnNumbered, InHandNumbered, Handling, Op

\* Nor do the limits bring in another number.
LEMMA SaveNumbered ==
  ASSUME TypeInv, NumbersKept, NEW p \in Command, EachDone(p) \/ LimitStep(p) \/ WriteStep(p)
  PROVE  OwnNumbered(p)'
<1>1. /\ Numbered(cfg[p]) /\ InHandNumbered(p) /\ cfg[p] \in Config /\ p \in Actor
      /\ quota[p] \in SUBSET Qos
  BY Reads DEF NumbersKept
<1>2. ASSUME LimitStep(p) PROVE OwnNumbered(p)'
  <2>1. /\ pc'[p] \in {"quota", "save", "flush"} /\ quota'[p] \subseteq quota[p]
        /\ cfg'[p] = cfg[p] \/ \E q \in quota[p] : cfg'[p] = WithLimit(cfg[p], q)
    <3>1. ASSUME NEW x \in quota[p], SetLimit(p, x)
          PROVE  /\ pc'[p] = "quota" /\ quota'[p] \subseteq quota[p]
                 /\ cfg'[p] = WithLimit(cfg[p], x)
      BY <1>1, <3>1 DEF SetLimit, TypeInv, TypeOK, ProcessesTypeOK
    <3>2. ASSUME SetLimitFails(p) \/ LimitsDone(p)
          PROVE  /\ pc'[p] \in {"save", "flush"} /\ quota'[p] \subseteq quota[p]
                 /\ cfg'[p] = cfg[p]
      BY <3>2, Reads DEF SetLimitFails, LimitsDone, AfterQuota
    <3> QED
      BY <1>2, <3>1, <3>2 DEF LimitStep
  <2>2. \A q \in quota[p] : q \in Qos /\ LimitNumbered(q)
    BY <1>1 DEF InHandNumbered
  <2>3. Numbered(cfg'[p])
    BY <1>1, <2>1, <2>2, NumberedOps
  <2> QED
    BY <1>1, <2>1, <2>2, <2>3 DEF OwnNumbered, InHandNumbered, Handling
<1>3. ASSUME UnlockConfig(p) PROVE OwnNumbered(p)'
  <2>1. pc'[p] = "done" /\ cfg'[p] = EmptyConfig /\ quota'[p] = {}
    BY <1>3, Reads DEF UnlockConfig, Forget
  <2> QED
    BY <2>1, EmptyNumbered
<1>4. ASSUME EachDone(p) \/ TruncateRules(p) \/ UnlockUdev(p) \/ TruncateConfig(p)
      PROVE  OwnNumbered(p)'
  <2>1. /\ pc'[p] \in {"quota", "save", "rwrite", "flush", "fwrite"}
        /\ UNCHANGED <<job, todo, cur, cfg, quota>>
    BY <1>4, Reads DEF EachDone, TruncateRules, UnlockUdev, TruncateConfig, AfterRules
  <2> QED
    BY <1>1, <2>1 DEF OwnNumbered, InHandNumbered, Handling
<1> QED
  BY <1>2, <1>3, <1>4 DEF WriteStep

\* A hook brings in what it has loaded, and finds nothing that has changed.
LEMMA HookNumbered ==
  ASSUME TypeInv, Installing, NumbersKept, NEW c \in Container,
         HookNext(c) \/ StartContainer(c) \/ StopContainer(c) \/ Crash(c)
  PROVE  Numbered(cfg'[c]) /\ ~ dirty'[c]
<1>1. /\ c \in Actor /\ cfg \in [Actor -> Config] /\ dirty \in [Actor -> BOOLEAN]
      /\ cfg[c] \in Config /\ Numbered(cfg[c]) /\ Numbered(file[c]) /\ ~ dirty[c]
      /\ hostNum = InitialNumber /\ Numbered(EmptyConfig)
  BY ActorTypes DEF TypeInv, TypeOK, ProcessesTypeOK, NumbersKept, Numbered, EmptyConfig
<1>2. ASSUME NEW d \in todo[c], Install(c, d) PROVE cfg'[c] = cfg[c] /\ dirty'[c] = dirty[c]
  <2>1. d \in cfg[c].devices
    BY <1>2 DEF Install, Installing
  <2>2. hostNum[d.host] = d.num /\ Renumbered(cfg[c], d, hostNum[d.host]) = cfg[c]
    BY <1>1, <2>1, NothingRenumbered
  <2> QED
    BY <1>1, <1>2, <2>2 DEF Install, Dirtied
<1>3. ASSUME HookLimits(c) PROVE cfg'[c] = cfg[c] /\ dirty'[c] = dirty[c]
  <2>1. LimitsRenumbered(cfg[c], hostNum) = cfg[c]
    BY <1>1, NothingRenumbered
  <2> QED
    BY <1>1, <1>3, <2>1 DEF HookLimits, Dirtied
<1>4. CASE ReadConfig(c)
  BY <1>1, <1>4 DEF ReadConfig
<1>5. CASE AbortStart(c) \/ HookReturns(c) \/ UnlockConfig(c) \/ Crash(c)
  BY <1>1, <1>5 DEF AbortStart, HookReturns, UnlockConfig, Crash, Forget
<1>6. CASE \/ PrepareFails(c) \/ HookLockUdev(c) \/ HookDevicesDone(c) \/ HookLimitsFail(c)
           \/ HookLock(c) \/ TruncateRules(c) \/ UnlockUdev(c) \/ TruncateConfig(c)
           \/ \E d \in todo[c] : InstallFails(c, d) \/ WithdrawRule(c, d) \/ WithdrawFails(c, d)
           \/ StartContainer(c) \/ StopContainer(c)
  BY <1>1, <1>6 DEF PrepareFails, HookLockUdev, HookDevicesDone, HookLimitsFail, HookLock,
     TruncateRules, UnlockUdev, TruncateConfig, InstallFails, WithdrawRule, WithdrawFails,
     StartContainer, StopContainer
<1> QED
  BY <1>1, <1>2, <1>3, <1>4, <1>5, <1>6 DEF HookNext, WriteStep

-----------------------------------------------------------------------------
(***************************************************************************)
(* The invariant holds                                                     *)
(***************************************************************************)
\* A file changes only while a command that has its lock writes it.
LEMMA FilesStay ==
  ASSUME StoreInv, NEW a \in Actor, StepOf(a), NEW c \in Container
  PROVE  \/ a \in Command /\ Cid(a) = c /\ flock[c] = a /\ (TruncateConfig(a) \/ UnlockConfig(a))
         \/ file'[c] = file[c] /\ torn'[c] = torn[c]
<1> TypeInv /\ LocksHeld
  BY DEF StoreInv, LockInv
<1>1. file \in [Container -> Config] /\ torn \in [Container -> BOOLEAN]
  BY DEF TypeInv, TypeOK, FilesTypeOK
<1>2. ASSUME TruncateConfig(a) \/ UnlockConfig(a), a \in Command
      PROVE  /\ flock[Cid(a)] = a
             /\ Cid(a) # c => file'[c] = file[c] /\ torn'[c] = torn[c]
  <2>1. HoldsConfig(a) /\ Cid(a) \in Container
    BY <1>2, Reads DEF HoldsConfig, TruncateConfig, UnlockConfig
  <2> QED
    BY <1>1, <1>2, <2>1 DEF TruncateConfig, UnlockConfig, LocksHeld
<1>3. ASSUME TruncateConfig(a) \/ UnlockConfig(a), a \in Container
      PROVE  UNCHANGED <<file, torn>>
  BY <1>3 DEF TruncateConfig, UnlockConfig, MustWrite, StoreInv, NumbersKept, ServedInv,
     HooksDoNotWrite
<1>4. CASE ~ TruncateConfig(a) /\ ~ UnlockConfig(a) /\ ~ Crash(a)
  <2>1. CASE a \in Command
    BY <1>4, <2>1, ActorTypes
    DEF StepOf, CommandNext, ResolvePaths, Inspect, LockAndLoad, LockUdev, GiveUp, AddStep,
        RemoveStep, EachDone, LimitStep, WriteStep, RefuseConflict, RefuseUnknown, RecordDevice,
        Mknod, MknodFails, Allow, AllowFails, Unrecord, Unlink, UnlinkFails, Deny, DenyFails,
        ClearLimits, ClearFails, SetLimit, SetLimitFails, LimitsDone, TruncateRules, UnlockUdev,
        Begin, fileVars
  <2>2. CASE a \in Container
    BY <1>4, <2>2, ActorTypes
    DEF StepOf, HookNext, ReadConfig, PrepareFails, HookLockUdev, Install, InstallFails,
        WithdrawRule, WithdrawFails, HookDevicesDone, HookLimits, HookLimitsFail, HookLock,
        AbortStart, HookReturns, WriteStep, TruncateRules, UnlockUdev, StartContainer,
        StopContainer, fileVars
  <2> QED
    BY <2>1, <2>2 DEF Actor
<1>5. CASE Crash(a)
  BY <1>5 DEF Crash, fileVars
<1> QED
  BY <1>2, <1>3, <1>4, <1>5 DEF Actor

\* What others do does not concern a command.
LEMMA OthersServed ==
  ASSUME StoreInv, NEW a \in Actor, StepOf(a), NEW p \in Command \ {a}
  PROVE  CommandInv(p)'
<1> TypeInv /\ LocksHeld /\ CommandInv(p) /\ p \in Actor /\ p \notin Container
  BY ActorTypes DEF StoreInv, LockInv, ServedInv
<1>1. Kept(p) /\ Cid(p) \in Container
  BY OthersKept, CidType
<1>2. Cid(p)' = Cid(p)
  BY <1>1 DEF Kept, Cid
<1>3. CASE pc[p] \in Locked \cup {"fwrite"}
  <2>1. flock[Cid(p)] = p
    BY <1>1, <1>3 DEF LocksHeld, HoldsConfig, Locked
  <2>2. file'[Cid(p)] = file[Cid(p)] /\ torn'[Cid(p)] = torn[Cid(p)]
    BY <1>1, <2>1, FilesStay
  <2> QED
    BY <1>1, <1>2, <2>2 DEF Kept, CommandInv
<1>4. CASE pc[p] \notin Locked \cup {"fwrite"}
  BY <1>1, <1>4 DEF Kept, CommandInv, Served, Locked
<1> QED
  BY <1>3, <1>4

\* No step renumbers anything.
LEMMA NumbersStay ==
  ASSUME StoreInv, NEW a \in Actor, StepOf(a)
  PROVE  NumbersKept'
<1> TypeInv /\ NumbersKept /\ Installing
  BY DEF StoreInv, LockInv, MappingInv
<1>1. hostNum' = hostNum
  <2>1. CASE a \in Command
    BY <2>1, ActorTypes
    DEF StepOf, CommandNext, ResolvePaths, Inspect, LockAndLoad, LockUdev, GiveUp, AddStep,
        RemoveStep, EachDone, LimitStep, WriteStep, RefuseConflict, RefuseUnknown, RecordDevice,
        Mknod, MknodFails, Allow, AllowFails, Unrecord, Unlink, UnlinkFails, Deny, DenyFails,
        ClearLimits, ClearFails, SetLimit, SetLimitFails, LimitsDone, TruncateRules, UnlockUdev,
        TruncateConfig, UnlockConfig, Begin, Crash, envVars
  <2>2. CASE a \in Container
    BY <2>2, ActorTypes
    DEF StepOf, HookNext, ReadConfig, PrepareFails, HookLockUdev, Install, InstallFails,
        WithdrawRule, WithdrawFails, HookDevicesDone, HookLimits, HookLimitsFail, HookLock,
        AbortStart, HookReturns, WriteStep, TruncateRules, UnlockUdev, StartContainer,
        TruncateConfig, UnlockConfig, StopContainer, Crash, envVars
  <2> QED
    BY <2>1, <2>2 DEF Actor
<1>2. \A b \in Actor \ {a} : Kept(b)
  BY OthersKept
<1>3. a \in Command => OwnNumbered(a)'
  <2>1. ASSUME a \in Command, Crash(a) PROVE OwnNumbered(a)'
    <3>1. pc'[a] = "done" /\ cfg'[a] = EmptyConfig /\ quota'[a] = {}
      BY <2>1, Reads DEF Crash, Forget
    <3> QED
      BY <2>1, <3>1, EmptyNumbered
  <2> QED
    BY <2>1, BeginNumbered, LoadNumbered, EachNumbered, SaveNumbered, ActorTypes
    DEF StepOf, CommandNext
<1>4. a \in Container => Numbered(cfg'[a]) /\ ~ dirty'[a]
  BY HookNumbered, ActorTypes DEF StepOf
<1>5. \A c \in Container : Numbered(file'[c])
  <2>1. ASSUME NEW c \in Container, TruncateConfig(a) PROVE Numbered(file'[c])
    <3>1. file'[c] = file[c] \/ file'[c] = cfg[a]
      BY <2>1 DEF TruncateConfig, TypeInv, TypeOK, FilesTypeOK
    <3> QED
      BY <3>1 DEF NumbersKept
  <2>2. ASSUME NEW c \in Container, ~ TruncateConfig(a) PROVE Numbered(file'[c])
    <3>1. file'[c] = file[c]
      BY <2>2, FilesStay DEF UnlockConfig
    <3> QED
      BY <3>1 DEF NumbersKept
  <2> QED
    BY <2>1, <2>2
<1>6. \A b \in Actor : Numbered(cfg'[b])
  BY <1>2, <1>3, <1>4 DEF Kept, NumbersKept, OwnNumbered, Actor
<1>7. \A b \in Actor \ {a} : InHandNumbered(b)'
  BY <1>2 DEF Kept, NumbersKept, InHandNumbered, Op
<1>8. InHandNumbered(a)'
  <2>1. CASE a \in Container
    <3>1. StepsTypeOK'
      BY StepIsNext, TypeKept DEF TypeInv, TypeOK
    <3> QED
      BY <2>1, <3>1, ActorTypes DEF InHandNumbered, StepsTypeOK, HookStep, Handling
  <2> QED
    BY <1>3, <2>1 DEF OwnNumbered, Actor
<1>9. \A c \in Container : ~ dirty'[c]
  BY <1>2, <1>4, ActorTypes DEF Kept, NumbersKept
<1> QED
  BY <1>1, <1>5, <1>6, <1>7, <1>8, <1>9 DEF NumbersKept

\* A hook has nothing to write.
LEMMA HooksStayClean ==
  ASSUME StoreInv, NEW a \in Actor, StepOf(a)
  PROVE  HooksDoNotWrite'
<1> TypeInv /\ HooksDoNotWrite /\ \A c \in Container : ~ dirty[c]
  BY DEF StoreInv, LockInv, NumbersKept, ServedInv
<1>1. \A b \in Actor \ {a} : pc'[b] = pc[b]
  BY OthersKept DEF Kept
<1>2. ASSUME a \in Container PROVE pc'[a] # "fwrite"
  <2>1. pc \in [Actor -> CommandStep \cup HookStep] /\ pc[a] # "fwrite" /\ ~ dirty[a]
    BY <1>2 DEF TypeInv, TypeOK, StepsTypeOK, HooksDoNotWrite
  <2> QED
    BY <1>2, <2>1, ActorTypes
    DEF StepOf, HookNext, ReadConfig, PrepareFails, HookLockUdev, Install, InstallFails,
        WithdrawRule, WithdrawFails, HookDevicesDone, HookLimits, HookLimitsFail, HookLock,
        AbortStart, HookReturns, WriteStep, TruncateRules, UnlockUdev, TruncateConfig,
        UnlockConfig, StartContainer, StopContainer, Crash, Goto, AfterRules, MustWrite
<1> QED
  BY <1>1, <1>2, ActorTypes DEF HooksDoNotWrite

\* A step of a process keeps the invariant.
LEMMA StepKeepsStore ==
  ASSUME StoreInv, NEW a \in Actor, StepOf(a)
  PROVE  StoreInv'
<1>1. LockInv' /\ MappingInv'
  BY StepIsNext, LockInvKept, MappingInvKept DEF StoreInv
<1>2. ASSUME NEW p \in Command PROVE CommandInv(p)'
  <2>1. CASE p = a
    BY <2>1, OwnServed DEF StoreInv, LockInv, MappingInv, ServedInv
  <2>2. CASE p # a
    BY <2>2, OthersServed
  <2> QED
    BY <2>1, <2>2
<1> QED
  BY <1>1, <1>2, NumbersStay, HooksStayClean DEF StoreInv, ServedInv

\* With no device left to plug, every step is a step of a process.
LEMMA NothingPlugged ==
  ASSUME MaxPlugs = 0, TypeInv, Next
  PROVE  \E a \in Actor : StepOf(a)
<1>1. ASSUME NEW h \in HostDev, NEW n \in Numbers \cup {0} PROVE ~ Plug(h, n)
  BY DEF Plug, TypeInv, TypeOK, EnvironmentTypeOK
<1> QED
  BY <1>1, NextIsStep

\* Nothing of the invariant is about the environment.
LEMMA StutterKeepsStore ==
  ASSUME StoreInv, UNCHANGED vars
  PROVE  StoreInv'
<1>1. LockInv' /\ MappingInv'
  BY LockInvKept, MappingInvKept DEF StoreInv
<1>2. NumbersKept'
  BY DEF StoreInv, NumbersKept, InHandNumbered, Op, vars, fileVars, procVars, envVars
<1>3. ServedInv'
  BY DEF StoreInv, ServedInv, HooksDoNotWrite, CommandInv, Cid, vars, fileVars, procVars
<1> QED
  BY <1>1, <1>2, <1>3 DEF StoreInv

\* At first no command is under way and nothing is configured.
LEMMA InitStore == Init => StoreInv
<1> SUFFICES ASSUME Init PROVE StoreInv
  OBVIOUS
<1>1. LockInv /\ MappingInv
  BY InitLocks, InitMappings
<1>2. NumbersKept
  BY ActorTypes DEF Init, NumbersKept, Numbered, EmptyConfig, InHandNumbered, Handling
<1>3. HooksDoNotWrite
  BY ActorTypes DEF Init, HooksDoNotWrite
<1>4. ASSUME NEW p \in Command PROVE CommandInv(p)
  <2>1. pc[p] = "idle" /\ ~ err[p] /\ ~ dirty[p] /\ job[p] = NoJob(CHOOSE c \in Container : TRUE)
    BY ActorTypes DEF Init
  <2>2. WellAsked(job[p].req)
    BY <2>1 DEF NoJob, WellAsked
  <2> QED
    BY <2>1, <2>2 DEF CommandInv, Served, Locked
<1> QED
  BY <1>1, <1>2, <1>3, <1>4 DEF StoreInv, ServedInv

\* What every command has in memory is the file and what it was asked for.
LEMMA StoreInvCorrect ==
  ASSUME MaxPlugs = 0
  PROVE  Spec => []StoreInv
<1>1. StoreInv /\ [Next]_vars => StoreInv'
  BY NothingPlugged, StepKeepsStore, StutterKeepsStore DEF StoreInv, LockInv
<1> QED
  BY <1>1, InitStore, PTL DEF Spec

-----------------------------------------------------------------------------
(***************************************************************************)
(* The refinement                                                          *)
(***************************************************************************)
Phase(l) == CASE l \in {"idle", "done"} -> l
              [] l = "fwrite" -> "written"
              [] OTHER -> "pending"

Pairs(ds) == {[host |-> d.host, path |-> d.path] : d \in ds}

Stores   == [c \in Container |-> Pairs(file[c].devices)]
Spoilt(c) == torn[c] /\ ~ \E a \in Actor : pc[a] = "fwrite" /\ Cid(a) = c
Phases   == [p \in Command |-> Phase(pc[p])]
Orders   == [p \in Command |-> job[p].req]
Reported(p) == pc[p] \in {"fwrite", "done"} /\ ~ err[p]
Damaged  == [c \in Container |-> Spoilt(c)]
Reports  == [p \in Command |-> Reported(p)]

\* The variables of DeviceStore, one by one, of which a step changes only what
\* belongs to one command.
LEMMA OrdersKept ==
  ASSUME UNCHANGED job
  PROVE  Orders' = Orders
  BY DEF Orders

LEMMA PhasesMove ==
  ASSUME NEW p \in Command, \A x \in Command \ {p} : pc'[x] = pc[x]
  PROVE  Phases' = [Phases EXCEPT ![p] = Phase(pc'[p])]
<1>1. \A x \in Command : Phase(pc[x])' = IF x = p THEN Phase(pc'[p]) ELSE Phase(pc[x])
  BY DEF Phase
<1> QED
  BY <1>1 DEF Phases

LEMMA ReportsMove ==
  ASSUME NEW p \in Command, \A x \in Command \ {p} : pc'[x] = pc[x] /\ err'[x] = err[x]
  PROVE  Reports' = [Reports EXCEPT ![p] = Reported(p)']
<1>1. \A x \in Command : Reported(x)' = IF x = p THEN Reported(p)' ELSE Reported(x)
  BY DEF Reported
<1> QED
  BY <1>1 DEF Reports

\* The whole effect of a command that has arrived at the flush.
LEMMA FlushEffect ==
  ASSUME StoreInv, NEW p \in Command, pc[p] = "flush"
  PROVE  Store!Effect(job[p].req, Pairs(file[Cid(p)].devices), Pairs(cfg[p].devices), ~ err[p])
<1> DEFINE q == job[p].req
           ds == cfg[p].devices
           s == file[Cid(p)].devices
<1>1. /\ Changes(q, {}, ds, err[p], s) /\ OneToOne(cfg[p]) /\ q \in Request
      /\ ds \subseteq Mapping /\ s \subseteq Mapping
  BY Reads, OwnMappings, ConfigTypes
  DEF StoreInv, LockInv, MappingInv, ServedInv, CommandInv, Served, Locked
<1>2. \A e, f \in ds : Clash(e, f) => e = f
  BY <1>1 DEF OneToOne
<1> HIDE DEF q, ds, s
<1>3. /\ \A e \in Pairs(ds) : \E d \in ds : e.host = d.host /\ e.path = d.path
                                       /\ e = [host |-> d.host, path |-> d.path]
      /\ \A d \in ds : [host |-> d.host, path |-> d.path] \in Pairs(ds)
      /\ \A e \in Pairs(s) : \E d \in s : e.host = d.host /\ e.path = d.path
                                      /\ e = [host |-> d.host, path |-> d.path]
      /\ \A d \in s : [host |-> d.host, path |-> d.path] \in Pairs(s)
  BY DEF Pairs
<1>4. \A e, d : e.host = d.host /\ e.path = d.path =>
         /\ Store!MeantBy(q, d) => Store!MeantBy(q, e)
         /\ \A arg : Store!Asks(arg, d) <=> Store!Asks(arg, e)
  BY DEF Store!MeantBy, Store!Asks
<1>5. Store!OneToOnePairs(Pairs(ds))
  BY <1>2, <1>3 DEF Store!OneToOnePairs, Clash
<1>6. CASE q.op = "add"
  <2>1. Adds(q, {}, ds, err[p], s)
    BY <1>1, <1>6 DEF Changes
  <2>2. Pairs(s) \subseteq Pairs(ds)
    BY <2>1 DEF Adds, Pairs
  <2>3. \A e \in Pairs(ds) \ Pairs(s) : Store!MeantBy(q, e)
    BY <1>3, <1>4, <2>1 DEF Adds
  <2>4. ~ err[p] => \A arg \in q.devs : \E e \in Pairs(ds) : Store!Asks(arg, e)
    <3>1. ASSUME ~ err[p], NEW arg \in q.devs PROVE \E e \in Pairs(ds) : Store!Asks(arg, e)
      <4>1. PICK d \in ds : Store!Asks(arg, d)
        BY <2>1, <3>1 DEF Adds
      <4>2. Store!Asks(arg, [host |-> d.host, path |-> d.path])
        BY <4>1 DEF Store!Asks
      <4> QED
        BY <1>3, <4>2
    <3> QED
      BY <3>1
  <2> QED
    BY <1>5, <1>6, <2>2, <2>3, <2>4 DEF Store!Effect, q, ds, s
<1>7. CASE q.op = "remove"
  <2>1. Removes(q, {}, ds, err[p], s)
    BY <1>1, <1>7 DEF Changes
  <2>2. Pairs(ds) \subseteq Pairs(s)
    BY <2>1 DEF Removes, Pairs
  <2>3. \A e \in Pairs(s) \ Pairs(ds) : Store!MeantBy(q, e)
    BY <1>3, <1>4, <2>1 DEF Removes
  <2>4. ASSUME ~ err[p], NEW arg \in q.devs, NEW e \in Pairs(ds)
        PROVE  /\ ~ Store!Asks(arg, e)
               /\ q.follow /\ arg.host # Unset => Parent[e.host] # arg.host
    <3>1. PICK d \in ds : e.host = d.host /\ e.path = d.path
      BY <1>3
    <3>2. ~ Hits(q, arg, d)
      BY <2>1, <2>4 DEF Removes
    <3> QED
      BY <1>4, <3>1, <3>2 DEF Hits
  <2> QED
    BY <1>7, <2>2, <2>3, <2>4 DEF Store!Effect, q, ds, s
<1>8. CASE q.op = "update"
  BY <1>1, <1>8 DEF Changes, Store!Effect, q, ds, s
<1> QED
  BY <1>1, <1>6, <1>7, <1>8 DEF Request

\* The actions of DeviceStore in terms of these.
LEMMA AppliesIf ==
  ASSUME NEW p \in Command, NEW c \in Container, Orders[p].cid = c, Phases[p] = "pending",
         ~ Damaged[c], Stores' \in [Container -> SUBSET Store!Pair],
         \A b \in Container \ {c} : Stores'[b] = Stores[b],
         NEW success \in BOOLEAN,
         Store!Effect(Orders[p], Stores[c], Stores'[c], success),
         Reports' = [Reports EXCEPT ![p] = success],
         \/ Phases' = [Phases EXCEPT ![p] = "written"]
         \/ Stores' = Stores /\ Phases' = [Phases EXCEPT ![p] = "done"],
         UNCHANGED <<Damaged, Orders>>
  PROVE  Store!Apply(p)
<1>1. Store!Apply(p) <=>
        /\ Phases[p] = "pending"
        /\ ~ Damaged[Orders[p].cid]
        /\ Stores' \in [Container -> SUBSET Store!Pair]
        /\ \A b \in Container \ {Orders[p].cid} : Stores'[b] = Stores[b]
        /\ \E y \in BOOLEAN :
              /\ Store!Effect(Orders[p], Stores[Orders[p].cid], Stores'[Orders[p].cid], y)
              /\ Reports' = [Reports EXCEPT ![p] = y]
        /\ \/ Phases' = [Phases EXCEPT ![p] = "written"]
           \/ Stores' = Stores /\ Phases' = [Phases EXCEPT ![p] = "done"]
        /\ UNCHANGED <<Damaged, Orders>>
  BY DEF Store!Apply, Phases, Phase, Stores, Pairs, Damaged, Spoilt, Orders, Reports, Reported
<1> QED
  BY <1>1

LEMMA OtherActions ==
  ASSUME NEW p \in Command
  PROVE  /\ Store!Submit(p) <=>
              /\ Phases[p] = "idle" /\ Phases' = [Phases EXCEPT ![p] = "pending"]
              /\ \E r \in Requests \cup {NoJob(CHOOSE c \in Container : TRUE).req} :
                    Orders' = [Orders EXCEPT ![p] = r]
              /\ UNCHANGED <<Stores, Damaged, Reports>>
         /\ Store!Return(p) <=>
              /\ Phases[p] = "written" /\ Phases' = [Phases EXCEPT ![p] = "done"]
              /\ UNCHANGED <<Stores, Damaged, Orders, Reports>>
         /\ Store!Abandon(p) <=>
              /\ Phases[p] = "pending" /\ Phases' = [Phases EXCEPT ![p] = "done"]
              /\ UNCHANGED <<Stores, Damaged, Orders, Reports>>
         /\ Store!Damage(p) <=>
              /\ Phases[p] = "written" /\ Phases' = [Phases EXCEPT ![p] = "done"]
              /\ Damaged' = [Damaged EXCEPT ![Orders[p].cid] = TRUE]
              /\ Reports' = [Reports EXCEPT ![p] = FALSE]
              /\ UNCHANGED <<Stores, Orders>>
  BY DEF Store!Submit, Store!Return, Store!Abandon, Store!Damage,
     Phases, Phase, Stores, Pairs, Damaged, Spoilt, Orders, Reports, Reported

LEMMA NothingSeen ==
  UNCHANGED <<Stores, Damaged, Phases, Orders, Reports>> => UNCHANGED Store!storeVars
  BY DEF Store!storeVars, Phases, Phase, Stores, Pairs, Damaged, Spoilt, Orders, Reports, Reported

\* While nobody starts or stops writing a container's file, it is as spoilt as
\* it was.
LEMMA DamagedKept ==
  ASSUME \A c \in Container : Spoilt(c)' <=> Spoilt(c)
  PROVE  Damaged' = Damaged
<1>1. \A c \in Container : Spoilt(c) \in BOOLEAN /\ Spoilt(c)' \in BOOLEAN
  BY DEF Spoilt
<1>2. \A c \in Container : Spoilt(c)' = Spoilt(c)
  BY <1>1
<1> QED
  BY <1>2 DEF Damaged

LEMMA StoresKept ==
  ASSUME UNCHANGED file
  PROVE  Stores' = Stores
  BY DEF Stores

\* A step of p that leaves the files alone and p out of the write.
LEMMA QuietStep ==
  ASSUME StoreInv, NEW a \in Actor, UNCHANGED <<file, torn>>,
         \A b \in Actor \ {a} : Kept(b), pc[a] # "fwrite", pc'[a] # "fwrite"
  PROVE  Stores' = Stores /\ Damaged' = Damaged
<1>1. \A b \in Actor : /\ pc'[b] = "fwrite" <=> pc[b] = "fwrite"
                       /\ pc[b] = "fwrite" => Cid(b)' = Cid(b)
  BY DEF Kept, Cid, Actor
<1>2. \A c \in Container : Spoilt(c)' <=> Spoilt(c)
  BY <1>1 DEF Spoilt
<1> QED
  BY <1>2, StoresKept, DamagedKept

\* The command line is the submission.
LEMMA BeginSubmits ==
  ASSUME StoreInv, NEW p \in Command, NEW r \in Requests, Begin(p, r)
  PROVE  Store!Submit(p)
<1> TypeInv /\ p \in Actor /\ StepOf(p)
  BY ActorTypes DEF StoreInv, LockInv, StepOf
<1>1. \A b \in Actor \ {p} : Kept(b)
  BY OthersKept
<1>2. /\ pc[p] = "idle" /\ pc'[p] \in {"inspect", "resolve"} /\ UNCHANGED <<file, torn, err>>
      /\ job'[p].req = r /\ \A x \in Command \ {p} : job'[x] = job[x]
  BY Reads DEF Begin, fileVars, TypeInv, TypeOK, ProcessesTypeOK
<1>3. Phases[p] = "idle" /\ Phases' = [Phases EXCEPT ![p] = "pending"]
  BY <1>1, <1>2, PhasesMove, ActorTypes DEF Phases, Phase, Kept
<1>4. Orders' = [Orders EXCEPT ![p] = r]
  <2>1. \A x \in Command : job'[x].req = IF x = p THEN r ELSE job[x].req
    BY <1>2
  <2> QED
    BY <2>1 DEF Orders
<1>5. Reports' = Reports
  <2>1. \A x \in Command : Reported(x)' = Reported(x)
    BY <1>1, <1>2, ActorTypes DEF Reported, Kept
  <2> QED
    BY <2>1 DEF Reports
<1>6. Stores' = Stores /\ Damaged' = Damaged
  BY <1>1, <1>2, QuietStep
<1> QED
  BY <1>3, <1>4, <1>5, <1>6, OtherActions

\* A command that gives up, or is killed before it writes, has had no effect.
LEMMA Abandons ==
  ASSUME StoreInv, NEW p \in Command, StepOf(p), UNCHANGED <<file, torn, job>>,
         Phase(pc[p]) = "pending", pc'[p] = "done", err'[p] = TRUE
  PROVE  Store!Abandon(p)
<1> TypeInv /\ p \in Actor
  BY ActorTypes DEF StoreInv, LockInv
<1>1. \A b \in Actor \ {p} : Kept(b)
  BY OthersKept
<1>2. pc[p] \notin {"idle", "done", "fwrite"}
  BY DEF Phase
<1>3. Phases[p] = "pending" /\ Phases' = [Phases EXCEPT ![p] = "done"]
  BY <1>1, PhasesMove, ActorTypes DEF Phases, Phase, Kept
<1>4. Orders' = Orders
  BY OrdersKept
<1>5. Reports' = Reports
  <2>1. \A x \in Command : Reported(x)' <=> Reported(x)
    BY <1>1, <1>2, ActorTypes DEF Reported, Kept
  <2>2. \A x \in Command : Reported(x) \in BOOLEAN /\ Reported(x)' \in BOOLEAN
    BY DEF Reported
  <2>3. \A x \in Command : Reported(x)' = Reported(x)
    BY <2>1, <2>2
  <2> QED
    BY <2>3 DEF Reports
<1>6. Stores' = Stores /\ Damaged' = Damaged
  BY <1>1, <1>2, QuietStep
<1> QED
  BY <1>3, <1>4, <1>5, <1>6, OtherActions

\* The flush: the file is truncated and filled with what the command has made.
LEMMA TruncateApplies ==
  ASSUME StoreInv, NEW p \in Command, TruncateConfig(p),
         NEW c \in Container, c = Cid(p)
  PROVE  Store!Apply(p)
<1> TypeInv /\ p \in Actor /\ StepOf(p) /\ c \in Container /\ LocksHeld
  BY Reads DEF StoreInv, LockInv, StepOf, CommandNext, WriteStep
<1>1. \A b \in Actor \ {p} : Kept(b)
  BY OthersKept
<1>2. /\ pc[p] = "flush" /\ pc'[p] = "fwrite" /\ UNCHANGED <<job, err>> /\ Cid(p)' = c
      /\ file' = [file EXCEPT ![c] = cfg[p]] /\ torn' = [torn EXCEPT ![c] = TRUE]
      /\ file \in [Container -> Config] /\ torn \in [Container -> BOOLEAN]
  BY Reads DEF TruncateConfig, Cid, TypeInv, TypeOK, FilesTypeOK
<1>3. Phases[p] = "pending" /\ Phases' = [Phases EXCEPT ![p] = "written"]
  BY <1>1, <1>2, PhasesMove, ActorTypes DEF Phases, Phase, Kept
<1>4. Reports' = [Reports EXCEPT ![p] = ~ err[p]]
  <2>1. Reports' = [Reports EXCEPT ![p] = Reported(p)']
    BY <1>1, ReportsMove, ActorTypes DEF Kept
  <2>2. Reported(p)' = ~ err[p]
    BY <1>2 DEF Reported
  <2> QED
    BY <2>1, <2>2
<1>5. Orders' = Orders /\ Orders[p] = job[p].req /\ Orders[p].cid = c
  BY <1>2, Reads, OrdersKept DEF Orders
<1>6. ~ torn[c]
  BY <1>2 DEF StoreInv, ServedInv, CommandInv, Locked
<1>7. Damaged' = Damaged /\ ~ Damaged[c]
  <2>1. \A b \in Actor \ {p} : pc'[b] = pc[b] /\ Cid(b)' = Cid(b)
    BY <1>1 DEF Kept, Cid, Actor
  <2>2. ~ Spoilt(c) /\ ~ Spoilt(c)'
    BY <1>2, <1>6 DEF Spoilt
  <2>3. \A b \in Container \ {c} : Spoilt(b)' <=> Spoilt(b)
    BY <1>2, <2>1 DEF Spoilt
  <2>4. \A b \in Container : Spoilt(b)' <=> Spoilt(b)
    BY <2>2, <2>3
  <2>5. Damaged' = Damaged
    BY <2>4, DamagedKept
  <2>6. ~ Damaged[c]
    BY <2>2 DEF Damaged
  <2> QED
    BY <2>5, <2>6
<1>8. /\ \A b \in Container : Stores'[b] = Pairs(file'[b].devices) /\ Stores[b] = Pairs(file[b].devices)
      /\ \A b \in Container \ {c} : file'[b] = file[b]
      /\ file'[c] = cfg[p]
  BY <1>2 DEF Stores, Pairs
<1>9. Store!Effect(Orders[p], Stores[c], Stores'[c], ~ err[p])
  BY <1>2, <1>5, <1>8, FlushEffect
<1>10. Stores' \in [Container -> SUBSET Store!Pair]
  <2>1. \A b \in Container : file'[b].devices \subseteq Mapping
    BY <1>2, <1>8, Reads, ConfigTypes
  <2>2. \A b \in Container : Pairs(file'[b].devices) \subseteq Store!Pair
    BY <2>1 DEF Pairs, Store!Pair, Mapping
  <2> QED
    BY <1>8, <2>2 DEF Stores
<1>11. (~ err[p]) \in BOOLEAN /\ \A b \in Container \ {c} : Stores'[b] = Stores[b]
  BY <1>8
<1> QED
  BY <1>3, <1>4, <1>5, <1>7, <1>9, <1>10, <1>11, AppliesIf

\* A command that has not changed its configuration takes effect at its end.
LEMMA UnchangedApplies ==
  ASSUME StoreInv, NEW p \in Command, UnlockConfig(p), pc[p] = "flush",
         NEW c \in Container, c = Cid(p)
  PROVE  Store!Apply(p)
<1> TypeInv /\ p \in Actor /\ StepOf(p) /\ c \in Container
  BY Reads DEF StoreInv, LockInv, StepOf, CommandNext, WriteStep
<1>1. \A b \in Actor \ {p} : Kept(b)
  BY OthersKept
<1>2. /\ pc'[p] = "done" /\ UNCHANGED <<file, torn, job, err>> /\ ~ dirty[p]
      /\ file \in [Container -> Config]
  BY Reads DEF UnlockConfig, MustWrite, TypeInv, TypeOK, FilesTypeOK
<1>3. Phases[p] = "pending" /\ Phases' = [Phases EXCEPT ![p] = "done"]
  BY <1>1, <1>2, PhasesMove, ActorTypes DEF Phases, Phase, Kept
<1>4. Reports' = [Reports EXCEPT ![p] = ~ err[p]]
  <2>1. Reports' = [Reports EXCEPT ![p] = Reported(p)']
    BY <1>1, ReportsMove, ActorTypes DEF Kept
  <2>2. Reported(p)' = ~ err[p]
    BY <1>2 DEF Reported
  <2> QED
    BY <2>1, <2>2
<1>5. Orders' = Orders /\ Orders[p] = job[p].req /\ Orders[p].cid = c
  BY <1>2, Reads, OrdersKept DEF Orders
<1>6. Stores' = Stores /\ Damaged' = Damaged
  BY <1>1, <1>2, QuietStep
<1>7. ~ Damaged[c]
  <2>1. ~ Spoilt(c)
    BY DEF StoreInv, ServedInv, CommandInv, Locked, Spoilt
  <2> QED
    BY <2>1 DEF Damaged
<1>8. cfg[p].devices = file[c].devices
  BY <1>2 DEF StoreInv, ServedInv, CommandInv, Served, Locked
<1>9. Stores[c] = Pairs(file[c].devices)
  BY DEF Stores
<1>10. Store!Effect(Orders[p], Stores[c], Stores'[c], ~ err[p])
  <2>1. Stores'[c] = Pairs(cfg[p].devices)
    BY <1>6, <1>8, <1>9
  <2> QED
    BY <1>5, <1>9, <2>1, FlushEffect
<1>11. Stores' \in [Container -> SUBSET Store!Pair]
  <2>1. \A b \in Container : file[b].devices \subseteq Mapping
    BY <1>2, ConfigTypes
  <2>2. \A b \in Container : Pairs(file[b].devices) \subseteq Store!Pair
    BY <2>1 DEF Pairs, Store!Pair, Mapping
  <2>3. Stores \in [Container -> SUBSET Store!Pair]
    BY <2>2 DEF Stores
  <2> QED
    BY <1>6, <2>3
<1>12. (~ err[p]) \in BOOLEAN /\ \A b \in Container \ {c} : Stores'[b] = Stores[b]
  BY <1>6
<1> QED
  BY <1>3, <1>4, <1>5, <1>6, <1>7, <1>10, <1>11, <1>12, AppliesIf

\* The end of the write.
LEMMA UnlockReturns ==
  ASSUME StoreInv, NEW p \in Command, UnlockConfig(p), pc[p] = "fwrite",
         NEW c \in Container, c = Cid(p)
  PROVE  Store!Return(p)
<1> TypeInv /\ p \in Actor /\ StepOf(p) /\ c \in Container
  BY Reads DEF StoreInv, LockInv, StepOf, CommandNext, WriteStep
<1>1. \A b \in Actor \ {p} : Kept(b)
  BY OthersKept
<1>2. /\ pc'[p] = "done" /\ UNCHANGED <<file, job, err>> /\ Cid(p)' = c
      /\ torn' = [torn EXCEPT ![c] = FALSE] /\ torn \in [Container -> BOOLEAN]
  BY Reads DEF UnlockConfig, Cid, TypeInv, TypeOK, FilesTypeOK
<1>3. Phases[p] = "written" /\ Phases' = [Phases EXCEPT ![p] = "done"]
  BY <1>1, <1>2, PhasesMove, ActorTypes DEF Phases, Phase, Kept
<1>4. Reports' = Reports
  <2>1. \A x \in Command : Reported(x)' = Reported(x)
    BY <1>1, <1>2, ActorTypes DEF Reported, Kept
  <2> QED
    BY <2>1 DEF Reports
<1>5. \A b \in Container : Spoilt(b)' <=> Spoilt(b)
  <2>1. \A b \in Actor \ {p} : pc'[b] = pc[b] /\ Cid(b)' = Cid(b)
    BY <1>1 DEF Kept, Cid, Actor
  <2>2. ~ Spoilt(c) /\ ~ Spoilt(c)'
    BY <1>2 DEF Spoilt
  <2>3. \A b \in Container \ {c} : Spoilt(b)' <=> Spoilt(b)
    BY <1>2, <2>1 DEF Spoilt
  <2> QED
    BY <2>2, <2>3
<1> QED
  BY <1>2, <1>3, <1>4, <1>5, StoresKept, OrdersKept, DamagedKept, OtherActions

\* A command that is killed while it writes.
LEMMA CrashDamages ==
  ASSUME StoreInv, NEW p \in Command, Crash(p), pc[p] = "fwrite",
         NEW c \in Container, c = Cid(p)
  PROVE  Store!Damage(p)
<1> TypeInv /\ p \in Actor /\ StepOf(p) /\ c \in Container /\ LocksHeld
  BY Reads DEF StoreInv, LockInv, StepOf
<1>1. \A b \in Actor \ {p} : Kept(b)
  BY OthersKept
<1>2. /\ pc'[p] = "done" /\ UNCHANGED <<file, torn, job>> /\ Cid(p)' = c /\ err'[p] = TRUE
      /\ torn[c]
  BY Reads DEF Crash, Fail, Cid, fileVars, StoreInv, ServedInv, CommandInv
<1>3. Phases[p] = "written" /\ Phases' = [Phases EXCEPT ![p] = "done"]
  BY <1>1, <1>2, PhasesMove, ActorTypes DEF Phases, Phase, Kept
<1>4. Reports' = [Reports EXCEPT ![p] = FALSE]
  <2>1. Reports' = [Reports EXCEPT ![p] = Reported(p)']
    BY <1>1, ReportsMove, ActorTypes DEF Kept
  <2>2. Reported(p)' = FALSE
    BY <1>2 DEF Reported
  <2> QED
    BY <2>1, <2>2
<1>5. Damaged' = [Damaged EXCEPT ![c] = TRUE]
  <2>1. \A b \in Actor \ {p} : pc'[b] = pc[b] /\ Cid(b)' = Cid(b)
    BY <1>1 DEF Kept, Cid, Actor
  <2>2. ASSUME NEW b \in Actor \ {p}, pc[b] = "fwrite" PROVE Cid(b) # c
    <3>1. b \in Command
      BY <2>2 DEF Actor, StoreInv, ServedInv, HooksDoNotWrite
    <3>2. flock[Cid(b)] = b /\ flock[c] = p
      BY <2>2, <3>1, Reads DEF LocksHeld, HoldsConfig
    <3> QED
      BY <3>2
  <2>3. Spoilt(c)'
    BY <1>2, <2>1, <2>2 DEF Spoilt
  <2>4. \A b \in Container \ {c} : Spoilt(b)' <=> Spoilt(b)
    BY <1>2, <2>1 DEF Spoilt
  <2>5. \A b \in Container : Spoilt(b) \in BOOLEAN /\ Spoilt(b)' \in BOOLEAN
    BY DEF Spoilt
  <2>6. \A b \in Container : Spoilt(b)' = IF b = c THEN TRUE ELSE Spoilt(b)
    BY <2>3, <2>4, <2>5
  <2> QED
    BY <2>6 DEF Damaged
<1>6. Orders[p].cid = c
  BY Reads DEF Orders
<1> QED
  BY <1>2, <1>3, <1>4, <1>5, <1>6, StoresKept, OrdersKept, OtherActions

\* Where a command goes that neither begins, nor ends, nor writes.
LEMMA MiddleStep ==
  ASSUME StoreInv, NEW p \in Command, CommandNext(p), ~ TruncateConfig(p), ~ UnlockConfig(p),
         GiveUp(p) => ~ ResolvePaths(p) /\ ~ LockAndLoad(p)
  PROVE  /\ Phase(pc[p]) = "pending" /\ Phase(pc'[p]) = "pending"
         /\ UNCHANGED <<file, torn, job>>
<1> TypeInv /\ pc \in [Actor -> CommandStep \cup HookStep]
  BY DEF StoreInv, LockInv, TypeInv, TypeOK, StepsTypeOK
<1>1. CASE ResolvePaths(p) \/ Inspect(p) \/ LockAndLoad(p) \/ LockUdev(p) \/ EachDone(p)
  BY <1>1, Reads DEF ResolvePaths, Inspect, LockAndLoad, LockUdev, EachDone, fileVars, Phase
<1>2. CASE AddStep(p)
  BY <1>2, Reads DEF AddStep, RefuseConflict, RefuseUnknown, RecordDevice, Mknod, MknodFails,
     Allow, AllowFails, RollBack, fileVars, Phase
<1>3. CASE RemoveStep(p)
  BY <1>3, Reads DEF RemoveStep, Unrecord, Unlink, UnlinkFails, Deny, DenyFails, ClearLimits,
     ClearFails, fileVars, Phase
<1>4. CASE LimitStep(p)
  BY <1>4, Reads DEF LimitStep, SetLimit, SetLimitFails, LimitsDone, AfterQuota, fileVars, Phase
<1>5. CASE TruncateRules(p) \/ UnlockUdev(p)
  BY <1>5, Reads DEF TruncateRules, UnlockUdev, AfterRules, fileVars, Phase
<1> QED
  BY <1>1, <1>2, <1>3, <1>4, <1>5 DEF CommandNext, WriteStep

\* ... and what it does is not seen.
LEMMA MiddleUnseen ==
  ASSUME StoreInv, NEW p \in Command, CommandNext(p), ~ GiveUp(p), ~ TruncateConfig(p),
         ~ UnlockConfig(p)
  PROVE  UNCHANGED Store!storeVars
<1> TypeInv /\ p \in Actor /\ StepOf(p)
  BY ActorTypes DEF StoreInv, LockInv, StepOf
<1>1. \A b \in Actor \ {p} : Kept(b)
  BY OthersKept
<1>2. Phase(pc[p]) = "pending" /\ Phase(pc'[p]) = "pending" /\ UNCHANGED <<file, torn, job>>
  BY MiddleStep
<1>3. pc[p] \notin {"idle", "done", "fwrite"} /\ pc'[p] \notin {"idle", "done", "fwrite"}
  BY <1>2 DEF Phase
<1>4. Phases' = Phases
  <2>1. \A x \in Command : Phase(pc'[x]) = Phase(pc[x])
    BY <1>1, <1>2, ActorTypes DEF Kept
  <2> QED
    BY <2>1 DEF Phases, Phase
<1>5. Reports' = Reports
  <2>1. \A x \in Command : Reported(x)' = Reported(x)
    BY <1>1, <1>3, ActorTypes DEF Reported, Kept
  <2> QED
    BY <2>1 DEF Reports
<1> QED
  BY <1>1, <1>2, <1>3, <1>4, <1>5, QuietStep, OrdersKept, NothingSeen

\* Nor is anything that a hook does.
LEMMA HooksUnseen ==
  ASSUME StoreInv, NEW c \in Container, StepOf(c)
  PROVE  UNCHANGED Store!storeVars
<1> TypeInv /\ c \in Actor /\ c \notin Command /\ StoreInv'
  BY ActorTypes, StepKeepsStore DEF StoreInv, LockInv
<1>1. \A b \in Actor \ {c} : Kept(b)
  BY OthersKept
<1>2. UNCHANGED <<file, torn>>
  <2>1. \A b \in Container : file'[b] = file[b] /\ torn'[b] = torn[b]
    BY FilesStay
  <2>2. /\ file \in [Container -> Config] /\ torn \in [Container -> BOOLEAN]
        /\ file' \in [Container -> Config] /\ torn' \in [Container -> BOOLEAN]
    BY DEF StoreInv, LockInv, TypeInv, TypeOK, FilesTypeOK
  <2> QED
    BY <2>1, <2>2
<1>3. UNCHANGED job
  BY StepMoves DEF OneMoves
<1>4. pc[c] # "fwrite" /\ pc'[c] # "fwrite"
  BY DEF StoreInv, ServedInv, HooksDoNotWrite
<1>5. Phases' = Phases
  <2>1. \A x \in Command : pc'[x] = pc[x]
    BY <1>1, ActorTypes DEF Kept
  <2> QED
    BY <2>1 DEF Phases, Phase
<1>6. Reports' = Reports
  <2>1. \A x \in Command : Reported(x)' = Reported(x)
    BY <1>1, ActorTypes DEF Reported, Kept
  <2> QED
    BY <2>1 DEF Reports
<1> QED
  BY <1>1, <1>2, <1>3, <1>4, <1>5, <1>6, QuietStep, OrdersKept, NothingSeen

\* Every step of a process is a step of DeviceStore, or is not seen there.
LEMMA StepImplements ==
  ASSUME StoreInv, NEW a \in Actor, StepOf(a)
  PROVE  [Store!StoreNext]_Store!storeVars
<1>1. ASSUME a \in Command, NEW r \in Requests, Begin(a, r) PROVE Store!StoreNext
  BY <1>1, BeginSubmits DEF Store!StoreNext
<1>2. ASSUME a \in Command, GiveUp(a), CommandNext(a) PROVE Store!StoreNext
  <2>1. /\ Phase(pc[a]) = "pending" /\ pc'[a] = "done" /\ err'[a] = TRUE
        /\ UNCHANGED <<file, torn, job>>
    <3>1. pc'[a] = "done" /\ err'[a] = TRUE /\ UNCHANGED <<file, torn, job>>
      BY <1>2, Reads DEF GiveUp, Fail, fileVars, StoreInv, LockInv
    <3>2. Phase(pc[a]) = "pending"
      <4>1. CASE UnlockConfig(a)
        <5>1. pc[a] # "fwrite"
          BY <1>2, <3>1, <4>1, Reads DEF UnlockConfig, StoreInv, LockInv, ServedInv, CommandInv,
             TypeInv, TypeOK, FilesTypeOK
        <5> QED
          BY <4>1, <5>1 DEF UnlockConfig, Phase
      <4>2. CASE TruncateConfig(a)
        BY <4>2 DEF TruncateConfig, Phase
      <4>3. CASE ResolvePaths(a) \/ Inspect(a) \/ LockAndLoad(a)
        BY <4>3 DEF ResolvePaths, Inspect, LockAndLoad, Phase
      <4>4. CASE ~ ResolvePaths(a) /\ ~ LockAndLoad(a) /\ ~ TruncateConfig(a) /\ ~ UnlockConfig(a)
        BY <1>2, <4>4, MiddleStep
      <4> QED
        BY <4>1, <4>2, <4>3, <4>4
    <3> QED
      BY <3>1, <3>2
  <2> QED
    BY <1>2, <2>1, Abandons DEF Store!StoreNext
<1>3. ASSUME a \in Command, Crash(a) PROVE Store!StoreNext
  <2>1. CASE pc[a] = "fwrite"
    BY <1>3, <2>1, CrashDamages, Reads DEF StoreInv, LockInv, Store!StoreNext
  <2>2. CASE pc[a] # "fwrite"
    <3>1. /\ Phase(pc[a]) = "pending" /\ pc'[a] = "done" /\ err'[a] = TRUE
          /\ UNCHANGED <<file, torn, job>>
      BY <1>3, <2>2, Reads DEF Crash, Fail, fileVars, Phase, StoreInv, LockInv
    <3> QED
      BY <1>3, <3>1, Abandons DEF Store!StoreNext
  <2> QED
    BY <2>1, <2>2
<1>4. ASSUME a \in Command, TruncateConfig(a) PROVE Store!StoreNext
  BY <1>4, TruncateApplies, Reads DEF StoreInv, LockInv, Store!StoreNext
<1>5. ASSUME a \in Command, UnlockConfig(a) PROVE Store!StoreNext
  BY <1>5, UnchangedApplies, UnlockReturns, Reads DEF StoreInv, LockInv, Store!StoreNext, UnlockConfig
<1> QED
  BY <1>1, <1>2, <1>3, <1>4, <1>5, MiddleUnseen, HooksUnseen DEF StepOf, Actor

\* add-device, remove-device and update-device are the atomic commands of
\* DeviceStore while no host device comes back under another number: whatever
\* call fails and is rolled back, whatever container starts or stops meanwhile,
\* and whoever is killed, a configuration changes at once, by what was asked for
\* only, no command undoes another's change, success means that it was done, and
\* no hook changes a mapping.
THEOREM StoreImplemented ==
  ASSUME MaxPlugs = 0
  PROVE  Spec => StoreRefined
<1>1. Init => Store!StoreInit
  <2> SUFFICES ASSUME Init PROVE Store!StoreInit
    OBVIOUS
  <2>1. \A p \in Command : pc[p] = "idle" /\ job[p] = NoJob(CHOOSE c \in Container : TRUE)
    BY ActorTypes DEF Init
  <2>2. Stores = [c \in Container |-> {}]
    BY DEF Init, Stores, Pairs, EmptyConfig
  <2>3. Damaged = [c \in Container |-> FALSE]
    <3>1. \A c \in Container : Spoilt(c) = FALSE
      BY DEF Init, Spoilt
    <3> QED
      BY <3>1 DEF Damaged
  <2>4. Phases = [p \in Command |-> "idle"]
    BY <2>1 DEF Phases, Phase
  <2>5. Orders \in [Command -> Requests \cup {NoJob(CHOOSE c \in Container : TRUE).req}]
    BY <2>1 DEF Orders
  <2>6. Reports = [p \in Command |-> FALSE]
    <3>1. \A p \in Command : Reported(p) = FALSE
      BY <2>1 DEF Reported
    <3> QED
      BY <3>1 DEF Reports
  <2> QED
    BY <2>2, <2>3, <2>4, <2>5, <2>6 DEF Store!StoreInit, Phases, Phase, Stores, Pairs, Damaged,
       Spoilt, Orders, Reports, Reported
<1>2. StoreInv /\ [Next]_vars => [Store!StoreNext]_Store!storeVars
  <2>1. ASSUME StoreInv, Next PROVE [Store!StoreNext]_Store!storeVars
    BY <2>1, NothingPlugged, StepImplements DEF StoreInv, LockInv
  <2>2. ASSUME UNCHANGED vars PROVE UNCHANGED Store!storeVars
    BY <2>2 DEF vars, fileVars, procVars, Store!storeVars, Cid
  <2> QED
    BY <2>1, <2>2
<1> QED
  BY <1>1, <1>2, StoreInvCorrect, PTL DEF Spec, StoreRefined, Store!StoreSpec

-----------------------------------------------------------------------------
(***************************************************************************)
(* A container that has been running all the time                          *)
(***************************************************************************)
\* The circumstances of Agreement: the devices stay under numbers of their own
\* and are called by their own names, the containers run from the beginning,
\* and no command is told to leave the container alone.
Undisturbed ==
  /\ MaxPlugs = 0 /\ InitialState = {"running"}
  /\ \A r \in Requests : ~ r.cfgOnly
  /\ \A h \in HostDev : IsDisk(h) => BaseName[h] = h
  /\ \A g, h \in HostDev : InitialNumber[g] = InitialNumber[h] /\ InitialNumber[g] # 0 => g = h

\* Nobody has been killed.
NoCrash == crashes = 0

\* c has been running since the beginning.
Lively(c) == st[c] = "running" /\ inc[c] = 1

\* Whoever starts c again counts the start, and a command has read the pid of
\* the container it works for.
PidsInv ==
  /\ \A c \in Container : inc[c] >= 1 /\ (st[c] = "creating" => inc[c] >= 2)
  /\ \A p \in Command :
        pc[p] \notin {"idle", "done"} => /\ ~ job[p].req.cfgOnly
                                         /\ Lively(Cid(p)) => job[p].pid = 1

-----------------------------------------------------------------------------
(***************************************************************************)
(* What a container has and what is configured for it, at every step of a  *)
(* command that has its lock: l is where the command is, d is the device   *)
(* it has in hand, ds are the devices it has in memory, ns are the nodes   *)
(* of the container, al the numbers it is allowed, bs its limits, lf is    *)
(* what the calls that failed have left in it.                             *)
(***************************************************************************)
\* The container has the devices, but for the one that is being put into it.
HasDevices(l, d, ds, ns, al) ==
  /\ \A e \in ds : /\ ~ (l = "mknod" /\ e = d) => ns[e.path] = e.num
                   /\ ~ (l \in {"mknod", "allow"} /\ e = d) => e.num \in al
  /\ l = "unlink" => ns[d.path] = d.num
  /\ l \in {"unlink", "deny"} => d.num \in al

\* What is being taken out is not configured any more, and neither is anything
\* with one of its names.
TakenOut(l, d, ds) == l \in {"unlink", "deny", "clear"} => \A e \in ds : ~ Clash(e, d)

\* It has no other node, but for those that were left.
NoStrayNode(l, d, ds, ns, lf) ==
  \A q \in DevPath : ns[q] \notin {0, ImageNode[q]} =>
    \/ q \in lf.nodes
    \/ l = "unlink" /\ q = d.path
    \/ \E e \in ds : e.path = q /\ ~ (l = "mknod" /\ e = d)

\* It is allowed no other number, but for those that could not be denied.
AllowedTold(l, d, ds, al, lf) ==
  /\ lf.perms \subseteq al
  /\ \A n \in al : \/ n \in lf.perms
                   \/ l \in {"unlink", "deny"} /\ n = d.num
                   \/ \E e \in ds : e.num = n /\ ~ (l \in {"mknod", "allow"} /\ e = d)

\* Its limits, one per number, are the ones in force, and those that could not
\* be cleared.
Throttles(limits) == {Throttle(q) : q \in limits}

LimitsTold(limits, bs, lf) ==
  /\ \A q, r \in limits : q.num = r.num => q = r
  /\ bs = Throttles(limits) \cup lf.limits

\* The limits are for its devices, but for the loose ones.
LooseTold(l, d, ds, limits, lf) ==
  \A q \in limits :
    \/ q.num \in lf.perms \cup lf.loose
    \/ l \in {"unlink", "deny", "clear"} /\ q.num = d.num
    \/ \E e \in ds : e.num = q.num /\ ~ (l \in {"mknod", "allow"} /\ e = d)

\* The rules rs of c are those of its disks, but for those that were lost.
RulesTold(c, ds, rs, lf) ==
  {r \in rs : r.cid = c} = {RuleOf(e, c) : e \in {e \in ds : IsDisk(e.host)}} \ lf.rules

Story(c, l, d, config, rs, ns, al, bs, lf) ==
  /\ HasDevices(l, d, config.devices, ns, al)
  /\ TakenOut(l, d, config.devices)
  /\ NoStrayNode(l, d, config.devices, ns, lf)
  /\ AllowedTold(l, d, config.devices, al, lf)
  /\ LimitsTold(config.qos, bs, lf)
  /\ LooseTold(l, d, config.devices, config.qos, lf)
  /\ RulesTold(c, config.devices, rs, lf)

\* What p has in memory is what is on the disk, unless p is to write it.
RulesInHand(p) == IF HoldsRules(p) THEN rcopy[p] ELSE rules

Copied(p) ==
  /\ HoldsRules(p) /\ ~ rdirty[p] => rcopy[p] = rules
  /\ pc[p] = "rwrite" => rules = Saved(rcopy[p])
  /\ ~ dirty[p] \/ pc[p] = "fwrite" => cfg[p] = file[Cid(p)]

\* RemoveDevice goes through devices that are configured.
Listed(p) ==
  Op(p) = "remove" /\ pc[p] \in {"each", "unlink", "deny", "clear"} =>
    todo[p] \subseteq cfg[p].devices

\* Between the commands the file tells the story, and meanwhile the memory of
\* the command that has the lock.
Told(c) ==
  /\ flock[c] = NoOne =>
       Story(c, "idle", NoDevice, file[c], rules, nodes[c], allowed[c], blkio[c], left[c])
  /\ \A p \in Command : flock[c] = p =>
       /\ Story(c, pc[p], cur[p], cfg[p], RulesInHand(p), nodes[c], allowed[c], blkio[c], left[c])
       /\ Copied(p) /\ Listed(p)

AgreeInv == NoCrash => \A c \in Container : Lively(c) => Told(c)

-----------------------------------------------------------------------------
(***************************************************************************)
(* How the calls into the kernel and the operations of the configuration   *)
(* keep the story                                                          *)
(***************************************************************************)
\* Nothing is put into the container or taken out of it.
LEMMA StoryStays ==
  ASSUME NEW c, NEW l, NEW m, NEW d, NEW e, NEW config, NEW rs, NEW ns, NEW al, NEW bs, NEW lf,
         l \notin Handling, m \notin Handling,
         Story(c, l, d, config, rs, ns, al, bs, lf)
  PROVE  Story(c, m, e, config, rs, ns, al, bs, lf)
  BY DEF Story, HasDevices, TakenOut, NoStrayNode, AllowedTold, LooseTold, Handling

\* The rule of a disk comes and goes with its mapping.
LEMMA RuleComes ==
  ASSUME NEW c \in Container, NEW ds, NEW rs, NEW d, NEW lf, NEW lg,
         lg.rules = lf.rules \ {RuleOf(d, c)}, RulesTold(c, ds, rs, lf)
  PROVE  RulesTold(c, ds \cup {d}, IF IsDisk(d.host) THEN rs \cup {RuleOf(d, c)} ELSE rs, lg)
<1> DEFINE disks == {RuleOf(e, c) : e \in {e \in ds : IsDisk(e.host)}}
           all == {RuleOf(e, c) : e \in {e \in ds \cup {d} : IsDisk(e.host)}}
<1>1. RuleOf(d, c).cid = c /\ {r \in rs : r.cid = c} = disks \ lf.rules
  BY DEF RuleOf, RulesTold
<1>2. CASE IsDisk(d.host)
  <2>1. all = disks \cup {RuleOf(d, c)}
    BY <1>2
  <2> HIDE DEF disks, all
  <2>2. {r \in rs \cup {RuleOf(d, c)} : r.cid = c} = all \ lg.rules
    BY <1>1, <2>1
  <2> QED
    BY <1>2, <2>2 DEF RulesTold, all
<1>3. CASE ~ IsDisk(d.host)
  <2>1. all = disks
    BY <1>3
  <2>2. RuleOf(d, c) \notin disks
    BY <1>3 DEF RuleOf
  <2> HIDE DEF disks, all
  <2>3. {r \in rs : r.cid = c} = all \ lg.rules
    BY <1>1, <2>1, <2>2
  <2> QED
    BY <1>3, <2>3 DEF RulesTold, all
<1> QED
  BY <1>2, <1>3

LEMMA RuleGoes ==
  ASSUME NEW c \in Container, NEW ds, NEW rs, NEW d \in Mapping, ds \in SUBSET Mapping,
         NEW lf, NEW lg, lg.rules = lf.rules, RulesTold(c, ds, rs, lf)
  PROVE  RulesTold(c, {e \in ds : ~ Matches(e, d)}, rs \ {RuleOf(d, c)}, lg)
<1>1. d.host # Unset /\ d.path # Unset
  BY NamesAssumption DEF Mapping
<1>2. \A e \in ds : Matches(e, d) <=> e.host = d.host /\ e.path = d.path
  BY <1>1 DEF Matches
<1>3. \A e \in ds : RuleOf(e, c) = RuleOf(d, c) <=> e.host = d.host /\ e.path = d.path
  BY DEF RuleOf
<1> DEFINE disks == {RuleOf(e, c) : e \in {e \in ds : IsDisk(e.host)}}
           rest == {RuleOf(e, c) : e \in {e \in {e \in ds : ~ Matches(e, d)} : IsDisk(e.host)}}
<1>4. rest = disks \ {RuleOf(d, c)}
  BY <1>2, <1>3
<1>5. {r \in rs : r.cid = c} = disks \ lf.rules
  BY DEF RulesTold
<1> HIDE DEF disks, rest
<1>6. {r \in rs \ {RuleOf(d, c)} : r.cid = c} = rest \ lg.rules
  BY <1>4, <1>5
<1> QED
  BY <1>6 DEF RulesTold, rest

\* AddDevice records a device of which neither name is taken.
LEMMA StoryRecords ==
  ASSUME NEW c \in Container, NEW d \in Mapping, NEW x, NEW config \in Config, NEW rs, NEW ns,
         NEW al, NEW bs, NEW lf, NEW lg, ~ Conflicts(config, d),
         lg.nodes = lf.nodes, lg.perms = lf.perms, lg.limits = lf.limits, lg.loose = lf.loose,
         lg.rules = lf.rules \ {RuleOf(d, c)},
         Story(c, "each", x, config, rs, ns, al, bs, lf)
  PROVE  Story(c, "mknod", d, WithDevice(config, d),
               IF IsDisk(d.host) THEN rs \cup {RuleOf(d, c)} ELSE rs, ns, al, bs, lg)
<1>1. /\ WithDevice(config, d).devices = config.devices \cup {d}
      /\ WithDevice(config, d).qos = config.qos
  BY DEF WithDevice, Config
<1>2. \A e \in config.devices : e.path # d.path /\ e # d
  BY DEF Conflicts, Clash
<1>3. HasDevices("mknod", d, config.devices \cup {d}, ns, al)
  BY DEF Story, HasDevices
<1>4. NoStrayNode("mknod", d, config.devices \cup {d}, ns, lg)
  BY <1>2 DEF Story, NoStrayNode
<1>5. RulesTold(c, config.devices \cup {d},
                IF IsDisk(d.host) THEN rs \cup {RuleOf(d, c)} ELSE rs, lg)
  BY RuleComes DEF Story
<1>6. AllowedTold("mknod", d, config.devices \cup {d}, al, lg)
  BY <1>2 DEF Story, AllowedTold
<1>7. LimitsTold(config.qos, bs, lg) /\ LooseTold("mknod", d, config.devices \cup {d}, config.qos, lg)
  BY <1>2 DEF Story, LimitsTold, LooseTold
<1> QED
  BY <1>1, <1>3, <1>4, <1>5, <1>6, <1>7 DEF Story, TakenOut

\* doAddDevice makes the node of the device.
LEMMA StoryMakes ==
  ASSUME NEW c \in Container, NEW d \in Mapping, NEW config \in Config, NEW rs,
         NEW ns \in [DevPath -> Nat], NEW al, NEW bs, NEW lf, NEW lg,
         lg.nodes = lf.nodes \ {d.path}, lg.perms = lf.perms, lg.limits = lf.limits,
         lg.loose = lf.loose, lg.rules = lf.rules,
         d \in config.devices, OneToOne(config),
         Story(c, "mknod", d, config, rs, ns, al, bs, lf)
  PROVE  Story(c, "allow", d, config, rs, [ns EXCEPT ![d.path] = d.num], al, bs, lg)
<1> DEFINE new == [ns EXCEPT ![d.path] = d.num]
<1>1. /\ d.path \in DevPath /\ new[d.path] = d.num
      /\ \A q \in DevPath : q # d.path => new[q] = ns[q]
  BY DEF Mapping
<1>2. \A e \in config.devices : e.path \in DevPath /\ (e # d => e.path # d.path)
  BY DEF OneToOne, Clash, Config, Mapping
<1> HIDE DEF new
<1>3. HasDevices("allow", d, config.devices, new, al)
  BY <1>1, <1>2 DEF Story, HasDevices
<1>4. NoStrayNode("allow", d, config.devices, new, lg)
  BY <1>1, <1>2 DEF Story, NoStrayNode
<1>5. AllowedTold("allow", d, config.devices, al, lg)
  BY DEF Story, AllowedTold
<1>6. /\ LimitsTold(config.qos, bs, lg) /\ LooseTold("allow", d, config.devices, config.qos, lg)
      /\ RulesTold(c, config.devices, rs, lg)
  BY DEF Story, LimitsTold, LooseTold, RulesTold
<1>7. Story(c, "allow", d, config, rs, new, al, bs, lg)
  BY <1>3, <1>4, <1>5, <1>6 DEF Story, TakenOut
<1> QED
  BY <1>7 DEF new

\* UpdateCgroupPermission gives it to the container.
LEMMA StoryAllows ==
  ASSUME NEW c, NEW d, NEW x, NEW config, NEW rs, NEW ns, NEW al, NEW bs, NEW lf, NEW lg,
         lg.nodes = lf.nodes, lg.perms = lf.perms \ {d.num}, lg.limits = lf.limits,
         lg.loose = lf.loose \ {d.num}, lg.rules = lf.rules, d \in config.devices,
         Story(c, "allow", d, config, rs, ns, al, bs, lf)
  PROVE  Story(c, "each", x, config, rs, ns, al \cup {d.num}, bs, lg)
<1>1. HasDevices("each", x, config.devices, ns, al \cup {d.num})
  BY DEF Story, HasDevices
<1>2. NoStrayNode("each", x, config.devices, ns, lg)
  BY DEF Story, NoStrayNode
<1>3. AllowedTold("each", x, config.devices, al \cup {d.num}, lg)
  BY DEF Story, AllowedTold
<1>4. LooseTold("each", x, config.devices, config.qos, lg)
  BY DEF Story, LooseTold
<1>5. LimitsTold(config.qos, bs, lg) /\ RulesTold(c, config.devices, rs, lg)
  BY DEF Story, LimitsTold, RulesTold
<1> QED
  BY <1>1, <1>2, <1>3, <1>4, <1>5 DEF Story, TakenOut

\* Whatever a failing call has left at the path, the roll back ends with a
\* configuration that does not mention it.
LEMMA StoryRollsBack ==
  ASSUME NEW c \in Container, NEW l \in {"mknod", "allow"}, NEW d \in Mapping, NEW x,
         NEW config \in Config, NEW rs, NEW ns, NEW new, NEW al, NEW bs, NEW lf, NEW lg,
         d \in config.devices, OneToOne(config),
         \A q \in DevPath \ {d.path} : new[q] = ns[q] /\ (q \in lf.nodes => q \in lg.nodes),
         \/ new[d.path] = 0
         \/ d.path \in lg.nodes
         \/ l = "mknod" /\ new = ns /\ lg.nodes = lf.nodes,
         lg.perms = lf.perms, lg.limits = lf.limits, lg.loose = lf.loose, lg.rules = lf.rules,
         Story(c, l, d, config, rs, ns, al, bs, lf)
  PROVE  Story(c, "each", x, WithoutDevice(config, d), rs \ {RuleOf(d, c)}, new, al, bs, lg)
<1> DEFINE es == {e \in config.devices : ~ Matches(e, d)}
<1>1. WithoutDevice(config, d).devices = es /\ WithoutDevice(config, d).qos = config.qos
  BY DEF WithoutDevice, Config
<1>2. \A e \in config.devices : e.path \in DevPath /\ (e # d => e.path # d.path)
  BY DEF OneToOne, Clash, Config, Mapping
<1>3. Matches(d, d)
  BY DEF Matches
<1>4. \A e \in config.devices : e # d => ~ Matches(e, d)
  BY <1>2, NamesAssumption DEF Matches, Mapping, OneToOne, Clash
<1>5. \A e : e \in es <=> e \in config.devices /\ e # d
  BY <1>3, <1>4
<1>6. RulesTold(c, es, rs \ {RuleOf(d, c)}, lg)
  BY RuleGoes DEF Story, Config
<1> HIDE DEF es
<1>7. HasDevices("each", x, es, new, al)
  BY <1>2, <1>5 DEF Story, HasDevices
<1>8. NoStrayNode("each", x, es, new, lg)
  BY <1>5 DEF Story, NoStrayNode
<1>9. AllowedTold("each", x, es, al, lg) /\ LooseTold("each", x, es, config.qos, lg)
  BY <1>5 DEF Story, AllowedTold, LooseTold
<1>10. LimitsTold(config.qos, bs, lg)
  BY DEF Story, LimitsTold
<1> QED
  BY <1>1, <1>6, <1>7, <1>8, <1>9, <1>10 DEF Story, TakenOut

\* RemoveDevice takes the mapping and the rule out first.
LEMMA StoryUnrecords ==
  ASSUME NEW c \in Container, NEW d \in Mapping, NEW x, NEW config \in Config, NEW rs, NEW ns,
         NEW al, NEW bs, NEW lf, d \in config.devices, OneToOne(config),
         Story(c, "each", x, config, rs, ns, al, bs, lf)
  PROVE  Story(c, "unlink", d, WithoutDevice(config, d), rs \ {RuleOf(d, c)}, ns, al, bs, lf)
<1> DEFINE es == {e \in config.devices : ~ Matches(e, d)}
<1>1. WithoutDevice(config, d).devices = es /\ WithoutDevice(config, d).qos = config.qos
  BY DEF WithoutDevice, Config
<1>2. \A e \in config.devices : e # d => ~ Clash(e, d)
  BY DEF OneToOne
<1>3. Matches(d, d)
  BY DEF Matches
<1>4. \A e \in config.devices : e # d => ~ Matches(e, d)
  BY <1>2, NamesAssumption DEF Matches, Mapping, Clash
<1>5. \A e : e \in es <=> e \in config.devices /\ e # d
  BY <1>3, <1>4
<1>6. RulesTold(c, es, rs \ {RuleOf(d, c)}, lf)
  BY RuleGoes DEF Story, Config
<1> HIDE DEF es
<1>7. HasDevices("unlink", d, es, ns, al) /\ TakenOut("unlink", d, es)
  BY <1>2, <1>5 DEF Story, HasDevices, TakenOut
<1>8. NoStrayNode("unlink", d, es, ns, lf)
  BY <1>5 DEF Story, NoStrayNode
<1>9. AllowedTold("unlink", d, es, al, lf) /\ LooseTold("unlink", d, es, config.qos, lf)
  BY <1>5 DEF Story, AllowedTold, LooseTold
<1> QED
  BY <1>1, <1>6, <1>7, <1>8, <1>9 DEF Story

\* doRemoveDevice removes the node.
LEMMA StoryUnlinks ==
  ASSUME NEW c \in Container, NEW d \in Mapping, NEW config \in Config, NEW rs,
         NEW ns \in [DevPath -> Nat], NEW al, NEW bs, NEW lf, NEW lg,
         lg.nodes = lf.nodes \ {d.path}, lg.perms = lf.perms, lg.limits = lf.limits,
         lg.loose = lf.loose, lg.rules = lf.rules,
         Story(c, "unlink", d, config, rs, ns, al, bs, lf)
  PROVE  Story(c, "deny", d, config, rs, [ns EXCEPT ![d.path] = 0], al, bs, lg)
<1> DEFINE new == [ns EXCEPT ![d.path] = 0]
<1>1. /\ d.path \in DevPath /\ new[d.path] = 0
      /\ \A q \in DevPath : q # d.path => new[q] = ns[q]
  BY DEF Mapping
<1>2. \A e \in config.devices : e.path \in DevPath /\ ~ Clash(e, d) /\ e.path # d.path
  BY DEF Story, TakenOut, Clash, Config, Mapping
<1> HIDE DEF new
<1>3. HasDevices("deny", d, config.devices, new, al)
  BY <1>1, <1>2 DEF Story, HasDevices
<1>4. NoStrayNode("deny", d, config.devices, new, lg)
  BY <1>1, <1>2 DEF Story, NoStrayNode
<1>5. TakenOut("deny", d, config.devices)
  BY <1>2 DEF TakenOut
<1>6. AllowedTold("deny", d, config.devices, al, lg)
  BY DEF Story, AllowedTold
<1>7. /\ LimitsTold(config.qos, bs, lg) /\ LooseTold("deny", d, config.devices, config.qos, lg)
      /\ RulesTold(c, config.devices, rs, lg)
  BY DEF Story, LimitsTold, LooseTold, RulesTold
<1>8. Story(c, "deny", d, config, rs, new, al, bs, lg)
  BY <1>3, <1>4, <1>5, <1>6, <1>7 DEF Story
<1> QED
  BY <1>8 DEF new

\* ... or cannot, and the mapping is put back, with its rule or without.
LEMMA StoryPutsBack ==
  ASSUME NEW c \in Container, NEW d \in Mapping, NEW x, NEW config \in Config, NEW rs, NEW new,
         NEW ns, NEW al, NEW bs, NEW lf, NEW lg,
         \/ /\ new = IF IsDisk(d.host) THEN rs \cup {RuleOf(d, c)} ELSE rs
            /\ lg.rules = lf.rules \ {RuleOf(d, c)}
         \/ new = rs /\ lg.rules = lf.rules \cup {RuleOf(d, c)},
         lg.nodes = lf.nodes, lg.perms = lf.perms, lg.limits = lf.limits, lg.loose = lf.loose,
         Story(c, "unlink", d, config, rs, ns, al, bs, lf)
  PROVE  Story(c, "each", x, WithDevice(config, d), new, ns, al, bs, lg)
<1>1. ~ Conflicts(config, d) /\ \A e \in config.devices : ~ Clash(e, d)
  BY DEF Story, TakenOut, Conflicts
<1>2. /\ WithDevice(config, d).devices = config.devices \cup {d}
      /\ WithDevice(config, d).qos = config.qos
  BY <1>1 DEF WithDevice, Config
<1>3. HasDevices("each", x, config.devices \cup {d}, ns, al)
  BY DEF Story, HasDevices
<1>4. RulesTold(c, config.devices \cup {d}, new, lg)
  <2>1. CASE /\ new = IF IsDisk(d.host) THEN rs \cup {RuleOf(d, c)} ELSE rs
             /\ lg.rules = lf.rules \ {RuleOf(d, c)}
    BY <2>1, RuleComes DEF Story
  <2>2. CASE new = rs /\ lg.rules = lf.rules \cup {RuleOf(d, c)}
    <3> DEFINE disks == {RuleOf(e, c) : e \in {e \in config.devices : IsDisk(e.host)}}
               all == {RuleOf(e, c) : e \in {e \in config.devices \cup {d} : IsDisk(e.host)}}
    <3>1. {r \in rs : r.cid = c} = disks \ lf.rules
      BY DEF Story, RulesTold
    <3>2. RuleOf(d, c) \notin disks
      BY <1>1 DEF RuleOf, Clash
    <3>3. all \subseteq disks \cup {RuleOf(d, c)} /\ disks \subseteq all
      OBVIOUS
    <3> HIDE DEF disks, all
    <3>4. {r \in new : r.cid = c} = all \ lg.rules
      BY <2>2, <3>1, <3>2, <3>3
    <3> QED
      BY <3>4 DEF RulesTold, all
  <2> QED
    BY <2>1, <2>2
<1>5. NoStrayNode("each", x, config.devices \cup {d}, ns, lg)
  BY DEF Story, NoStrayNode
<1>6. AllowedTold("each", x, config.devices \cup {d}, al, lg)
  BY DEF Story, AllowedTold
<1>7. LimitsTold(config.qos, bs, lg) /\ LooseTold("each", x, config.devices \cup {d}, config.qos, lg)
  BY DEF Story, LimitsTold, LooseTold
<1> QED
  BY <1>2, <1>3, <1>4, <1>5, <1>6, <1>7 DEF Story, TakenOut

\* The number of a device that is not configured any more is no other's.
LEMMA StoryDenies ==
  ASSUME NEW c, NEW d, NEW config, NEW rs, NEW ns, NEW al, NEW bs, NEW lf, NEW lg,
         lg.nodes = lf.nodes, lg.perms = lf.perms \ {d.num}, lg.limits = lf.limits,
         lg.loose = lf.loose, lg.rules = lf.rules, \A e \in config.devices : e.num # d.num,
         Story(c, "deny", d, config, rs, ns, al, bs, lf)
  PROVE  Story(c, "clear", d, config, rs, ns, al \ {d.num}, bs, lg)
<1>1. HasDevices("clear", d, config.devices, ns, al \ {d.num})
  BY DEF Story, HasDevices
<1>2. NoStrayNode("clear", d, config.devices, ns, lg)
  BY DEF Story, NoStrayNode
<1>3. AllowedTold("clear", d, config.devices, al \ {d.num}, lg)
  BY DEF Story, AllowedTold
<1>4. LooseTold("clear", d, config.devices, config.qos, lg)
  BY DEF Story, LooseTold
<1>5. LimitsTold(config.qos, bs, lg) /\ RulesTold(c, config.devices, rs, lg)
  BY DEF Story, LimitsTold, RulesTold
<1> QED
  BY <1>1, <1>2, <1>3, <1>4, <1>5 DEF Story, TakenOut

\* ... or cannot be denied; then its limits are not looked at either.
LEMMA StoryRefused ==
  ASSUME NEW c, NEW d, NEW x, NEW config, NEW rs, NEW ns, NEW al, NEW bs, NEW lf, NEW lg,
         lg.nodes = lf.nodes, lg.perms = lf.perms \cup {d.num}, lg.limits = lf.limits,
         lg.loose = lf.loose, lg.rules = lf.rules,
         Story(c, "deny", d, config, rs, ns, al, bs, lf)
  PROVE  Story(c, "each", x, config, rs, ns, al, bs, lg)
<1>1. HasDevices("each", x, config.devices, ns, al) /\ d.num \in al
  BY DEF Story, HasDevices
<1>2. NoStrayNode("each", x, config.devices, ns, lg)
  BY DEF Story, NoStrayNode
<1>3. AllowedTold("each", x, config.devices, al, lg)
  BY <1>1 DEF Story, AllowedTold
<1>4. LooseTold("each", x, config.devices, config.qos, lg)
  BY DEF Story, LooseTold
<1>5. LimitsTold(config.qos, bs, lg) /\ RulesTold(c, config.devices, rs, lg)
  BY DEF Story, LimitsTold, RulesTold
<1> QED
  BY <1>1, <1>2, <1>3, <1>4, <1>5 DEF Story, TakenOut

\* A device that has no limit is done with,
LEMMA StoryUnlimited ==
  ASSUME NEW c, NEW d, NEW x, NEW config, NEW rs, NEW ns, NEW al, NEW bs, NEW lf,
         \A q \in config.qos : q.num # d.num,
         Story(c, "clear", d, config, rs, ns, al, bs, lf)
  PROVE  Story(c, "each", x, config, rs, ns, al, bs, lf)
  BY DEF Story, HasDevices, TakenOut, NoStrayNode, AllowedTold, LooseTold

\* and one that has is when the limit is taken out of the configuration,
\* whatever that leaves in the cgroup.
LEMMA StoryClears ==
  ASSUME NEW c, NEW d, NEW x, NEW config \in Config, NEW rs, NEW ns, NEW al, NEW bs, NEW new,
         NEW lf, NEW lg, NEW q \in config.qos, q.num = d.num,
         new = Throttles(config.qos \ {q}) \cup lg.limits,
         lg.nodes = lf.nodes, lg.perms = lf.perms, lg.loose = lf.loose \ {q.num},
         lg.rules = lf.rules,
         Story(c, "clear", d, config, rs, ns, al, bs, lf)
  PROVE  Story(c, "each", x, WithoutLimits(config, {q}), rs, ns, al, new, lg)
<1>1. /\ WithoutLimits(config, {q}).devices = config.devices
      /\ WithoutLimits(config, {q}).qos = config.qos \ {q}
  BY DEF WithoutLimits, Config
<1>2. \A r, s \in config.qos : r.num = s.num => r = s
  BY DEF Story, LimitsTold
<1>3. LimitsTold(config.qos \ {q}, new, lg)
  BY <1>2 DEF LimitsTold
<1>4. LooseTold("each", x, config.devices, config.qos \ {q}, lg)
  <2>1. \A r \in config.qos \ {q} : r.num # d.num
    BY <1>2
  <2> QED
    BY <2>1 DEF Story, LooseTold
<1>5. HasDevices("each", x, config.devices, ns, al) /\ NoStrayNode("each", x, config.devices, ns, lg)
  BY DEF Story, HasDevices, NoStrayNode
<1>6. AllowedTold("each", x, config.devices, al, lg) /\ RulesTold(c, config.devices, rs, lg)
  BY DEF Story, AllowedTold, RulesTold
<1> QED
  BY <1>1, <1>3, <1>4, <1>5, <1>6 DEF Story, TakenOut

\* The write to the cgroup takes the number of a limit out, and no other's,
LEMMA ThrottleCleared ==
  ASSUME NEW limits, NEW q \in limits, \A r \in limits : r.num = q.num => r = q
  PROVE  {b \in Throttles(limits) : b.num # q.num} = Throttles(limits \ {q})
<1>1. \A r \in limits : Throttle(r).num = r.num
  BY DEF Throttle
<1> QED
  BY <1>1 DEF Throttles

\* and when it fails, what is in the cgroup for the number is what is left.
LEMMA ThrottleKept ==
  ASSUME NEW limits, NEW bs, NEW lf, NEW q \in limits, LimitsTold(limits, bs, lf),
         NEW ls, \A b : b \in ls <=> b \in lf.limits \/ (b \in bs /\ b.num = q.num)
  PROVE  bs = Throttles(limits \ {q}) \cup ls
<1>1. bs = Throttles(limits) \cup lf.limits /\ Throttle(q).num = q.num
  BY DEF LimitsTold, Throttle
<1>2. Throttles(limits) = Throttles(limits \ {q}) \cup {Throttle(q)}
  BY DEF Throttles
<1> QED
  BY <1>1, <1>2

\* UpdateDeviceQos, keyed by the number like the cgroup.
LEMMA StoryLimits ==
  ASSUME NEW c, NEW x, NEW config \in Config, NEW rs, NEW ns, NEW al, NEW bs, NEW lf, NEW lg,
         NEW q \in Qos,
         lg.nodes = lf.nodes, lg.perms = lf.perms, lg.rules = lf.rules,
         lg.limits = {b \in lf.limits : b.num # q.num},
         lf.loose \subseteq lg.loose, q.num \in lg.loose \/ \E e \in config.devices : e.num = q.num,
         Story(c, "quota", x, config, rs, ns, al, bs, lf)
  PROVE  Story(c, "quota", x, WithLimit(config, q), rs, ns, al,
               {b \in bs : b.num # q.num} \cup {Throttle(q)}, lg)
<1> DEFINE same == {e \in config.qos : e.num = q.num}
           e == CHOOSE e \in same : TRUE
           rest == {r \in config.qos : r.num # q.num}
           new == {b \in bs : b.num # q.num} \cup {Throttle(q)}
<1>1. config.qos \subseteq Qos /\ WithLimit(config, q).devices = config.devices
  BY DEF WithLimit, Config
<1>2. /\ \A r, s \in config.qos : r.num = s.num => r = s
      /\ bs = Throttles(config.qos) \cup lf.limits
  BY DEF Story, LimitsTold
<1>3. PICK r \in Qos : /\ r.num = q.num /\ r.val = q.val
                       /\ WithLimit(config, q).qos = rest \cup {r}
  <2>1. CASE same = {}
    <3>1. WithLimit(config, q).qos = config.qos \cup {q} /\ rest = config.qos
      BY <2>1 DEF WithLimit, Config
    <3> QED
      BY <3>1
  <2>2. CASE same # {}
    <3>1. e \in config.qos /\ e.num = q.num
      BY <2>2
    <3>2. WithLimit(config, q).qos = (config.qos \ {e}) \cup {[e EXCEPT !.val = q.val]}
      BY <2>2 DEF WithLimit, Config
    <3>3. /\ [e EXCEPT !.val = q.val] \in Qos
          /\ [e EXCEPT !.val = q.val].num = q.num /\ [e EXCEPT !.val = q.val].val = q.val
      BY <1>1, <3>1 DEF Qos
    <3>4. config.qos \ {e} = rest
      BY <1>2, <3>1
    <3> QED
      BY <3>2, <3>3, <3>4
  <2> QED
    BY <2>1, <2>2
<1>4. LimitsTold(rest \cup {r}, new, lg)
  <2>1. \A s, t \in rest \cup {r} : s.num = t.num => s = t
    BY <1>2, <1>3
  <2>2. Throttle(r) = Throttle(q)
    BY <1>3 DEF Throttle
  <2>3. {b \in Throttles(config.qos) : b.num # q.num} = Throttles(rest)
    BY DEF Throttles, Throttle
  <2>4. Throttles(rest \cup {r}) = Throttles(rest) \cup {Throttle(q)}
    BY <2>2 DEF Throttles
  <2>5. new = Throttles(rest \cup {r}) \cup lg.limits
    <3> HIDE DEF rest
    <3> QED
      BY <1>2, <2>3, <2>4
  <2> QED
    BY <2>1, <2>5 DEF LimitsTold
<1>5. LooseTold("quota", x, config.devices, rest \cup {r}, lg)
  BY <1>3 DEF Story, LooseTold
<1>6. HasDevices("quota", x, config.devices, ns, al) /\ NoStrayNode("quota", x, config.devices, ns, lg)
  BY DEF Story, HasDevices, NoStrayNode
<1>7. AllowedTold("quota", x, config.devices, al, lg) /\ RulesTold(c, config.devices, rs, lg)
  BY DEF Story, AllowedTold, RulesTold
<1> QED
  BY <1>1, <1>3, <1>4, <1>5, <1>6, <1>7 DEF Story, TakenOut

\* What is saved is what was in memory, when the disks go by their own names.
LEMMA StorySaves ==
  ASSUME NEW c \in Container, NEW l, NEW d, NEW config \in Config, NEW rs \in SUBSET Rule, NEW ns,
         NEW al, NEW bs, NEW lf, \A h \in HostDev : IsDisk(h) => BaseName[h] = h,
         Story(c, l, d, config, rs, ns, al, bs, lf)
  PROVE  Story(c, l, d, config, Saved(rs), ns, al, bs, lf)
<1> DEFINE mine == {RuleOf(e, c) : e \in {e \in config.devices : IsDisk(e.host)}} \ lf.rules
<1>1. {r \in rs : r.cid = c} = mine
  BY DEF Story, RulesTold
<1>2. ASSUME NEW r \in mine PROVE BaseName[r.name] = r.name
  <2>1. PICK e \in config.devices : IsDisk(e.host) /\ r = RuleOf(e, c)
    OBVIOUS
  <2>2. e.host \in HostDev /\ r.name = e.host
    BY <2>1 DEF RuleOf, Config, Mapping
  <2> QED
    BY <2>1, <2>2
<1> HIDE DEF mine
<1> DEFINE based(r) == [r EXCEPT !.name = BaseName[r.name]]
<1>3. \A r \in rs : /\ based(r).cid = r.cid
                    /\ BaseName[r.name] = r.name => based(r) = r
  BY DEF Rule
<1>4. {r \in Saved(rs) : r.cid = c} = mine
  <2>1. Saved(rs) = {based(r) : r \in rs}
    BY DEF Saved
  <2> HIDE DEF based
  <2> QED
    BY <1>1, <1>2, <1>3, <2>1
<1> QED
  BY <1>1, <1>4 DEF Story, RulesTold, mine

-----------------------------------------------------------------------------
(***************************************************************************)
(* Where the story is not told by the step                                 *)
(***************************************************************************)
\* Somebody who is killed is counted.
LEMMA NoCrashBefore ==
  ASSUME TypeInv, NEW a \in Actor, StepOf(a), NoCrash'
  PROVE  NoCrash /\ ~ Crash(a) /\ crashes' = crashes
<1>1. crashes \in Nat
  BY DEF TypeInv, TypeOK, EnvironmentTypeOK
<1>2. ~ Crash(a)
  BY <1>1 DEF Crash, NoCrash
<1>3. crashes' = crashes
  <2>1. CASE a \in Command /\ (AddStep(a) \/ RemoveStep(a) \/ LimitStep(a))
    BY <2>1
    DEF AddStep, RemoveStep, LimitStep, RefuseConflict, RefuseUnknown, RecordDevice, Mknod,
        MknodFails, Allow, AllowFails, Unrecord, Unlink, UnlinkFails, Deny, DenyFails, ClearLimits,
        ClearFails, SetLimit, SetLimitFails, LimitsDone, envVars
  <2>2. CASE a \in Command /\ ~ (AddStep(a) \/ RemoveStep(a) \/ LimitStep(a))
    BY <1>2, <2>2, ActorTypes
    DEF StepOf, CommandNext, ResolvePaths, Inspect, LockAndLoad, LockUdev, GiveUp, EachDone,
        WriteStep, TruncateRules, UnlockUdev, TruncateConfig, UnlockConfig, Begin, envVars
  <2>3. CASE a \in Container
    BY <1>2, <2>3, ActorTypes
    DEF StepOf, HookNext, ReadConfig, PrepareFails, HookLockUdev, Install, InstallFails,
        WithdrawRule, WithdrawFails, HookDevicesDone, HookLimits, HookLimitsFail, HookLock,
        AbortStart, HookReturns, WriteStep, TruncateRules, UnlockUdev, TruncateConfig,
        UnlockConfig, StartContainer, StopContainer, envVars
  <2> QED
    BY <2>1, <2>2, <2>3 DEF Actor
<1> QED
  BY <1>2, <1>3 DEF NoCrash

\* A container that has been running all the time did so before; iSulad has not
\* touched it.
LEMMA LivelyBefore ==
  ASSUME LockInv, PidsInv, NEW a \in Actor, StepOf(a), NEW c \in Container, Lively(c)'
  PROVE  Lively(c) /\ a # c /\ pc[c] = "idle"
<1>1. /\ st \in [Container -> {"stopped", "creating", "running", "stopping"}]
      /\ inc \in [Container -> Nat] /\ TypeInv
      /\ pc[c] = "idle" <=> st[c] \in {"stopped", "running"}
      /\ c \in Actor /\ c \notin Command
      /\ inc[c] >= 1 /\ (st[c] = "creating" => inc[c] >= 2)
  BY ActorTypes DEF LockInv, HookBusy, PidsInv, TypeInv, TypeOK, ContainersTypeOK
<1>2. CASE a # c
  BY <1>1, <1>2, LivesStay DEF Lively
<1>3. CASE a = c
  <2>1. CASE StartContainer(c) \/ StopContainer(c) \/ AbortStart(c) \/ HookReturns(c)
    BY <1>1, <2>1 DEF StartContainer, StopContainer, AbortStart, HookReturns, Lively
  <2>2. CASE ~ (StartContainer(c) \/ StopContainer(c) \/ AbortStart(c) \/ HookReturns(c))
    <3>1. UNCHANGED <<st, inc>> /\ pc[c] # "idle"
      BY <1>1, <1>3, <2>2
      DEF StepOf, HookNext, ReadConfig, PrepareFails, HookLockUdev, Install, InstallFails,
          WithdrawRule, WithdrawFails, HookDevicesDone, HookLimits, HookLimitsFail, HookLock,
          WriteStep, TruncateRules, UnlockUdev, TruncateConfig, UnlockConfig, Crash, ctrVars
    <3> QED
      BY <1>1, <3>1 DEF Lively
  <2> QED
    BY <2>1, <2>2
<1> QED
  BY <1>2, <1>3

\* A command reads the pid when it begins; a container that runs was given its
\* number when it was started.
LEMMA PidsKept ==
  ASSUME Undisturbed, LockInv, PidsInv, NEW a \in Actor, StepOf(a)
  PROVE  PidsInv'
<1>1. TypeInv /\ TypeInv'
  BY TypeKept, StepIsNext DEF LockInv
<1>2. ASSUME NEW c \in Container PROVE inc'[c] >= 1 /\ (st'[c] = "creating" => inc'[c] >= 2)
  <2>1. /\ st \in [Container -> {"stopped", "creating", "running", "stopping"}]
        /\ inc \in [Container -> Nat] /\ c \in Actor /\ c \notin Command
        /\ inc[c] >= 1 /\ (st[c] = "creating" => inc[c] >= 2)
    BY <1>1, ActorTypes DEF PidsInv, TypeInv, TypeOK, ContainersTypeOK
  <2>2. CASE a # c
    BY <1>1, <2>1, <2>2, LivesStay
  <2>3. CASE a = c /\ (StartContainer(c) \/ StopContainer(c) \/ AbortStart(c) \/ HookReturns(c))
    BY <2>1, <2>3 DEF StartContainer, StopContainer, AbortStart, HookReturns
  <2>4. CASE a = c /\ ~ (StartContainer(c) \/ StopContainer(c) \/ AbortStart(c) \/ HookReturns(c))
    <3>1. UNCHANGED <<st, inc>>
      BY <2>1, <2>4
      DEF StepOf, HookNext, ReadConfig, PrepareFails, HookLockUdev, Install, InstallFails,
          WithdrawRule, WithdrawFails, HookDevicesDone, HookLimits, HookLimitsFail, HookLock,
          WriteStep, TruncateRules, UnlockUdev, TruncateConfig, UnlockConfig, Crash, ctrVars
    <3> QED
      BY <2>1, <3>1
  <2> QED
    BY <2>2, <2>3, <2>4
<1>3. ASSUME NEW p \in Command, pc'[p] \notin {"idle", "done"}
      PROVE  ~ job'[p].req.cfgOnly /\ (Lively(Cid(p))' => job'[p].pid = 1)
  <2>1. /\ p \in Actor /\ p \notin Container /\ job \in [Command -> [req: Request, pid: Nat]]
        /\ Cid(p) = job[p].req.cid /\ Cid(p)' = job'[p].req.cid /\ Cid(p) \in Container
        /\ Cid(p)' \in Container
    BY <1>1, ActorTypes DEF TypeInv, TypeOK, ProcessesTypeOK, Cid, Request
  <2>2. CASE p = a /\ \E r \in Requests : Begin(p, r)
    <3>1. PICK r \in Requests : Begin(p, r)
      BY <2>2
    <3>2. /\ job'[p] = [req |-> r, pid |-> IF st[r.cid] = "running" THEN inc[r.cid] ELSE 0]
          /\ UNCHANGED <<st, inc>>
      BY <2>1, <3>1 DEF Begin, ctrVars
    <3> QED
      BY <2>1, <3>2 DEF Lively, Undisturbed
  <2>3. CASE p # a \/ ~ \E r \in Requests : Begin(p, r)
    <3>1. job'[p] = job[p] /\ pc[p] \notin {"idle", "done"}
      <4>1. CASE p # a
        BY <1>1, <1>3, <4>1, OthersKept, <2>1 DEF Kept
      <4>2. CASE p = a
        BY <1>3, <2>1, <2>3, <4>2
        DEF StepOf, CommandNext, ResolvePaths, Inspect, LockAndLoad, LockUdev, GiveUp, AddStep,
            RemoveStep, EachDone, LimitStep, WriteStep, RefuseConflict, RefuseUnknown,
            RecordDevice, Mknod, MknodFails, Allow, AllowFails, Unrecord, Unlink, UnlinkFails, Deny,
            DenyFails, ClearLimits, ClearFails, SetLimit, SetLimitFails, LimitsDone,
            TruncateRules, UnlockUdev, TruncateConfig, UnlockConfig, Crash
      <4> QED
        BY <4>1, <4>2
    <3>2. Cid(p)' = Cid(p)
      BY <2>1, <3>1
    <3>3. Lively(Cid(p))' => Lively(Cid(p))
      BY <2>1, <3>2, LivelyBefore DEF Lively
    <3> QED
      BY <3>1, <3>3 DEF PidsInv
  <2> QED
    BY <2>2, <2>3
<1> QED
  BY <1>2, <1>3 DEF PidsInv

\* Only a command that has the lock of a running container changes what is in it.
LEMMA ContentStays ==
  ASSUME LockInv, NEW a \in Actor, StepOf(a), ~ Crash(a), NEW c \in Container \ {a},
         flock[c] # a
  PROVE  /\ nodes'[c] = nodes[c] /\ allowed'[c] = allowed[c] /\ blkio'[c] = blkio[c]
         /\ left'[c] = left[c]
         /\ flock'[c] = flock[c] \/ (a \in Command /\ LockAndLoad(a) /\ Cid(a) = c)
<1>1. /\ nodes \in [Container -> [DevPath -> Nat]] /\ allowed \in [Container -> SUBSET Nat]
      /\ blkio \in [Container -> SUBSET [num: Nat, val: Value]]
      /\ left \in [Container -> Leftover]
      /\ flock \in [Container -> Actor \cup {NoOne}] /\ TypeInv
  BY DEF LockInv, TypeInv, TypeOK, ContainersTypeOK, FilesTypeOK
<1>2. CASE a \in Command
  <2>1. HoldsConfig(a) => Cid(a) # c
    BY DEF LockInv, LocksHeld
  <2>2. CASE Mknod(a) \/ MknodFails(a) \/ Allow(a) \/ AllowFails(a) \/ Unlink(a) \/ Deny(a)
             \/ ClearLimits(a) \/ (\E q \in quota[a] : SetLimit(a, q)) \/ UnlockConfig(a)
    <3>1. HoldsConfig(a)
      BY <1>2, <2>2, ActorTypes
      DEF Mknod, MknodFails, Allow, AllowFails, Unlink, Deny, ClearLimits, SetLimit, UnlockConfig,
          HoldsConfig
    <3>2. Cid(a) # c
      BY <2>1, <3>1
    <3>3. CASE Mknod(a) \/ MknodFails(a) \/ AllowFails(a) \/ Unlink(a)
      BY <1>1, <3>2, <3>3
      DEF Mknod, MknodFails, AllowFails, Unlink, PutNode, RemoveNode, NodeLeft, NodeSettled, lockVars
    <3>4. CASE Allow(a) \/ Deny(a) \/ ClearLimits(a) \/ \E q \in quota[a] : SetLimit(a, q)
      BY <1>1, <3>2, <3>4 DEF Allow, Deny, ClearLimits, SetLimit, lockVars
    <3>5. CASE UnlockConfig(a)
      BY <1>1, <3>2, <3>5 DEF UnlockConfig, Unlocked, ctrVars
    <3> QED
      BY <2>2, <3>3, <3>4, <3>5
  <2>3. CASE LockAndLoad(a)
    <3>1. UNCHANGED <<nodes, allowed, blkio, left>>
      BY <2>3 DEF LockAndLoad, GiveUp, ctrVars
    <3>2. UNCHANGED flock \/ flock' = [flock EXCEPT ![Cid(a)] = a]
      BY <2>3 DEF LockAndLoad, GiveUp, lockVars
    <3>3. Cid(a) # c => flock'[c] = flock[c]
      BY <1>1, <3>2
    <3> QED
      BY <1>2, <2>3, <3>1, <3>3
  <2>4. CASE (\E d \in todo[a] : RecordDevice(a, d)) \/ UnlinkFails(a) \/ DenyFails(a) \/ ClearFails(a)
    <3>1. Cid(a) # c
      BY <1>2, <2>1, <2>4, ActorTypes
      DEF RecordDevice, UnlinkFails, DenyFails, ClearFails, HoldsConfig
    <3> QED
      BY <1>1, <2>4, <3>1 DEF RecordDevice, UnlinkFails, DenyFails, ClearFails, lockVars
  <2>5. CASE ~ (Mknod(a) \/ MknodFails(a) \/ Allow(a) \/ AllowFails(a) \/ Unlink(a) \/ Deny(a)
                \/ ClearLimits(a) \/ (\E q \in quota[a] : SetLimit(a, q)) \/ UnlockConfig(a)
                \/ (\E d \in todo[a] : RecordDevice(a, d)) \/ UnlinkFails(a) \/ DenyFails(a)
                \/ ClearFails(a) \/ LockAndLoad(a))
    BY <1>2, <2>5, ActorTypes
    DEF StepOf, CommandNext, ResolvePaths, Inspect, LockUdev, GiveUp, AddStep,
        RemoveStep, EachDone, LimitStep, WriteStep, RefuseConflict, RefuseUnknown,
        Unrecord, SetLimitFails, LimitsDone, TruncateRules, UnlockUdev, TruncateConfig, Begin,
        ctrVars, lockVars
  <2> QED
    BY <2>2, <2>3, <2>4, <2>5
<1>3. CASE a \in Container
  BY <1>1, <1>3, ActorTypes
  DEF StepOf, HookNext, ReadConfig, PrepareFails, HookLockUdev, Install, InstallFails,
      WithdrawRule, WithdrawFails, HookDevicesDone, HookLimits, HookLimitsFail, HookLock,
      AbortStart, HookReturns, WriteStep, TruncateRules, UnlockUdev, TruncateConfig, UnlockConfig,
      StartContainer, StopContainer, ctrVars, lockVars, PutNode, Unlocked, Cid
<1> QED
  BY <1>2, <1>3 DEF Actor

\* The story is about the rules of one container.
LEMMA StoryOfRules ==
  ASSUME NEW c, NEW l, NEW d, NEW config, NEW rs, NEW new, NEW ns, NEW al, NEW bs, NEW lf,
         {r \in new : r.cid = c} = {r \in rs : r.cid = c},
         Story(c, l, d, config, rs, ns, al, bs, lf)
  PROVE  Story(c, l, d, config, new, ns, al, bs, lf)
  BY DEF Story, RulesTold

\* What others do is not about c.
LEMMA OthersTell ==
  ASSUME StoreInv, IsolationInv, StoreInv', NEW a \in Actor, StepOf(a), NoCrash', NEW c \in Container,
         PidsInv, Lively(c)', Told(c), flock[c] # a, flock'[c] = flock[c]
  PROVE  Told(c)'
<1>1. /\ Lively(c) /\ a # c /\ pc[c] = "idle" /\ ~ Crash(a) /\ TypeInv /\ LockInv /\ LocksHeld
      /\ c \in Actor /\ c \notin Command
  BY LivelyBefore, NoCrashBefore, ActorTypes DEF StoreInv, LockInv
<1>2. /\ nodes'[c] = nodes[c] /\ allowed'[c] = allowed[c] /\ blkio'[c] = blkio[c]
      /\ left'[c] = left[c]
  BY <1>1, ContentStays
<1>3. file'[c] = file[c]
  BY FilesStay
<1>4. crashes' = crashes
  BY <1>1, NoCrashBefore
<1>5. ASSUME \A p \in Command : flock[c] = p => ~ HoldsRules(p)
      PROVE  RulesOf(c)' = RulesOf(c)
  <2>1. ASSUME NEW b \in Actor, udevLock = b, Cid(b) = c PROVE FALSE
    <3>1. HoldsRules(b)
      BY <1>1, <2>1 DEF LocksHeld
    <3>2. CASE b \in Command
      <4>1. HoldsConfig(b)
        BY <1>1, <3>1, <3>2, ActorTypes
        DEF HoldsRules, HoldsConfig, CommandStep, TypeInv, TypeOK, StepsTypeOK
      <4>2. flock[c] = b
        BY <1>1, <2>1, <4>1 DEF LocksHeld
      <4> QED
        BY <1>5, <3>1, <3>2, <4>2
    <3>3. CASE b \in Container
      <4>1. b = c
        BY <2>1, <3>3 DEF Cid
      <4> QED
        BY <1>1, <3>1, <4>1 DEF HoldsRules
    <3> QED
      BY <3>2, <3>3 DEF Actor
  <2> QED
    BY <1>4, <2>1, RulesStep, StepIsNext
<1>6. CASE flock[c] = NoOne
  <2>1. RulesOf(c)' = RulesOf(c)
    BY <1>5, <1>6, ActorsAssumption DEF Actor
  <2>2. Story(c, "idle", NoDevice, file[c], rules, nodes[c], allowed[c], blkio[c], left[c])
    BY <1>6 DEF Told
  <2>3. Story(c, "idle", NoDevice, file[c], rules', nodes[c], allowed[c], blkio[c], left'[c])
    BY <1>2, <2>1, <2>2, StoryOfRules DEF RulesOf
  <2> QED
    BY <1>2, <1>3, <1>6, <2>3, ActorsAssumption DEF Told, Actor
<1>7. ASSUME NEW p \in Command, flock[c] = p PROVE Told(c)'
  <2>1. p \in Actor \ {a} /\ HoldsConfig(p) /\ Cid(p) = c
    BY <1>1, <1>7, ActorTypes DEF LocksHeld
  <2>2. Kept(p) /\ Cid(p)' = Cid(p) /\ (HoldsRules(p)' <=> HoldsRules(p))
    BY <1>1, <2>1, OthersKept, ActorTypes DEF Kept, Cid, HoldsRules, Op
  <2>3. /\ Story(c, pc[p], cur[p], cfg[p], RulesInHand(p), nodes[c], allowed[c], blkio[c], left[c])
        /\ Copied(p) /\ Listed(p)
    BY <1>7 DEF Told
  <2>4. HoldsRules(p) => rules' = rules
    BY <1>1, <2>1, RulesHeldStay
  <2>5. Copied(p)'
    <3>1. pc[p] = "rwrite" => HoldsRules(p)
      BY DEF HoldsRules
    <3> QED
      BY <1>3, <2>1, <2>2, <2>3, <2>4, <3>1 DEF Copied, Kept, Saved
  <2>6. {r \in RulesInHand(p)' : r.cid = c} = {r \in RulesInHand(p) : r.cid = c}
    <3>1. CASE HoldsRules(p)
      BY <2>2, <3>1 DEF RulesInHand, Kept
    <3>2. CASE ~ HoldsRules(p)
      <4>1. RulesOf(c)' = RulesOf(c)
        BY <1>5, <1>7, <3>2
      <4> QED
        BY <2>2, <3>2, <4>1 DEF RulesInHand, RulesOf
    <3> QED
      BY <3>1, <3>2
  <2>7. Story(c, pc[p], cur[p], cfg[p], RulesInHand(p)', nodes[c], allowed[c], blkio[c], left'[c])
    BY <1>2, <2>3, <2>6, StoryOfRules
  <2>8. Story(c, pc[p], cur[p], cfg[p], RulesInHand(p), nodes[c], allowed[c], blkio[c], left[c])'
    BY <1>2, <2>2, <2>7 DEF Kept
  <2>9. p # NoOne /\ Listed(p)'
    BY <2>1, <2>2, <2>3, ActorsAssumption DEF Listed, Op, Kept
  <2> QED
    BY <1>7, <2>5, <2>8, <2>9 DEF Told
<1>8. CASE flock[c] \notin Command \cup {NoOne}
  BY <1>8 DEF Told
<1> QED
  BY <1>6, <1>7, <1>8

-----------------------------------------------------------------------------
(***************************************************************************)
(* The steps of the command that has the lock                              *)
(***************************************************************************)
\* What such a command can rely on: it reaches the container, and what it has
\* in hand is what the calls need.
LEMMA AtWork ==
  ASSUME StoreInv, PidsInv, NEW c \in Container, Lively(c), Told(c), NEW p \in Command,
         flock[c] = p
  PROVE  /\ TypeInv /\ LockInv /\ p \in Actor /\ p # NoOne /\ p \notin Container
         /\ Cid(p) = c /\ HoldsConfig(p)
         /\ Alive(p) /\ HasCgroup(c) /\ ~ NoPid(p) /\ ~ job[p].req.cfgOnly
         /\ Story(c, pc[p], cur[p], cfg[p], RulesInHand(p), nodes[c], allowed[c], blkio[c], left[c])
         /\ Copied(p) /\ Listed(p)
         /\ cfg[p] \in Config /\ OneToOne(cfg[p]) /\ Numbered(cfg[p])
         /\ pc[p] \in Handling => cur[p] \in Mapping /\ DeviceNumbered(cur[p])
         /\ pc[p] \in {"mknod", "allow"} => cur[p] \in cfg[p].devices /\ Op(p) = "add"
         /\ pc[p] \in {"unlink", "deny", "clear"} => Op(p) = "remove"
         /\ pc[p] = "each" => todo[p] \subseteq Mapping /\ \A d \in todo[p] : DeviceNumbered(d)
         /\ nodes \in [Container -> [DevPath -> Nat]] /\ allowed \in [Container -> SUBSET Nat]
         /\ blkio \in [Container -> SUBSET [num: Nat, val: Value]]
         /\ left \in [Container -> Leftover]
<1>1. TypeInv /\ LockInv /\ LocksHeld /\ WellFormed /\ NumbersKept /\ CommandInv(p)
  BY DEF StoreInv, LockInv, MappingInv, ServedInv
<1>2. p \in Actor /\ p # NoOne /\ p \notin Container
  BY ActorTypes, ActorsAssumption
<1>3. Cid(p) = c /\ HoldsConfig(p) /\ Cid(p) = job[p].req.cid /\ cfg[p] \in Config
  BY <1>1, <1>2, Reads DEF LocksHeld
<1>4. pc[p] \notin {"idle", "done"}
  BY <1>2, <1>3 DEF HoldsConfig
<1>5. job[p].pid = 1 /\ ~ job[p].req.cfgOnly
  BY <1>3, <1>4 DEF PidsInv
<1>6. Alive(p) /\ HasCgroup(c) /\ ~ NoPid(p)
  BY <1>3, <1>5 DEF Alive, HasCgroup, NoPid, Lively
<1>7. /\ Story(c, pc[p], cur[p], cfg[p], RulesInHand(p), nodes[c], allowed[c], blkio[c], left[c])
      /\ Copied(p) /\ Listed(p)
  BY DEF Told
<1>8. /\ OneToOne(cfg[p]) /\ (pc[p] \in Handling => cur[p] \in Mapping)
      /\ pc[p] \in Handling \cup {"each"} => todo[p] \subseteq Mapping
  BY <1>1, OwnMappings
<1>9. Numbered(cfg[p]) /\ InHandNumbered(p)
  BY <1>1, <1>2 DEF NumbersKept
<1>10. /\ pc[p] \in {"mknod", "allow"} => cur[p] \in cfg[p].devices /\ Op(p) = "add"
       /\ pc[p] \in {"unlink", "deny", "clear"} => Op(p) = "remove"
  BY <1>1 DEF CommandInv, Served, Op
<1>11. /\ nodes \in [Container -> [DevPath -> Nat]] /\ allowed \in [Container -> SUBSET Nat]
       /\ blkio \in [Container -> SUBSET [num: Nat, val: Value]]
       /\ left \in [Container -> Leftover]
  BY <1>1 DEF TypeInv, TypeOK, ContainersTypeOK
<1> QED
  BY <1>1, <1>2, <1>3, <1>5, <1>6, <1>7, <1>8, <1>9, <1>10, <1>11 DEF InHandNumbered

\* The one who has the lock tells the story.
LEMMA HolderTells ==
  ASSUME NEW c, NEW p \in Command, p # NoOne, flock'[c] = p,
         Story(c, pc'[p], cur'[p], cfg'[p], RulesInHand(p)', nodes'[c], allowed'[c], blkio'[c],
               left'[c]),
         Copied(p)', Listed(p)'
  PROVE  Told(c)'
  BY DEF Told

\* The rules in memory, and whether they are to be saved.
LEMMA RulesMove ==
  ASSUME TypeInv, NEW p \in Command, NEW r, UNCHANGED <<rules, job>>,
         AddRule(p, r) \/ RemoveRule(p, r) \/ KeepRules,
         HoldsRules(p), HoldsRules(p)', Copied(p)
  PROVE  /\ ~ rdirty'[p] => rcopy'[p] = rules'
         /\ RulesInHand(p) = rcopy[p] /\ RulesInHand(p)' = rcopy'[p]
         /\ AddRule(p, r) => rcopy'[p] = rcopy[p] \cup {r}
         /\ RemoveRule(p, r) => rcopy'[p] = rcopy[p] \ {r}
         /\ KeepRules => rcopy'[p] = rcopy[p]
<1>1. /\ rcopy \in [Actor -> SUBSET Rule] /\ rdirty \in [Actor -> BOOLEAN] /\ p \in Actor
  BY ActorTypes DEF TypeInv, TypeOK, ProcessesTypeOK
<1>2. /\ AddRule(p, r) => rcopy'[p] = rcopy[p] \cup {r}
      /\ RemoveRule(p, r) => rcopy'[p] = rcopy[p] \ {r}
      /\ KeepRules => rcopy'[p] = rcopy[p]
  BY <1>1 DEF AddRule, RemoveRule, KeepRules
<1>3. ~ rdirty'[p] => rcopy'[p] = rcopy[p] /\ ~ rdirty[p]
  <2>1. CASE AddRule(p, r)
    <3>1. rdirty'[p] = (rdirty[p] \/ r \notin rcopy[p])
      BY <1>1, <2>1 DEF AddRule
    <3> QED
      BY <1>2, <2>1, <3>1
  <2>2. CASE RemoveRule(p, r)
    <3>1. rdirty'[p] = (rdirty[p] \/ r \in rcopy[p])
      BY <1>1, <2>2 DEF RemoveRule
    <3> QED
      BY <1>2, <2>2, <3>1
  <2>3. CASE KeepRules
    BY <2>3 DEF KeepRules
  <2> QED
    BY <2>1, <2>2, <2>3
<1> QED
  BY <1>2, <1>3 DEF Copied, RulesInHand

\* A step of the command that leaves the rules and what is saved alone.
LEMMA NothingWritten ==
  ASSUME NEW p \in Command, NEW l \in {"each", "mknod", "allow", "unlink", "deny", "clear"},
         pc'[p] = l, ~ rdirty'[p] => rcopy'[p] = rules',
         dirty'[p] \/ cfg'[p] = file'[Cid(p)']
  PROVE  Copied(p)'
  BY DEF Copied

\* AddDevice.
LEMMA AddTells ==
  ASSUME StoreInv, PidsInv, NEW c \in Container, Lively(c), Told(c), NEW p \in Command,
         flock[c] = p, AddStep(p), NoCrash'
  PROVE  Told(c)'
<1> TypeInv /\ LockInv /\ p \in Actor /\ p # NoOne /\ p \notin Container /\ Cid(p) = c
    /\ Alive(p) /\ HasCgroup(c) /\ ~ job[p].req.cfgOnly
    /\ cfg[p] \in Config /\ OneToOne(cfg[p]) /\ left \in [Container -> Leftover]
  BY AtWork
<1>a. /\ Story(c, pc[p], cur[p], cfg[p], RulesInHand(p), nodes[c], allowed[c], blkio[c], left[c])
      /\ Copied(p)
      /\ pc[p] \in Handling => cur[p] \in Mapping /\ DeviceNumbered(cur[p])
      /\ pc[p] \in {"mknod", "allow"} => cur[p] \in cfg[p].devices /\ Op(p) = "add"
      /\ pc[p] = "each" => todo[p] \subseteq Mapping
      /\ nodes \in [Container -> [DevPath -> Nat]] /\ allowed \in [Container -> SUBSET Nat]
  BY AtWork
<1>b. /\ \A l : Goto(p, l) => pc'[p] = l
      /\ \A x : todo' = [todo EXCEPT ![p] = x] => todo'[p] = x
      /\ \A x : cur' = [cur EXCEPT ![p] = x] => cur'[p] = x
      /\ \A x : cfg' = [cfg EXCEPT ![p] = x] => cfg'[p] = x
      /\ \A x : dirty' = [dirty EXCEPT ![p] = x] => dirty'[p] = x
  BY Reads
<1>c. Listed(p)'
  <2>1. Op(p) = "add" /\ UNCHANGED job
    <3>1. AddStep(p) => Op(p) = "add" \/ pc[p] \in {"mknod", "allow"}
      BY DEF AddStep, RefuseConflict, RefuseUnknown, RecordDevice, Mknod, MknodFails, Allow,
         AllowFails
    <3>2. UNCHANGED job
      BY DEF AddStep, RefuseConflict, RefuseUnknown, RecordDevice, Mknod, MknodFails, Allow,
         AllowFails
    <3> QED
      BY <1>a, <3>1, <3>2
  <2> QED
    BY <2>1 DEF Listed, Op
<1>1. ASSUME NEW d \in todo[p], RefuseConflict(p, d) PROVE Told(c)'
  <2>1. pc[p] = "each" /\ UNCHANGED <<file, rules, job, pc, cur, cfg, dirty, rcopy, rdirty, flock,
                                      nodes, allowed, blkio, left>>
    BY <1>1 DEF RefuseConflict, fileVars, ruleVars, lockVars, ctrVars, envVars
  <2>2. Copied(p)' /\ RulesInHand(p)' = RulesInHand(p)
    BY <1>a, <2>1 DEF Copied, RulesInHand, HoldsRules, Op, Cid
  <2> QED
    BY <1>a, <2>1, <2>2, <1>c, HolderTells
<1>2. ASSUME NEW d \in todo[p], RefuseUnknown(p, d) PROVE Told(c)'
  <2>1. /\ pc[p] = "each" /\ dirty'[p] = TRUE
        /\ UNCHANGED <<file, rules, job, pc, cur, cfg, rcopy, rdirty, flock,
                       nodes, allowed, blkio, left>>
    BY <1>2, <1>b DEF RefuseUnknown, fileVars, ruleVars, lockVars, ctrVars
  <2>2. Copied(p)' /\ RulesInHand(p)' = RulesInHand(p)
    BY <1>a, <2>1 DEF Copied, RulesInHand, HoldsRules, Op
  <2>3. Story(c, "each", cur[p], cfg[p], RulesInHand(p), nodes[c], allowed[c], blkio[c], left'[c])
    BY <1>a, <2>1, StoryStays DEF Handling
  <2> QED
    BY <2>1, <2>2, <2>3, <1>c, HolderTells
<1>3. ASSUME NEW d \in todo[p], RecordDevice(p, d) PROVE Told(c)'
  <2>1. /\ pc[p] = "each" /\ d \in Mapping /\ ~ Conflicts(cfg[p], d)
        /\ pc'[p] = "mknod" /\ cur'[p] = d /\ cfg'[p] = WithDevice(cfg[p], d) /\ dirty'[p] = TRUE
        /\ UNCHANGED <<file, rules, job, flock, nodes, allowed, blkio>>
        /\ IF IsDisk(d.host) THEN AddRule(p, RuleOf(d, c)) ELSE KeepRules
    BY <1>a, <1>b, <1>3
    DEF RecordDevice, Record, fileVars, ruleVars, lockVars, envVars
  <2>l. /\ left'[c].nodes = left[c].nodes /\ left'[c].perms = left[c].perms
        /\ left'[c].limits = left[c].limits /\ left'[c].loose = left[c].loose
        /\ left'[c].rules = left[c].rules \ {RuleOf(d, c)}
    BY <1>3 DEF RecordDevice, Leftover
  <2>2. HoldsRules(p) /\ HoldsRules(p)'
    BY <2>1 DEF HoldsRules
  <2>3. /\ ~ rdirty'[p] => rcopy'[p] = rules'
        /\ RulesInHand(p)' = IF IsDisk(d.host) THEN RulesInHand(p) \cup {RuleOf(d, c)}
                             ELSE RulesInHand(p)
    <3>1. AddRule(p, RuleOf(d, c)) \/ KeepRules
      BY <2>1
    <3>2. /\ ~ rdirty'[p] => rcopy'[p] = rules'
          /\ RulesInHand(p) = rcopy[p] /\ RulesInHand(p)' = rcopy'[p]
          /\ AddRule(p, RuleOf(d, c)) => rcopy'[p] = rcopy[p] \cup {RuleOf(d, c)}
          /\ KeepRules => rcopy'[p] = rcopy[p]
      BY <1>a, <2>1, <2>2, <3>1, RulesMove
    <3> QED
      BY <2>1, <3>2
  <2>4. Copied(p)'
    BY <2>1, <2>3, NothingWritten
  <2>5. Story(c, "mknod", d, WithDevice(cfg[p], d), RulesInHand(p)', nodes[c], allowed[c],
              blkio[c], left'[c])
    <3>1. Story(c, "each", cur[p], cfg[p], RulesInHand(p), nodes[c], allowed[c], blkio[c], left[c])
      BY <1>a, <2>1
    <3>2. Story(c, "mknod", d, WithDevice(cfg[p], d),
                IF IsDisk(d.host) THEN RulesInHand(p) \cup {RuleOf(d, c)} ELSE RulesInHand(p),
                nodes[c], allowed[c], blkio[c], left'[c])
      BY <2>1, <2>l, <3>1, StoryRecords
    <3> QED
      BY <2>3, <3>2
  <2> QED
    BY <2>1, <2>4, <2>5, <1>c, HolderTells
<1>4. CASE Mknod(p)
  <2>1. /\ pc[p] = "mknod" /\ pc'[p] = "allow" /\ cur[p] \in Mapping
        /\ cur[p] \in cfg[p].devices /\ nodes[c] \in [DevPath -> Nat]
        /\ nodes'[c] = [nodes[c] EXCEPT ![cur[p].path] = cur[p].num]
        /\ UNCHANGED <<file, rules, job, flock, cur, cfg, dirty, rcopy, rdirty,
                       allowed, blkio>>
    BY <1>a, <1>b, <1>4 DEF Mknod, PutNode, fileVars, ruleVars, lockVars, envVars, Handling
  <2>l. /\ left'[c].nodes = left[c].nodes \ {cur[p].path} /\ left'[c].perms = left[c].perms
        /\ left'[c].limits = left[c].limits /\ left'[c].loose = left[c].loose
        /\ left'[c].rules = left[c].rules
    BY <1>4 DEF Mknod, NodeSettled, Leftover
  <2>2. Copied(p)' /\ RulesInHand(p)' = RulesInHand(p)
    BY <1>a, <2>1 DEF Copied, RulesInHand, HoldsRules, Op, Cid
  <2>3. Story(c, "allow", cur[p], cfg[p], RulesInHand(p), nodes'[c], allowed[c], blkio[c], left'[c])
    <3>1. Story(c, "mknod", cur[p], cfg[p], RulesInHand(p), nodes[c], allowed[c], blkio[c], left[c])
      BY <1>a, <2>1
    <3> QED
      BY <2>1, <2>l, <3>1, StoryMakes
  <2> QED
    BY <2>1, <2>2, <2>3, <1>c, HolderTells
<1>5. CASE Allow(p)
  <2>1. /\ pc[p] = "allow" /\ pc'[p] = "each" /\ cur[p] \in Mapping
        /\ allowed'[c] = allowed[c] \cup {cur[p].num}
        /\ UNCHANGED <<file, rules, job, flock, cur, cfg, dirty, rcopy, rdirty,
                       nodes, blkio>>
    BY <1>a, <1>b, <1>5 DEF Allow, fileVars, ruleVars, lockVars, envVars, Handling
  <2>l. /\ left'[c].nodes = left[c].nodes /\ left'[c].perms = left[c].perms \ {cur[p].num}
        /\ left'[c].limits = left[c].limits /\ left'[c].loose = left[c].loose \ {cur[p].num}
        /\ left'[c].rules = left[c].rules
    BY <1>5 DEF Allow, Leftover
  <2>2. Copied(p)' /\ RulesInHand(p)' = RulesInHand(p)
    BY <1>a, <2>1 DEF Copied, RulesInHand, HoldsRules, Op, Cid
  <2>3. Story(c, "each", cur[p], cfg[p], RulesInHand(p), nodes[c], allowed'[c], blkio[c], left'[c])
    <3>1. Story(c, "allow", cur[p], cfg[p], RulesInHand(p), nodes[c], allowed[c], blkio[c], left[c])
      BY <1>a, <2>1
    <3>2. cur[p] \in cfg[p].devices
      BY <1>a, <2>1
    <3> QED
      BY <2>1, <2>l, <3>1, <3>2, StoryAllows
  <2> QED
    BY <2>1, <2>2, <2>3, <1>c, HolderTells
<1>6. CASE MknodFails(p) \/ AllowFails(p)
  <2>1. /\ pc[p] \in {"mknod", "allow"} /\ cur[p] \in Mapping /\ cur[p] \in cfg[p].devices
        /\ pc'[p] = "each" /\ RollBack(p, cur[p])
        /\ UNCHANGED <<file, rules, job, flock, cur, allowed, blkio>>
    BY <1>a, <1>b, <1>6
    DEF MknodFails, AllowFails, RollBack, fileVars, ruleVars, lockVars, Handling
  <2>2. /\ \A q \in DevPath \ {cur[p].path} : /\ nodes'[c][q] = nodes[c][q]
                                              /\ q \in left[c].nodes => q \in left'[c].nodes
        /\ \/ nodes'[c][cur[p].path] = 0
           \/ cur[p].path \in left'[c].nodes
           \/ pc[p] = "mknod" /\ nodes'[c] = nodes[c] /\ left'[c].nodes = left[c].nodes
        /\ left'[c].perms = left[c].perms /\ left'[c].limits = left[c].limits
        /\ left'[c].loose = left[c].loose /\ left'[c].rules = left[c].rules
    <3>1. cur[p].path \in DevPath
      BY <2>1 DEF Mapping
    <3>2. CASE MknodFails(p) /\ UNCHANGED <<nodes, left>>
      BY <3>1, <3>2 DEF MknodFails
    <3>3. CASE NodeLeft(c, cur[p].path) /\ \E n : PutNode(c, cur[p].path, n)
      BY <1>a, <3>1, <3>3 DEF NodeLeft, PutNode, Leftover
    <3>4. CASE NodeLeft(c, cur[p].path) /\ UNCHANGED nodes
      BY <1>a, <3>1, <3>4 DEF NodeLeft, Leftover
    <3>5. CASE NodeSettled(c, cur[p].path) /\ PutNode(c, cur[p].path, 0)
      BY <1>a, <3>1, <3>5 DEF NodeSettled, PutNode, Leftover
    <3>6. CASE MknodFails(p) /\ \E n : n = nodes[c][cur[p].path] /\ PutNode(c, cur[p].path, n)
                                       /\ UNCHANGED left
      <4>1. nodes' = [nodes EXCEPT ![c][cur[p].path] = nodes[c][cur[p].path]]
        BY <3>6 DEF PutNode
      <4>2. nodes'[c] = nodes[c]
        BY <1>a, <3>1, <4>1
      <4> QED
        BY <3>6, <4>2 DEF MknodFails
    <3>7. CASE MknodFails(p)
      BY <3>2, <3>3, <3>5, <3>6, <3>7 DEF MknodFails
    <3>8. CASE AllowFails(p)
      BY <3>4, <3>5, <3>8 DEF AllowFails, RemoveNode
    <3> QED
      BY <1>6, <3>7, <3>8
  <2>4. /\ cfg'[p] = WithoutDevice(cfg[p], cur[p]) /\ dirty'[p] = TRUE
        /\ RemoveRule(p, RuleOf(cur[p], c))
    BY <1>b, <2>1 DEF RollBack, Record
  <2>5. HoldsRules(p) /\ HoldsRules(p)'
    BY <2>1 DEF HoldsRules
  <2>6. /\ ~ rdirty'[p] => rcopy'[p] = rules'
        /\ RulesInHand(p)' = RulesInHand(p) \ {RuleOf(cur[p], c)}
    BY <1>a, <2>1, <2>4, <2>5, RulesMove
  <2>7. Copied(p)'
    BY <2>1, <2>4, <2>6, NothingWritten
  <2>8. Story(c, "each", cur[p], WithoutDevice(cfg[p], cur[p]), RulesInHand(p)', nodes'[c],
              allowed[c], blkio[c], left'[c])
    <3>1. Story(c, pc[p], cur[p], cfg[p], RulesInHand(p), nodes[c], allowed[c], blkio[c], left[c])
      BY <1>a
    <3> QED
      BY <2>1, <2>2, <2>6, <3>1, StoryRollsBack
  <2> QED
    BY <2>1, <2>4, <2>7, <2>8, <1>c, HolderTells
<1> QED
  BY <1>1, <1>2, <1>3, <1>4, <1>5, <1>6 DEF AddStep

\* RemoveDevice.
LEMMA RemoveTells ==
  ASSUME Undisturbed, StoreInv, PidsInv, NEW c \in Container, Lively(c), Told(c), NEW p \in Command,
         flock[c] = p, RemoveStep(p), NoCrash'
  PROVE  Told(c)'
<1> TypeInv /\ LockInv /\ p \in Actor /\ p # NoOne /\ p \notin Container /\ Cid(p) = c
    /\ Alive(p) /\ HasCgroup(c) /\ ~ NoPid(p)
    /\ cfg[p] \in Config /\ OneToOne(cfg[p]) /\ Numbered(cfg[p])
    /\ left \in [Container -> Leftover]
  BY AtWork
<1>a. /\ Story(c, pc[p], cur[p], cfg[p], RulesInHand(p), nodes[c], allowed[c], blkio[c], left[c])
      /\ Copied(p) /\ Listed(p)
      /\ pc[p] \in Handling => cur[p] \in Mapping /\ DeviceNumbered(cur[p])
      /\ pc[p] \in {"unlink", "deny", "clear"} => Op(p) = "remove"
      /\ pc[p] = "each" => todo[p] \subseteq Mapping
      /\ nodes \in [Container -> [DevPath -> Nat]] /\ allowed \in [Container -> SUBSET Nat]
      /\ blkio \in [Container -> SUBSET [num: Nat, val: Value]]
  BY AtWork
<1>b. /\ \A l : Goto(p, l) => pc'[p] = l
      /\ \A x : todo' = [todo EXCEPT ![p] = x] => todo'[p] = x
      /\ \A x : cur' = [cur EXCEPT ![p] = x] => cur'[p] = x
      /\ \A x : cfg' = [cfg EXCEPT ![p] = x] => cfg'[p] = x
      /\ \A x : dirty' = [dirty EXCEPT ![p] = x] => dirty'[p] = x
      /\ dirty[p] \in BOOLEAN
  BY Reads
<1>c. Op(p) = "remove" /\ UNCHANGED job /\ todo[p] \subseteq cfg[p].devices
  <2>1. pc[p] \in {"unlink", "deny", "clear"} \/ (pc[p] = "each" /\ Op(p) = "remove")
    BY DEF RemoveStep, Unrecord, Unlink, UnlinkFails, Deny, DenyFails, ClearLimits, ClearFails
  <2>2. UNCHANGED job
    BY DEF RemoveStep, Unrecord, Unlink, UnlinkFails, Deny, DenyFails, ClearLimits, ClearFails
  <2> QED
    BY <1>a, <2>1, <2>2 DEF Listed
<1>d. ASSUME todo'[p] \subseteq cfg'[p].devices PROVE Listed(p)'
  BY <1>d DEF Listed
<1>1. ASSUME NEW d \in todo[p], Unrecord(p, d) PROVE Told(c)'
  <2>1. /\ pc[p] = "each" /\ d \in Mapping
        /\ pc'[p] = "unlink" /\ cur'[p] = d /\ cfg'[p] = WithoutDevice(cfg[p], d)
        /\ dirty'[p] = TRUE
        /\ UNCHANGED <<file, rules, job, flock, nodes, allowed, blkio, left>>
        /\ RemoveRule(p, RuleOf(d, c))
    BY <1>a, <1>b, <1>1
    DEF Unrecord, Record, fileVars, ruleVars, lockVars, ctrVars, envVars
  <2>2. HoldsRules(p) /\ HoldsRules(p)'
    BY <2>1 DEF HoldsRules
  <2>3. /\ ~ rdirty'[p] => rcopy'[p] = rules'
        /\ RulesInHand(p)' = RulesInHand(p) \ {RuleOf(d, c)}
    BY <1>a, <2>1, <2>2, RulesMove
  <2>4. Copied(p)'
    BY <2>1, <2>3, NothingWritten
  <2>5. Story(c, "unlink", d, WithoutDevice(cfg[p], d), RulesInHand(p)', nodes[c], allowed[c],
              blkio[c], left[c])
    <3>1. Story(c, "each", cur[p], cfg[p], RulesInHand(p), nodes[c], allowed[c], blkio[c], left[c])
      BY <1>a, <2>1
    <3>2. d \in cfg[p].devices
      BY <1>c
    <3> QED
      BY <2>1, <2>3, <3>1, <3>2, StoryUnrecords
  <2>6. Listed(p)'
    <3>1. todo'[p] = todo[p] \ {d}
      BY <1>b, <1>1 DEF Unrecord, Take
    <3>2. \A e \in cfg[p].devices : e # d => ~ Matches(e, d)
      BY <1>c, <2>1, NamesAssumption DEF OneToOne, Clash, Matches, Mapping
    <3>3. todo'[p] \subseteq cfg'[p].devices
      BY <1>c, <2>1, <3>1, <3>2 DEF WithoutDevice, Config
    <3> QED
      BY <1>d, <3>3
  <2> QED
    BY <2>1, <2>4, <2>5, <2>6, HolderTells
<1>2. CASE Unlink(p)
  <2>1. /\ pc[p] = "unlink" /\ pc'[p] = "deny" /\ cur[p] \in Mapping
        /\ nodes[c] \in [DevPath -> Nat]
        /\ nodes'[c] = [nodes[c] EXCEPT ![cur[p].path] = 0]
        /\ UNCHANGED <<file, rules, job, flock, cur, cfg, dirty, rcopy, rdirty,
                       allowed, blkio>>
    BY <1>a, <1>b, <1>2
    DEF Unlink, RemoveNode, PutNode, fileVars, ruleVars, lockVars, envVars, Handling
  <2>l. /\ left'[c].nodes = left[c].nodes \ {cur[p].path} /\ left'[c].perms = left[c].perms
        /\ left'[c].limits = left[c].limits /\ left'[c].loose = left[c].loose
        /\ left'[c].rules = left[c].rules
    BY <1>2 DEF Unlink, NodeSettled, Leftover
  <2>2. Copied(p)' /\ RulesInHand(p)' = RulesInHand(p)
    BY <1>a, <2>1 DEF Copied, RulesInHand, HoldsRules, Op, Cid
  <2>3. Story(c, "deny", cur[p], cfg[p], RulesInHand(p), nodes'[c], allowed[c], blkio[c], left'[c])
    <3>1. Story(c, "unlink", cur[p], cfg[p], RulesInHand(p), nodes[c], allowed[c], blkio[c],
                left[c])
      BY <1>a, <2>1
    <3> QED
      BY <2>1, <2>l, <3>1, StoryUnlinks
  <2>4. Listed(p)'
    BY <1>c, <1>d, <1>2, <2>1 DEF Unlink
  <2> QED
    BY <2>1, <2>2, <2>3, <2>4, HolderTells
<1>3. CASE UnlinkFails(p)
  <2>1. /\ pc[p] = "unlink" /\ pc'[p] = "each" /\ cur[p] \in Mapping
        /\ cfg'[p] = WithDevice(cfg[p], cur[p]) /\ dirty'[p] = TRUE
        /\ UNCHANGED <<file, rules, job, flock, cur, nodes, allowed, blkio>>
    BY <1>a, <1>b, <1>3 DEF UnlinkFails, Record, fileVars, ruleVars, lockVars, Handling
  <2>2. \/ /\ IF IsDisk(cur[p].host) THEN AddRule(p, RuleOf(cur[p], c)) ELSE KeepRules
           /\ left' = [left EXCEPT ![c].rules = @ \ {RuleOf(cur[p], c)}]
        \/ /\ KeepRules
           /\ left' = [left EXCEPT ![c].rules = @ \cup {RuleOf(cur[p], c)}]
    BY <1>3 DEF UnlinkFails
  <2>l. /\ left'[c].nodes = left[c].nodes /\ left'[c].perms = left[c].perms
        /\ left'[c].limits = left[c].limits /\ left'[c].loose = left[c].loose
    BY <2>2 DEF Leftover
  <2>3. HoldsRules(p) /\ HoldsRules(p)'
    BY <2>1 DEF HoldsRules
  <2>4. /\ ~ rdirty'[p] => rcopy'[p] = rules'
        /\ \/ /\ RulesInHand(p)' = IF IsDisk(cur[p].host)
                                   THEN RulesInHand(p) \cup {RuleOf(cur[p], c)}
                                   ELSE RulesInHand(p)
              /\ left'[c].rules = left[c].rules \ {RuleOf(cur[p], c)}
           \/ /\ RulesInHand(p)' = RulesInHand(p)
              /\ left'[c].rules = left[c].rules \cup {RuleOf(cur[p], c)}
    <3>1. AddRule(p, RuleOf(cur[p], c)) \/ KeepRules
      BY <2>2
    <3>2. /\ ~ rdirty'[p] => rcopy'[p] = rules'
          /\ RulesInHand(p) = rcopy[p] /\ RulesInHand(p)' = rcopy'[p]
          /\ AddRule(p, RuleOf(cur[p], c)) => rcopy'[p] = rcopy[p] \cup {RuleOf(cur[p], c)}
          /\ KeepRules => rcopy'[p] = rcopy[p]
      BY <1>a, <2>1, <2>3, <3>1, RulesMove
    <3>3. \A rs : left' = [left EXCEPT ![c].rules = rs] => left'[c].rules = rs
      BY DEF Leftover
    <3> QED
      BY <2>2, <3>2, <3>3
  <2>5. Copied(p)'
    BY <2>1, <2>4, NothingWritten
  <2>6. Story(c, "each", cur[p], WithDevice(cfg[p], cur[p]), RulesInHand(p)', nodes[c],
              allowed[c], blkio[c], left'[c])
    <3>1. Story(c, "unlink", cur[p], cfg[p], RulesInHand(p), nodes[c], allowed[c], blkio[c],
                left[c])
      BY <1>a, <2>1
    <3> QED
      BY <2>1, <2>4, <2>l, <3>1, StoryPutsBack
  <2>7. Listed(p)'
    <3>1. todo' = todo /\ cfg[p].devices \subseteq cfg'[p].devices
      BY <1>3, <2>1 DEF UnlinkFails, WithDevice, Config
    <3> QED
      BY <1>c, <1>d, <3>1
  <2> QED
    BY <2>1, <2>5, <2>6, <2>7, HolderTells
<1>4. CASE Deny(p)
  <2>1. /\ pc[p] = "deny" /\ pc'[p] = "clear" /\ cur[p] \in Mapping /\ DeviceNumbered(cur[p])
        /\ allowed'[c] = allowed[c] \ {cur[p].num}
        /\ UNCHANGED <<file, rules, job, flock, todo, cur, cfg, dirty, rcopy, rdirty,
                       nodes, blkio>>
    BY <1>a, <1>b, <1>4 DEF Deny, Denied, fileVars, ruleVars, lockVars, envVars, Handling
  <2>l. /\ left'[c].nodes = left[c].nodes /\ left'[c].perms = left[c].perms \ {cur[p].num}
        /\ left'[c].limits = left[c].limits /\ left'[c].loose = left[c].loose
        /\ left'[c].rules = left[c].rules
    BY <1>4 DEF Deny, Leftover
  <2>2. Copied(p)' /\ RulesInHand(p)' = RulesInHand(p) /\ Listed(p)'
    BY <1>a, <1>c, <1>d, <2>1 DEF Copied, RulesInHand, HoldsRules, Op, Cid
  <2>3. Story(c, "deny", cur[p], cfg[p], RulesInHand(p), nodes[c], allowed[c], blkio[c], left[c])
    BY <1>a, <2>1
  <2>4. ASSUME NEW e \in cfg[p].devices PROVE e.num # cur[p].num
    <3>1. e \in Mapping /\ DeviceNumbered(e)
      BY DEF Numbered, Config
    <3>2. e.host # cur[p].host
      BY <2>3 DEF Story, TakenOut, Clash
    <3> QED
      BY <2>1, <3>1, <3>2 DEF DeviceNumbered, Mapping, Undisturbed
  <2>5. Story(c, "clear", cur[p], cfg[p], RulesInHand(p), nodes[c], allowed'[c], blkio[c], left'[c])
    BY <2>1, <2>l, <2>3, <2>4, StoryDenies
  <2> QED
    BY <2>1, <2>2, <2>5, HolderTells
<1>5. CASE DenyFails(p)
  <2>1. /\ pc[p] = "deny" /\ pc'[p] = "each"
        /\ UNCHANGED <<file, rules, job, flock, todo, cur, cfg, dirty, rcopy, rdirty,
                       nodes, allowed, blkio>>
    BY <1>b, <1>5 DEF DenyFails, fileVars, ruleVars, lockVars
  <2>l. /\ left'[c].nodes = left[c].nodes /\ left'[c].perms = left[c].perms \cup {cur[p].num}
        /\ left'[c].limits = left[c].limits /\ left'[c].loose = left[c].loose
        /\ left'[c].rules = left[c].rules
    BY <1>5 DEF DenyFails, Leftover
  <2>2. Copied(p)' /\ RulesInHand(p)' = RulesInHand(p) /\ Listed(p)'
    BY <1>a, <1>c, <1>d, <2>1 DEF Copied, RulesInHand, HoldsRules, Op, Cid
  <2>3. Story(c, "deny", cur[p], cfg[p], RulesInHand(p), nodes[c], allowed[c], blkio[c], left[c])
    BY <1>a, <2>1
  <2>5. Story(c, "each", cur[p], cfg[p], RulesInHand(p), nodes[c], allowed[c], blkio[c], left'[c])
    BY <2>l, <2>3, StoryRefused
  <2> QED
    BY <2>1, <2>2, <2>5, HolderTells
<1>6. CASE ClearLimits(p) \/ ClearFails(p)
  <2>1. /\ pc[p] = "clear" /\ pc'[p] = "each"
        /\ UNCHANGED <<file, rules, job, flock, todo, cur, rcopy, rdirty, nodes, allowed>>
    BY <1>b, <1>6 DEF ClearLimits, ClearFails, fileVars, ruleVars, lockVars
  <2>2. Story(c, "clear", cur[p], cfg[p], RulesInHand(p), nodes[c], allowed[c], blkio[c], left[c])
    BY <1>a, <2>1
  <2>3. LimitsTold(cfg[p].qos, blkio[c], left[c]) /\ cfg[p].qos \in SUBSET Qos
    BY <2>2 DEF Story, Config
  <2>4. RulesInHand(p)' = RulesInHand(p) /\ (~ rdirty'[p] => rcopy'[p] = rules')
    BY <1>a, <2>1 DEF Copied, RulesInHand, HoldsRules, Op
  <2>5. CASE /\ cfg' = cfg /\ blkio' = blkio /\ left' = left /\ dirty'[p] = dirty[p]
             /\ LimitsOf(cfg[p], cur[p]) = {}
    <3>1. Copied(p)' /\ Listed(p)'
      BY <1>a, <1>c, <1>d, <2>1, <2>5 DEF Copied, HoldsRules, Op, Cid
    <3>2. Story(c, "each", cur[p], cfg[p], RulesInHand(p), nodes[c], allowed[c], blkio[c], left'[c])
      BY <2>2, <2>5, StoryUnlimited DEF LimitsOf
    <3> QED
      BY <2>1, <2>4, <2>5, <3>1, <3>2, HolderTells
  <2>6. ASSUME NEW q \in cfg[p].qos, cfg'[p] = WithoutLimits(cfg[p], {q}), dirty'[p] = TRUE,
               q.num = cur[p].num,
               blkio'[c] = Throttles(cfg[p].qos \ {q}) \cup left'[c].limits,
               left'[c].nodes = left[c].nodes, left'[c].perms = left[c].perms,
               left'[c].loose = left[c].loose \ {q.num}, left'[c].rules = left[c].rules
        PROVE  Told(c)'
    <3>1. Copied(p)'
      BY <2>1, <2>4, <2>6, NothingWritten
    <3>2. Listed(p)'
      BY <1>c, <1>d, <2>1, <2>6 DEF WithoutLimits, Config
    <3>3. Story(c, "each", cur[p], WithoutLimits(cfg[p], {q}), RulesInHand(p), nodes[c], allowed[c],
                blkio'[c], left'[c])
      BY <2>2, <2>6, StoryClears
    <3> QED
      BY <2>1, <2>4, <2>6, <3>1, <3>2, <3>3, HolderTells
  <2>7. \/ /\ cfg' = cfg /\ blkio' = blkio /\ left' = left /\ dirty'[p] = dirty[p]
           /\ LimitsOf(cfg[p], cur[p]) = {}
        \/ \E q \in cfg[p].qos :
             /\ cfg'[p] = WithoutLimits(cfg[p], {q}) /\ dirty'[p] = TRUE /\ q.num = cur[p].num
             /\ blkio'[c] = Throttles(cfg[p].qos \ {q}) \cup left'[c].limits
             /\ left'[c].nodes = left[c].nodes /\ left'[c].perms = left[c].perms
             /\ left'[c].loose = left[c].loose \ {q.num} /\ left'[c].rules = left[c].rules
    <3>1. CASE ClearLimits(p)
      <4>1. CASE LimitsOf(cfg[p], cur[p]) = {}
        <5>1. cfg' = cfg /\ blkio' = blkio /\ left' = left /\ Dirtied(p, FALSE)
          BY <3>1, <4>1 DEF ClearLimits
        <5>2. dirty'[p] = dirty[p]
          BY <1>b, <5>1 DEF Dirtied
        <5> QED
          BY <4>1, <5>1, <5>2
      <4>2. CASE LimitsOf(cfg[p], cur[p]) # {}
        <5>1. PICK q \in LimitsOf(cfg[p], cur[p]) :
                /\ cfg' = [cfg EXCEPT ![p] = WithoutLimits(@, {q})]
                /\ blkio' = [blkio EXCEPT ![c] = Cleared(@, q.num)]
                /\ left' = [left EXCEPT ![c].limits = {b \in @ : b.num # q.num},
                                        ![c].loose = @ \ {q.num}]
          BY <3>1, <4>2 DEF ClearLimits
        <5>2. dirty'[p] = TRUE
          BY <1>b, <3>1, <4>2 DEF ClearLimits, Dirtied
        <5>3. blkio'[c] = Cleared(blkio[c], q.num)
          BY <1>a, <5>1
        <5>4. /\ left'[c].limits = {b \in left[c].limits : b.num # q.num}
              /\ left'[c].nodes = left[c].nodes /\ left'[c].perms = left[c].perms
              /\ left'[c].loose = left[c].loose \ {q.num} /\ left'[c].rules = left[c].rules
          BY <5>1 DEF Leftover
        <5>5. q \in cfg[p].qos /\ q.num = cur[p].num
          BY <5>1 DEF LimitsOf
        <5>6. cfg'[p] = WithoutLimits(cfg[p], {q})
          BY <1>b, <5>1
        <5>7. blkio'[c] = Throttles(cfg[p].qos \ {q}) \cup left'[c].limits
          <6>1. /\ \A r \in cfg[p].qos : r.num = q.num => r = q
                /\ blkio[c] = Throttles(cfg[p].qos) \cup left[c].limits
            BY <2>3, <5>5 DEF LimitsTold
          <6>2. {b \in Throttles(cfg[p].qos) : b.num # q.num} = Throttles(cfg[p].qos \ {q})
            BY <5>5, <6>1, ThrottleCleared
          <6> QED
            BY <5>3, <5>4, <6>1, <6>2 DEF Cleared
        <5> QED
          BY <5>2, <5>4, <5>5, <5>6, <5>7
      <4> QED
        BY <4>1, <4>2
    <3>2. CASE ClearFails(p)
      <4>1. PICK q \in LimitsOf(cfg[p], cur[p]) :
              /\ cfg' = [cfg EXCEPT ![p] = WithoutLimits(@, {q})]
              /\ left' = [left EXCEPT ![c].limits = @ \cup {b \in blkio[c] : b.num = q.num},
                                      ![c].loose = @ \ {q.num}]
        BY <3>2 DEF ClearFails
      <4>2. /\ left'[c].limits = left[c].limits \cup {b \in blkio[c] : b.num = q.num}
            /\ left'[c].nodes = left[c].nodes /\ left'[c].perms = left[c].perms
            /\ left'[c].loose = left[c].loose \ {q.num} /\ left'[c].rules = left[c].rules
        BY <4>1 DEF Leftover
      <4>3. q \in cfg[p].qos /\ q.num = cur[p].num
        BY <4>1 DEF LimitsOf
      <4>4. /\ cfg'[p] = WithoutLimits(cfg[p], {q}) /\ dirty'[p] = TRUE
            /\ blkio' = blkio
        BY <1>b, <3>2, <4>1 DEF ClearFails
      <4>5. blkio'[c] = Throttles(cfg[p].qos \ {q}) \cup left'[c].limits
        <5>1. \A b : b \in left'[c].limits <=>
                       b \in left[c].limits \/ (b \in blkio[c] /\ b.num = q.num)
          BY <4>2
        <5>2. blkio[c] = Throttles(cfg[p].qos \ {q}) \cup left'[c].limits
          BY <2>3, <4>3, <5>1, ThrottleKept
        <5> QED
          BY <4>4, <5>2
      <4> QED
        BY <4>2, <4>3, <4>4, <4>5
    <3> QED
      BY <1>6, <3>1, <3>2
  <2> QED
    BY <2>5, <2>6, <2>7
<1> QED
  BY <1>1, <1>2, <1>3, <1>4, <1>5, <1>6 DEF RemoveStep

\* updateQos.
LEMMA LimitTells ==
  ASSUME StoreInv, PidsInv, NEW c \in Container, Lively(c), Told(c), NEW p \in Command,
         flock[c] = p, LimitStep(p), NoCrash'
  PROVE  Told(c)'
<1> TypeInv /\ p \in Actor /\ p # NoOne /\ Cid(p) = c /\ ~ NoPid(p) /\ cfg[p] \in Config
    /\ left \in [Container -> Leftover]
  BY AtWork
<1>a. /\ Story(c, pc[p], cur[p], cfg[p], RulesInHand(p), nodes[c], allowed[c], blkio[c], left[c])
      /\ Copied(p)
      /\ blkio \in [Container -> SUBSET [num: Nat, val: Value]]
  BY AtWork
<1>b. /\ \A l : Goto(p, l) => pc'[p] = l
      /\ \A x : cfg' = [cfg EXCEPT ![p] = x] => cfg'[p] = x
      /\ dirty \in [Actor -> BOOLEAN] /\ quota[p] \in SUBSET Qos
  BY Reads DEF TypeInv, TypeOK, ProcessesTypeOK
<1>c. pc[p] = "quota"
  BY DEF LimitStep, SetLimit, SetLimitFails, LimitsDone
<1>d. Story(c, "quota", cur[p], cfg[p], RulesInHand(p), nodes[c], allowed[c], blkio[c], left[c])
  BY <1>a, <1>c
<1>1. ASSUME NEW q \in quota[p], SetLimit(p, q) PROVE Told(c)'
  <2>1. /\ UNCHANGED <<file, rules, job, pc, flock, todo, cur, rcopy, rdirty, nodes, allowed>>
        /\ cfg'[p] = WithLimit(cfg[p], q) /\ Dirtied(p, WithLimit(cfg[p], q) # cfg[p])
        /\ q \in Qos
    BY <1>b, <1>1 DEF SetLimit, fileVars, ruleVars, lockVars, envVars
  <2>l. /\ left'[c].nodes = left[c].nodes /\ left'[c].perms = left[c].perms
        /\ left'[c].limits = {b \in left[c].limits : b.num # q.num}
        /\ left'[c].loose = left[c].loose \cup {n \in {q.num} : IsLoose(p, q)}
        /\ left'[c].rules = left[c].rules
    BY <1>1 DEF SetLimit, Leftover
  <2>2. blkio'[c] = {b \in blkio[c] : b.num # q.num} \cup {Throttle(q)}
    BY <1>a, <1>1 DEF SetLimit
  <2>3. ~ dirty'[p] => ~ dirty[p] /\ cfg'[p] = cfg[p]
    BY <1>b, <2>1 DEF Dirtied
  <2>4. Copied(p)' /\ Listed(p)' /\ RulesInHand(p)' = RulesInHand(p)
    BY <1>a, <1>c, <2>1, <2>3 DEF Copied, Listed, RulesInHand, HoldsRules, Op, Cid
  <2>5. Story(c, "quota", cur[p], WithLimit(cfg[p], q), RulesInHand(p), nodes[c], allowed[c],
              {b \in blkio[c] : b.num # q.num} \cup {Throttle(q)}, left'[c])
    <3>1. /\ left[c].loose \subseteq left'[c].loose
          /\ q.num \in left'[c].loose \/ \E e \in cfg[p].devices : e.num = q.num
      BY <2>l DEF IsLoose
    <3> QED
      BY <1>d, <2>1, <2>l, <3>1, StoryLimits
  <2> QED
    BY <1>c, <2>1, <2>2, <2>4, <2>5, HolderTells
<1>2. CASE SetLimitFails(p) \/ LimitsDone(p)
  <2>1. /\ UNCHANGED <<file, rules, job, flock, todo, cur, cfg, dirty, rcopy, rdirty, nodes, allowed,
                       blkio, left>>
        /\ pc'[p] = IF Op(p) = "add" THEN "save" ELSE "flush"
    BY <1>b, <1>2 DEF SetLimitFails, LimitsDone, AfterQuota, fileVars, ruleVars, lockVars, ctrVars
  <2>3. Copied(p)' /\ Listed(p)' /\ RulesInHand(p)' = RulesInHand(p)
    BY <1>a, <1>c, <2>1 DEF Copied, Listed, RulesInHand, HoldsRules, Op, Cid
  <2>4. Story(c, pc'[p], cur[p], cfg[p], RulesInHand(p), nodes[c], allowed[c], blkio[c], left'[c])
    BY <1>d, <2>1, StoryStays DEF Handling
  <2> QED
    BY <2>1, <2>3, <2>4, HolderTells
<1> QED
  BY <1>1, <1>2 DEF LimitStep

\* Loading the rules, and what is between the devices, the limits and the files.
LEMMA SaveTells ==
  ASSUME Undisturbed, StoreInv, PidsInv, NEW c \in Container, Lively(c), Told(c), NEW p \in Command,
         flock[c] = p, LockUdev(p) \/ EachDone(p) \/ WriteStep(p), NoCrash'
  PROVE  Told(c)'
<1> TypeInv /\ p \in Actor /\ p # NoOne /\ Cid(p) = c /\ cfg[p] \in Config /\ p \notin Container
  BY AtWork
<1>a. /\ Story(c, pc[p], cur[p], cfg[p], RulesInHand(p), nodes[c], allowed[c], blkio[c], left[c])
      /\ Copied(p)
  BY AtWork
<1>b. /\ \A l : Goto(p, l) => pc'[p] = l
      /\ \A x : todo' = [todo EXCEPT ![p] = x] => todo'[p] = x
      /\ rcopy \in [Actor -> SUBSET Rule] /\ file \in [Container -> Config]
      /\ flock \in [Container -> Actor \cup {NoOne}]
  BY Reads DEF TypeInv, TypeOK, ProcessesTypeOK, FilesTypeOK
<1>1. CASE LockUdev(p)
  <2>1. /\ UNCHANGED <<file, rules, job, flock, cur, cfg, dirty, rdirty, nodes, allowed, blkio, left>>
        /\ pc[p] = "udev" /\ pc'[p] = "each" /\ rcopy'[p] = rules
        /\ Op(p) = "remove" => todo'[p] = ToRemove(p)
    BY <1>b, <1>1 DEF LockUdev, fileVars, ruleVars, ctrVars, envVars
  <2>2. ToRemove(p) \subseteq cfg[p].devices
    BY DEF ToRemove, FindDeviceByMapping, FindSubPartition
  <2>3. Copied(p)' /\ Listed(p)' /\ RulesInHand(p)' = RulesInHand(p)
    BY <1>a, <2>1, <2>2 DEF Copied, Listed, RulesInHand, HoldsRules, Op, Cid
  <2>4. Story(c, "each", cur[p], cfg[p], RulesInHand(p), nodes[c], allowed[c], blkio[c], left[c])
    BY <1>a, <2>1, StoryStays DEF Handling
  <2> QED
    BY <2>1, <2>3, <2>4, HolderTells
<1>2. CASE EachDone(p)
  <2>1. /\ UNCHANGED <<file, rules, job, flock, todo, cur, cfg, dirty, rcopy, rdirty, nodes, allowed,
                       blkio, left>>
        /\ pc[p] = "each" /\ pc'[p] = IF Op(p) = "add" THEN "quota" ELSE "save"
    BY <1>b, <1>2 DEF EachDone, fileVars, ruleVars, lockVars, ctrVars, envVars
  <2>2. Copied(p)' /\ Listed(p)' /\ RulesInHand(p)' = RulesInHand(p)
    BY <1>a, <2>1 DEF Copied, Listed, RulesInHand, HoldsRules, Op, Cid
  <2>3. Story(c, pc'[p], cur[p], cfg[p], RulesInHand(p), nodes[c], allowed[c], blkio[c], left[c])
    BY <1>a, <2>1, StoryStays DEF Handling
  <2> QED
    BY <2>1, <2>2, <2>3, HolderTells
<1>3. CASE TruncateRules(p)
  <2>1. /\ UNCHANGED <<file, job, flock, todo, cur, cfg, dirty, rcopy, rdirty, nodes, allowed, blkio,
                       left>>
        /\ pc[p] = "save" /\ pc'[p] = "rwrite" /\ rdirty[p] /\ rules' = Saved(rcopy[p])
    BY <1>b, <1>3 DEF TruncateRules, fileVars, lockVars, ctrVars, envVars
  <2>2. RulesInHand(p)' = RulesInHand(p) /\ Listed(p)'
    BY <2>1 DEF RulesInHand, HoldsRules, Listed
  <2>3. Copied(p)'
    BY <1>a, <2>1 DEF Copied, Cid, Saved
  <2>4. Story(c, "rwrite", cur[p], cfg[p], RulesInHand(p), nodes[c], allowed[c], blkio[c], left[c])
    BY <1>a, <2>1, StoryStays DEF Handling
  <2> QED
    BY <2>1, <2>2, <2>3, <2>4, HolderTells
<1>4. CASE UnlockUdev(p)
  <2>1. /\ UNCHANGED <<file, rules, job, flock, todo, cur, cfg, dirty, rcopy, rdirty, nodes, allowed,
                       blkio, left>>
        /\ pc[p] = "rwrite" \/ (pc[p] = "save" /\ ~ rdirty[p])
        /\ pc'[p] = "flush"
    BY <1>b, <1>4 DEF UnlockUdev, AfterRules, fileVars, ctrVars, envVars
  <2>2. RulesInHand(p) = rcopy[p] /\ RulesInHand(p)' = rules /\ Listed(p)'
    BY <2>1 DEF RulesInHand, HoldsRules, Listed
  <2>3. Copied(p)'
    BY <1>a, <2>1 DEF Copied, HoldsRules, Cid
  <2>4. Story(c, "flush", cur[p], cfg[p], rcopy[p], nodes[c], allowed[c], blkio[c], left[c])
    BY <1>a, <2>1, <2>2, StoryStays DEF Handling
  <2>5. Story(c, "flush", cur[p], cfg[p], rules, nodes[c], allowed[c], blkio[c], left[c])
    <3>1. CASE pc[p] = "rwrite"
      <4>1. rules = Saved(rcopy[p]) /\ rcopy[p] \in SUBSET Rule
        BY <1>a, <1>b, <3>1 DEF Copied
      <4>2. \A h \in HostDev : IsDisk(h) => BaseName[h] = h
        BY DEF Undisturbed
      <4>3. Story(c, "flush", cur[p], cfg[p], Saved(rcopy[p]), nodes[c], allowed[c], blkio[c], left[c])
        BY <2>4, <4>1, <4>2, StorySaves
      <4> QED
        BY <4>1, <4>3
    <3>2. CASE pc[p] = "save" /\ ~ rdirty[p]
      BY <1>a, <2>4, <3>2 DEF Copied, HoldsRules
    <3> QED
      BY <2>1, <3>1, <3>2
  <2> QED
    BY <2>1, <2>2, <2>3, <2>5, HolderTells
<1>5. CASE TruncateConfig(p)
  <2>1. /\ UNCHANGED <<rules, job, flock, todo, cur, cfg, dirty, rcopy, rdirty, nodes, allowed, blkio,
                       left>>
        /\ pc[p] = "flush" /\ pc'[p] = "fwrite" /\ file'[c] = cfg[p]
    BY <1>b, <1>5 DEF TruncateConfig, ruleVars, lockVars, ctrVars, envVars
  <2>2. RulesInHand(p)' = RulesInHand(p) /\ Listed(p)'
    BY <2>1 DEF RulesInHand, HoldsRules, Listed
  <2>3. Copied(p)'
    BY <2>1 DEF Copied, HoldsRules, Cid
  <2>4. Story(c, "fwrite", cur[p], cfg[p], RulesInHand(p), nodes[c], allowed[c], blkio[c], left[c])
    BY <1>a, <2>1, StoryStays DEF Handling
  <2> QED
    BY <2>1, <2>2, <2>3, <2>4, HolderTells
<1>6. CASE UnlockConfig(p)
  <2>1. /\ UNCHANGED <<file, rules, nodes, allowed, blkio, left>>
        /\ pc[p] = "fwrite" \/ (pc[p] = "flush" /\ ~ dirty[p])
        /\ flock'[c] = NoOne
    BY <1>b, <1>6 DEF UnlockConfig, MustWrite, Unlocked, ruleVars, ctrVars, envVars
  <2>2. RulesInHand(p) = rules /\ cfg[p] = file[c]
    BY <1>a, <2>1 DEF RulesInHand, HoldsRules, Copied
  <2>3. Story(c, "idle", NoDevice, file[c], rules, nodes[c], allowed[c], blkio[c], left[c])
    BY <1>a, <2>1, <2>2, StoryStays DEF Handling
  <2> QED
    BY <2>1, <2>3, ActorsAssumption DEF Told, Actor
<1> QED
  BY <1>1, <1>2, <1>3, <1>4, <1>5, <1>6 DEF WriteStep

\* NewContainerConfig, under the lock.
LEMMA LoadTells ==
  ASSUME StoreInv, NEW c \in Container, Told(c), NEW p \in Command, Cid(p) = c,
         LockAndLoad(p), flock'[c] # flock[c]
  PROVE  Told(c)'
<1>1. TypeInv /\ p \in Actor /\ p # NoOne /\ p \notin Container
  BY ActorTypes, ActorsAssumption DEF StoreInv, LockInv
<1>2. /\ pc[p] = "lock" /\ flock[c] = NoOne
      /\ UNCHANGED <<file, rules, job, nodes, allowed, blkio, left>>
      /\ cfg' = [cfg EXCEPT ![p] = file[c]] /\ flock' = [flock EXCEPT ![c] = p]
      /\ Goto(p, IF Op(p) = "update" THEN "quota" ELSE "udev")
  BY DEF LockAndLoad, GiveUp, CanLock, fileVars, ruleVars, lockVars, ctrVars, envVars
<1>3. /\ pc'[p] = IF Op(p) = "update" THEN "quota" ELSE "udev"
      /\ cfg'[p] = file[c]
  BY <1>1, <1>2, Reads
<1>4. flock'[c] = p
  BY <1>1, <1>2 DEF TypeInv, TypeOK, FilesTypeOK
<1>5. RulesInHand(p)' = rules /\ Copied(p)' /\ Listed(p)'
  BY <1>2, <1>3 DEF RulesInHand, HoldsRules, Copied, Listed, Op, Cid
<1>6. Story(c, "idle", NoDevice, file[c], rules, nodes[c], allowed[c], blkio[c], left[c])
  BY <1>2 DEF Told
<1>7. Story(c, pc'[p], cur'[p], file[c], rules, nodes[c], allowed[c], blkio[c], left[c])
  BY <1>3, <1>6, StoryStays DEF Handling
<1> QED
  BY <1>1, <1>2, <1>3, <1>4, <1>5, <1>7, HolderTells

-----------------------------------------------------------------------------
(***************************************************************************)
(* Every step, and what the commands agree on in the end                   *)
(***************************************************************************)
\* A command that has the lock of c is past loading the configuration and not
\* yet done.
LEMMA LockedSteps ==
  ASSUME LockInv, NEW p \in Command, NEW c \in Container, flock[c] = p, StepOf(p), ~ Crash(p)
  PROVE  AddStep(p) \/ RemoveStep(p) \/ LimitStep(p) \/ LockUdev(p) \/ EachDone(p) \/ WriteStep(p)
<1>1. HoldsConfig(p) /\ p \in Actor /\ p \notin Container
  BY ActorTypes DEF LockInv, LocksHeld
<1>2. pc[p] \notin {"idle", "resolve", "inspect", "lock"}
  BY <1>1 DEF HoldsConfig
<1>3. ~ (ResolvePaths(p) \/ Inspect(p) \/ LockAndLoad(p) \/ \E r \in Requests : Begin(p, r))
  BY <1>2 DEF ResolvePaths, Inspect, LockAndLoad, Begin
<1> QED
  BY <1>1, <1>3 DEF StepOf, CommandNext

LEMMA AgreeKept ==
  ASSUME Undisturbed, StoreInv, IsolationInv, StoreInv', PidsInv, AgreeInv,
         NEW a \in Actor, StepOf(a)
  PROVE  AgreeInv'
<1> SUFFICES ASSUME NoCrash', NEW c \in Container, Lively(c)'
             PROVE  Told(c)'
  BY DEF AgreeInv
<1>1. TypeInv /\ LockInv /\ LocksHeld
  BY DEF StoreInv, LockInv
<1>2. NoCrash /\ ~ Crash(a) /\ Lively(c) /\ a # c
  BY <1>1, NoCrashBefore, LivelyBefore
<1>3. Told(c)
  BY <1>2 DEF AgreeInv
<1>4. CASE flock[c] = a
  <2>1. a \in Command
    BY <1>1, <1>2, <1>4 DEF LocksHeld, Cid, Actor
  <2>2. CASE AddStep(a)
    BY <1>2, <1>3, <1>4, <2>1, <2>2, AddTells
  <2>3. CASE RemoveStep(a)
    BY <1>2, <1>3, <1>4, <2>1, <2>3, RemoveTells
  <2>4. CASE LimitStep(a)
    BY <1>2, <1>3, <1>4, <2>1, <2>4, LimitTells
  <2>5. CASE LockUdev(a) \/ EachDone(a) \/ WriteStep(a)
    BY <1>2, <1>3, <1>4, <2>1, <2>5, SaveTells
  <2> QED
    BY <1>1, <1>2, <1>4, <2>1, <2>2, <2>3, <2>4, <2>5, LockedSteps
<1>5. CASE flock[c] # a /\ flock'[c] = flock[c]
  BY <1>3, <1>5, OthersTell
<1>6. CASE flock[c] # a /\ flock'[c] # flock[c]
  <2>1. a \in Command /\ LockAndLoad(a) /\ Cid(a) = c
    BY <1>1, <1>2, <1>6, ContentStays
  <2> QED
    BY <1>3, <1>6, <2>1, LoadTells
<1> QED
  BY <1>4, <1>5, <1>6

LEMMA StutterAgrees ==
  ASSUME PidsInv, AgreeInv, UNCHANGED vars
  PROVE  PidsInv' /\ AgreeInv'
<1>1. UNCHANGED <<file, rules, flock, st, inc, nodes, allowed, blkio, left>>
  BY DEF vars, fileVars, ruleVars, lockVars, ctrVars
<1>2. UNCHANGED <<pc, job, todo, cur, cfg, dirty, rcopy, rdirty, crashes>>
  BY DEF vars, procVars, envVars
<1>3. PidsInv'
  BY <1>1, <1>2 DEF PidsInv, Lively, Cid
<1>4. \A p \in Command : /\ RulesInHand(p)' = RulesInHand(p)
                         /\ Copied(p)' <=> Copied(p)
                         /\ Listed(p)' <=> Listed(p)
  BY <1>1, <1>2 DEF RulesInHand, Copied, Listed, HoldsRules, Op, Cid, Saved
<1>5. \A c \in Container : (Told(c)' <=> Told(c)) /\ (Lively(c)' <=> Lively(c))
  BY <1>1, <1>2, <1>4 DEF Told, Lively
<1> QED
  BY <1>2, <1>3, <1>5 DEF AgreeInv, NoCrash

\* At first the containers have what their images have and nothing is configured.
LEMMA InitAgrees ==
  ASSUME Undisturbed, Init
  PROVE  PidsInv /\ AgreeInv
<1>1. \A c \in Container : st[c] = "running" /\ inc[c] = 1 /\ flock[c] = NoOne
  BY DEF Init, Undisturbed
<1>2. \A p \in Command : pc[p] = "idle"
  BY ActorTypes DEF Init
<1>3. PidsInv
  BY <1>1, <1>2 DEF PidsInv
<1>4. ASSUME NEW c \in Container PROVE Told(c)
  <2>1. /\ file[c] = EmptyConfig /\ nodes[c] = ImageNode /\ allowed[c] = {} /\ blkio[c] = {}
        /\ rules = {}
    BY DEF Init
  <2>2. file[c].devices = {} /\ file[c].qos = {}
    BY <2>1 DEF EmptyConfig
  <2>3. left[c].limits = {} /\ left[c].perms = {}
    BY DEF Init, NothingLeft
  <2>4. Story(c, "idle", NoDevice, file[c], rules, nodes[c], allowed[c], blkio[c], left[c])
    BY <2>1, <2>2, <2>3
    DEF Story, HasDevices, TakenOut, NoStrayNode, AllowedTold, RulesTold, LimitsTold, Throttles,
        LooseTold
  <2> QED
    BY <1>1, <2>4, ActorTypes, ActorsAssumption DEF Told
<1> QED
  BY <1>3, <1>4 DEF AgreeInv

LEMMA AgreeInvCorrect ==
  ASSUME Undisturbed
  PROVE  Spec => [](StoreInv /\ PidsInv /\ AgreeInv)
<1> DEFINE Inv == StoreInv /\ IsolationInv /\ PidsInv /\ AgreeInv
<1>1. Init => Inv
  BY InitStore, InitRules, InitAgrees
<1>2. ASSUME Inv, [Next]_vars PROVE Inv'
  <2>1. IsolationInv'
    BY <1>2, RulesStep
  <2>2. ASSUME Next PROVE Inv'
    <3>1. PICK a \in Actor : StepOf(a)
      BY <1>2, <2>2, NothingPlugged DEF StoreInv, LockInv, Undisturbed
    <3>2. StoreInv'
      BY <1>2, <3>1, StepKeepsStore
    <3>3. PidsInv'
      BY <1>2, <3>1, PidsKept DEF StoreInv
    <3>4. AgreeInv'
      BY <1>2, <3>1, <3>2, AgreeKept
    <3> QED
      BY <2>1, <3>2, <3>3, <3>4
  <2>3. ASSUME UNCHANGED vars PROVE Inv'
    BY <1>2, <2>1, <2>3, StutterKeepsStore, StutterAgrees
  <2> QED
    BY <1>2, <2>2, <2>3
<1>3. Inv => StoreInv /\ PidsInv /\ AgreeInv
  OBVIOUS
<1> HIDE DEF Inv
<1> QED
  BY <1>1, <1>2, <1>3, PTL DEF Spec

\* A settled container is nobody's to change: its lock is free.
LEMMA SettledIsFree ==
  ASSUME LockInv, NEW c \in Container, Settled(c)
  PROVE  flock[c] = NoOne
<1>1. flock[c] \in Actor \cup {NoOne} /\ LocksHeld
  BY DEF LockInv, TypeInv, TypeOK, FilesTypeOK
<1>2. ASSUME NEW a \in Actor, flock[c] = a PROVE FALSE
  <2>1. HoldsConfig(a) /\ Cid(a) = c
    BY <1>1, <1>2 DEF LocksHeld
  <2>2. pc[a] \notin {"idle", "done"}
    BY <2>1 DEF HoldsConfig
  <2> QED
    BY <2>1, <2>2 DEF Settled, Cid, Actor
<1> QED
  BY <1>1, <1>2

\* The commands leave a running container, its cgroups, the rules and the
\* configuration in agreement (AddDevice, RemoveDevice and updateQos with their
\* roll backs), however many calls fail, but for what `left` lists, as long as
\* nobody is killed: the devices have numbers of their own that do not change,
\* no command is told to write the file only, disks are called by their own
\* names, and the container is still the one that ran at first.
THEOREM CommandsAgree ==
  ASSUME Undisturbed
  PROVE  Spec => []((NoCrash /\ \A c \in Container : inc[c] = 1) => Agreement)
<1>1. ASSUME StoreInv, AgreeInv, NoCrash, \A c \in Container : inc[c] = 1
      PROVE  Agreement
  <2> SUFFICES ASSUME NEW c \in Container, Settled(c)
               PROVE  LET devices == file[c].devices
                          numbers == {d.num : d \in devices}
                      IN  /\ \A d \in devices : nodes[c][d.path] = d.num
                          /\ \A q \in DevPath : nodes[c][q] \notin {0, ImageNode[q]} =>
                                q \in left[c].nodes \/ \E d \in devices : d.path = q
                          /\ allowed[c] = numbers \cup left[c].perms
                          /\ blkio[c] = {Throttle(q) : q \in file[c].qos} \cup left[c].limits
                          /\ \A q \in file[c].qos :
                                q.num \in numbers \cup left[c].perms \cup left[c].loose
                          /\ RulesOf(c) = {RuleOf(d, c) : d \in {d \in devices : IsDisk(d.host)}}
                                             \ left[c].rules
    BY DEF Agreement
  <2> DEFINE devices == file[c].devices
             numbers == {d.num : d \in devices}
  <2>1. Lively(c)
    BY <1>1 DEF Lively, Settled
  <2>2. flock[c] = NoOne
    BY <1>1, SettledIsFree DEF StoreInv
  <2>3. Story(c, "idle", NoDevice, file[c], rules, nodes[c], allowed[c], blkio[c], left[c])
    BY <1>1, <2>1, <2>2 DEF AgreeInv, Told
  <2>4. \A d \in devices : nodes[c][d.path] = d.num /\ d.num \in allowed[c]
    BY <2>3 DEF Story, HasDevices
  <2>5. \A q \in DevPath : nodes[c][q] \notin {0, ImageNode[q]} =>
           q \in left[c].nodes \/ \E d \in devices : d.path = q
    BY <2>3 DEF Story, NoStrayNode
  <2>6. allowed[c] = numbers \cup left[c].perms
    BY <2>3, <2>4 DEF Story, AllowedTold
  <2>7. blkio[c] = {Throttle(q) : q \in file[c].qos} \cup left[c].limits
    BY <2>3 DEF Story, LimitsTold, Throttles
  <2>8. \A q \in file[c].qos : q.num \in numbers \cup left[c].perms \cup left[c].loose
    BY <2>3 DEF Story, LooseTold
  <2>9. RulesOf(c) = {RuleOf(d, c) : d \in {d \in devices : IsDisk(d.host)}} \ left[c].rules
    BY <2>3 DEF Story, RulesTold, RulesOf
  <2> QED
    BY <2>4, <2>5, <2>6, <2>7, <2>8, <2>9
<1>2. StoreInv /\ PidsInv /\ AgreeInv
        => ((NoCrash /\ \A c \in Container : inc[c] = 1) => Agreement)
  BY <1>1
<1> QED
  BY <1>2, AgreeInvCorrect, PTL

=============================================================================

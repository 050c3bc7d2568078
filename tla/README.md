# A TLA+ model of syscontainer-tools

`syscontainer-tools` changes the devices, bind mounts, network interfaces and
routes of a *running* isulad container; `syscontainer-hooks`, which isulad runs
when a container starts and after it stopped, brings them back at every start.
Both are short-lived processes. What they share is files: per container
`device_hook.json` and a lock file beside it, and for all containers the udev
rules file with a lock of its own. Nothing else coordinates them, and isulad
starts and stops containers whenever it likes.

This directory models the devices, the bind mounts, and the network interfaces and
routes of this program, checks them with TLC and proves their main safety
properties with TLAPS. The rest is inventoried below.

## 1. Inventory

| Component | Source | State | Operations |
|---|---|---|---|
| configuration | `config/` | `device_hook.json`: devices, limits, binds, interfaces, routes; a dirty flag | load, UpdateDevice, UpdateDeviceQos, UpdateBind, UpdateNetwork*, Flush |
| container handle | `container/` | pid, id, lock file | New, Lock, Unlock, GetCgroupPath, CheckPidExist |
| device commands | `device.go`, `libdevice/libdevice.go` | copies in memory | add-, remove-, update-, list-device |
| work in the container | `libdevice/container_work.go`, `cgroup.go`, `devices_unix.go` | /dev, devices and blkio cgroups | mknod, unlink, allow, deny, throttle, bind mounts |
| namespace executor | `libdevice/nsexec/` | a pipe and a child process | one request, one answer |
| udev rules | `pkg/udevd/` | `99-syscontainer-tools.rules`, its lock | LoadRules, AddRule, RemoveRule, ToDisk |
| path commands | `volume.go`, `libdevice`, `utils/transfer.go`, `pkg/mount/` | mounts on the host and in the container, use counts | add-, remove-, list-path |
| interfaces | `network.go`, `libnetwork/` | links on the host and in the container | add-, remove-, update-, list-nic |
| routes | `route.go`, `libnetwork/route.go` | routing tables | add-, remove-, list-route |
| relabelling | `relabel.go`, `utils/selinux.go` | label configuration | relabel, label hooks |
| hooks | `hooks/syscontainer-hooks/` | the configuration they loaded | prestart, poststart, poststop |

How they interact: a device command takes the container lock, loads the
configuration, takes the udev lock, loads the rules, works device by device
(node, cgroup), sets limits, saves the rules, releases the udev lock, writes the
configuration, releases the container lock. A hook loads the configuration
*without* the lock, takes the udev lock for the devices, and takes the container
lock only at its end to write the configuration back if it changed it, which it
does when a device came back under another number. A path command holds the
container lock from load to flush as well, and in between mounts a host directory
twice on the host, from where it propagates to the container, and once inside;
the hooks make and remove the same mounts without any lock. A network command holds
the container lock and works in two network namespaces: it takes an interface of
the host, or makes a pair, on the host, and configures it in the container. The
start hook does the same for all that is configured, and binds the namespace to a
file, by which the stop hook finds it when no process of the container is left.

What is hard here is concurrency (commands among themselves, commands against
hooks, containers against each other), failure (each call into the kernel, each
with a roll back), kills, stale data (the pid read before the lock, the
configuration read without it, numbers that change), and termination (two locks
taken in different orders, and isulad). `PROJECT.json` lists each hazard at its
line with the properties aimed at it.

What makes each component correct:

* configuration: no device and no path mapped twice; no update lost; never seen
  half written; a stopped or killed process never damages another container's;
* device commands: each one atomic; all or nothing per device; success only if
  everything asked for was done; container, cgroups, rules and file agree;
* rules: a container's rules change only for that container; those of a stopped
  container are gone;
* hooks: every configured device is there after a start; no start or stop hangs;
* paths: host data is never removed, shared mounts live as long as they are used
  and no longer; the configuration can always be loaded again;
* interfaces: a running container has those that are configured; the host gets
  its own back under their names and keeps nothing of a stopped container; nobody
  takes an interface from another container;
* routes: what is in the kernel is in the configuration, so that it can be removed.

## 2. Modules

| Module | What it is |
|---|---|
| `HookConfig` | the configuration as a value: devices and limits, and the operations of `config_device.go` as operators |
| `DeviceTools` | the processes: commands, hooks, locks, files, containers, isulad and the kernel as far as the code sees them |
| `DeviceStore` | the abstract specification: a store of (host device, path) pairs per container on which each command takes effect at one instant |
| `MCDeviceTools` | instances for TLC: devices, paths and command lines |
| `DeviceToolsTypes`, `DeviceToolsMappings`, `DeviceToolsStore` | proofs about `DeviceTools`: types; locks, rules, mappings and hooks; the refinement and what is in a running container |
| `PathConfig` | the binds of the configuration as a set, with `bindsInfo` and the operations on it |
| `PathSharing` | add-path and remove-path, the hooks' part in sharing directories, mounts on the host and in containers |
| `PathStore` | the abstract specification: a set of binds per container on which each path command takes effect at one instant |
| `MCPathSharing` | instances for TLC: directories, paths, options and command lines |
| `PathSharingProofs` | proofs about `PathSharing`: types, files and the refinement; the mounts |
| `NetConfig` | nics and routes of the configuration, and the operations of `config_network.go` and `types/network.go` as operators |
| `Network` | add-, remove- and update-nic, add- and remove-route, both drivers, the hooks' part in them, links, namespaces and routes of the kernel |
| `NetStore` | the abstract specification: a set of nics and a set of routes per container on which each command takes effect at one instant |
| `MCNetwork` | instances for TLC: nics, routes and command lines |
| `NetworkStore`, `NetworkLinks`, `NetworkAgreement`, `NetworkHome` | proofs about `Network`: types, names and the refinement; whose interfaces move; what is in a container's namespace; what comes back to the host |

`DeviceTools`, `PathSharing` and `Network` share the file, its lock and the hooks,
each with its own part of the configuration. All have the same skeleton: lock,
load, work, flush, unlock. What a half written file or a start hook's write-back do
is the same for all parts and modelled in `DeviceTools`.

### State and code: devices

* `file[c]`, `torn[c]` are `device_hook.json` and whether it is between
  `os.Create` and the end of `Encode` (`Flush`). Truncating is one action,
  completing another. A configuration that a kill left torn does not parse, and
  stays so.
* `rules`, `rulesTorn` are the rules file. Saving applies `BaseName`, for
  `ToUdevRuleString` writes only the last element of the name and `loadRules`
  puts `/dev` before it.
* `flock[c]`, `udevLock` are the holders of the two file locks. The kernel
  releases a lock when its holder dies (`LocksReleased`).
* `st`, `inc`, `nodes`, `allowed`, `blkio` are a container: what isulad does
  with it, how often it was started (this stands for its pid), the nodes in its
  `/dev`, its devices and its blkio cgroup.
* `left[c]` records what calls that failed have left behind in the container, its
  cgroups and the rules, and is corrected when a later call puts it right. It is
  history: no action looks at it, only `Agreement` does.
* `pc`, `job`, `todo`, `cur`, `quota`, `cfg`, `dirty`, `rcopy`, `rdirty`, `err`
  are a process. A step of `pc` is a stretch of the function between two points
  where others can see or disturb it: a lock, a file, a call into the kernel.

| Code | Actions |
|---|---|
| `device.go` up to `libdevice` | `Begin`, `ResolvePaths` (its own critical section), `Inspect` |
| `AddDevice` | `LockAndLoad`, `LockUdev`, `RecordDevice` or `RefuseConflict` or `RefuseUnknown`, `Mknod`/`MknodFails`, `Allow`/`AllowFails`, `EachDone`, `SetLimit`/`SetLimitFails`/`LimitsDone` |
| `RemoveDevice` | `LockAndLoad`, `LockUdev` (with `ToRemove`), `Unrecord`, `Unlink`/`UnlinkFails`, `Deny`/`DenyFails`, `ClearLimits`/`ClearFails` |
| `UpdateDevice` | `LockAndLoad`, `SetLimit`/`SetLimitFails`/`LimitsDone` |
| deferred calls of all | `TruncateRules`, `UnlockUdev`, `TruncateConfig`, `UnlockConfig` |
| prestart hook | `ReadConfig`, `PrepareFails`, `HookLockUdev`, `Install`/`InstallFails`, `HookDevicesDone`, `HookLimits`/`HookLimitsFail`, `HookLock`, `HookReturns` |
| poststop hook | `ReadConfig`, `HookLockUdev`, `WithdrawRule`/`WithdrawFails`, `HookDevicesDone`, `HookReturns` |
| isulad, kernel (external) | `StartContainer`, `StopContainer`, `AbortStart`, `Crash`, `Plug` |

### State and code: paths

* `file[c]` is the array of binds in `device_hook.json`, `flock[c]` its lock.
* `mid[c][h]`, `master[c][h]` are the mount points of directory `h` below
  `/.sharedpath/midpath/<id>` and `/.sharedpath/master/<id>`: not there, an empty
  directory, or mounted with options.
* `base[c]`: has `AddTransferBase` bound `master/<id>` to `/.sharedpath` in the
  container? `slave[c]`: the directories that show there. The bind is recursive
  (`rslave` is `MS_SLAVE|MS_REC`, and `pkg/mount` keeps the `MS_REC`), so a mount
  left below `master/<id>` shows at once (`MountedBelow`), and one that is made later
  propagates.
* `guest[c][q]` is the stack of mounts at a path in the container; the visible one
  is first, and unmounting takes it away. One whose remount read only failed is
  marked (`half`), as `Made` leaves it.
* `lost` is the set of host directories whose files a `RemoveAll` has deleted.
* `disturbed[c]` only records what has happened: a start or stop overlapped a
  command, a hook met a failure, somebody was killed. Several properties except
  what comes after it; the divergences show that they have to.
* `pc`, `job`, `todo`, `cur`, `cfg`, `dirty`, `err` are as above.

| Code | Actions |
|---|---|
| `volume.go` up to `libdevice` | `Begin` |
| `AddPath` | `LockAndLoad`, `RefuseBind` or `RecordBind`, `PrepareMid`, `PrepareMaster`, `PrepareFails`, `AddBind`/`AddBindFails`, `RollBack` with `ReleaseMid`, `ReleaseMaster`, `EachDone` |
| `RemovePath` | `LockAndLoad`, `NotConfigured` or `Unrecord`, `RemoveBind`/`RemoveBindFails`, `ReleaseMid`, `ReleaseMaster`, `EachDone` |
| deferred calls of both | `Flush` |
| prestart hook | `ReadConfig`, `SharePath`, `HookFails`, `HookBind`/`HookSkips`, `PrepareMid` to `AddBindFails`, `HookBindsDone`, `HookReturns` |
| poststop hook | `ReadConfig`, `HookBind`/`HookSkips`, `ReleaseMid`, `ReleaseMaster`, `HookBindsDone`, `RemoveMidDir`, `RemoveSpecDir`, `HookReturns` |
| isulad, kernel (external) | `StartContainer`, `StopContainer`, `AbortStart`, `Crash` |

### State and code: interfaces and routes

* `file[c]` are the arrays of interfaces and routes in `device_hook.json`,
  `flock[c]` its lock.
* `link[l]` is where interface `l` is, under which name, with which address, and
  whether it is up. The links are the physical interfaces of the host and the ends
  of pairs. A namespace is that of the host, or the `i`-th one of container `c`.
* `rtable` are the kernel's routes; those over a link go when it is set down,
  moved or deleted.
* `netns[c]` is what is mounted on `c`'s file below the `netns` directory, the
  last mount first; the empty file itself is the 0 at the end.
* A namespace lives (`NsAlive`) while its container runs, while it is mounted on
  the file, and while a process has it open between the two functions of
  `NsInvoke`. Then `NamespaceGone` deletes its pairs and gives physical interfaces
  back, under the names they had there.
* `disturbed[c]` records what nothing puts right: what it does for paths, and that
  somebody found a link by its name on the host that is not the one he meant. The
  drivers know a pair by its name on the host only, so one container can delete the
  pair of another (`Victims`), or move the wrong interface: the driver looks an
  interface up twice, in `TakeEth` and again in `JoinHost`, and takes what has the
  name then (`ToJoin`). The container that loses it (`Owners`) is disturbed.
* `pending[c]` records what only the next start puts right: a change of the
  configuration only.
* A new pair is one of the links that do not exist and that no process still has
  in hand (`FreePairs`): the kernel does not use the index of an interface again.
* `st`, `inc`, `pc`, `job`, `mem`, `err` are as above, a process's memory in one
  record.

| Code | Actions |
|---|---|
| `network.go`, `route.go` up to `libnetwork` | `Begin` (with `Valid`) |
| `AddNic`, `DelNic`, `UpdateNic` | `LockAndLoad`, the action of the same name, the drivers' steps |
| `AddRoutes` | `LockAndLoad`, `RefuseRoute` or `AddRoute`/`AddRouteFails` for each, `RoutesDone` |
| `DelRoutes` | `LockAndLoad`, `TakePattern`, `DelRoute`/`DelRouteFails` for each match, `RoutesDone` |
| deferred calls of all | `Flush` |
| `CreateIf` | `CreatePair`/`CreatePairFails`, `TakeEth`/`TakeEthFails` |
| `JoinAndConfigure` | `JoinHost`/`JoinHostFails`, `JoinCtr`/`JoinCtrFails` (with `TakeBack`) |
| `DeleteIf` | `DeletePair`/`DeletePairFails`, `DeleteEth`/`DeleteEthFails`, `NameEth`/`NameEthFails`/`EthNotFound` |
| `Configure` | `ConfigureHost`/`ConfigureHostFails`, `ConfigureCtr`/`ConfigureCtrFails` |
| prestart hook (`UpdateNetwork`) | `ReadConfig`, `MountNetns`, `StartFails`, `HookNic` and the drivers' steps, `HookNicsDone`, `HookRoute`/`HookRouteFails`, `HookRoutesDone`, `HookReturns` |
| poststop hook (`RemoveNetworkDevices`) | `ReadConfig`, `OpenNetns`, `HookNic` and the drivers' steps, `HookNicsDone`, `UnmountNetns`, `HookReturns` |
| isulad, kernel (external) | `StartContainer`, `StopContainer`, `AbortStart`, `NamespaceGone`, `Crash` |

### Abstractions: devices

* A device number stands for (major, minor, type), and a name for a path. The
  two JSON arrays are sets; of the five limit arrays, which all operations treat
  alike, one is modelled. The two exceptions of the weight array, that it is not
  looked at by `checkDevice` and needs a scheduler with cfq, are left out.
* Devices of one command line are handled in any order; `ArgumentsAssumption`
  excludes lines that name a device twice (the code removes it once and reports
  a failure).
* A call into the container through `nsexec` is one step that succeeds or fails.
  A failing `doAddDevice` may leave the old node removed or the new one made
  (`HalfMade`). File operations of the program itself do not fail; a kill
  during one is modelled.
* Parsing the command line and `container.New` are one step, as nothing they read
  is protected by a lock.
* The blkio cgroup has one limit per device. Pids are not reused while a command
  runs; container ids do not collide in their first 8 characters.
* The parts of the hooks that do not touch devices are ways to fail only.
* `isula inspect`: whether it waits while isulad starts or stops the container is
  the constant `BlockingInspect`; runs exist for both.

### Abstractions: paths

* What is shared are directories; for a file the mount points are files, and
  nothing else differs. Options are compared as a whole, and all the model knows
  of them is whether they contain "ro" (`Writable`).
* `bindsInfo` is what the array says: a host path is in use while a bind has it.
* The binds of a command line are handled in any order. `LockAndLoad` reads the
  file, and `Flush` writes it and releases the lock, in one step: nobody else can
  use the file in between but a hook's unlocked read, which `DeviceTools` has.
* Making or removing one mount point, directory and mounts together, is one step.
  A failure may leave the directory, or the mount that was to be remounted read
  only (`HalfPrepared`). Unmounting on the host uses `MNT_DETACH` and does not
  fail.
* `SharePath` is one step; that the tmpfs of all containers is made without a lock
  (`PrepareHostPath`) is not modelled (see "Not modelled").
* `isula inspect` waits while the container is started or stopped.
* A read only mount protects what is below it from `RemoveAll`.

### Abstractions: interfaces and routes

* Of a nic the model has what tells nics apart, and `qlen`, for which zero is a
  value. mtu, bridge and hardware address are settings like the address: compared,
  merged, and set in the same place. A route's `src` is compared like its gateway,
  which is named by the address of the interface on whose network it is. The two
  arrays are sets: that UpdateNetworkRoutes removes the first route that matches a
  route with empty fields makes no difference, as DelRoutes goes through the matches
  in the order of the array.
* The nics and routes of a hook, and the routes of a command line, are handled in
  any order. Each of a driver's two functions is one step, for the interface is
  nobody else's while it has a random name; `Tmp` stands for these names, which do
  not clash. A veth whose name on the host is left to chance is not among the
  command lines.
* A step that fails does so before or after any of its calls, where it makes a
  difference. What the code does to recover is part of the step and does not fail
  as well; the exceptions are the cases in which it cannot work, such as a name that
  is taken or an interface looked for in the wrong namespace.
* Whether the container runs and the work on a route are one step.
* The other parts of the hooks are ways to fail. A start whose hook failed is
  taken down with or without a poststop hook.
* `LockAndLoad` and `Flush` are single steps, as for paths.

## 3. Properties and runs

Safety:

* `LocksHeld`: a lock is held by exactly the process between taking and
  releasing it.
* `TornOnlyWhileWritten`: a half written file exists only while its writer holds
  its lock, or after a kill.
* `WellFormed`: neither the file nor any copy in memory maps a name twice.
* `Agreement`: once the commands on a container are done, its `/dev`, its cgroups and
  the rules have what the configuration says and nothing else: no node but those of
  the image, no permission, no limit, no rule more, also after calls that failed and
  were rolled back. What the code does not take back is excepted, each at the very
  path, number, limit or rule that `left` lists, and only until something puts it
  right: a node of which the owner could not be set, or which the roll back of a
  refused permission could not remove; the permission and the configured limit of a
  device that was removed and could not be denied (`DenyFails`); a limit that could
  not be cleared (`ClearFails`); the configured limit of a device that add-device
  refused or rolled back, for `updateQos` follows all the same (`IsLoose`); the rule
  of a disk whose node could not be removed, when lsblk then fails (`UnlinkFails`).
* `StartInstallsAll`: when the start hook has passed the devices, all of them are
  there under the number the hook has found. `Lifecycle` checks it against concurrent
  commands and a node of the image in the way, `Neighbours` with a device that
  changes its number.
* `RulesIsolated`, `RulesWithdrawn` (action properties): nobody changes the rules
  of another container; a stop removes its own.
* `PathsAgree`: when nothing overlapped, a running container shows every
  configured path, once; nothing is mounted at its other paths; the host mounts of a
  directory are there with its options exactly while a bind uses it. All of it holds
  after failed calls and their roll backs as well, with one exception: a bind of
  which the remount read only fails stays mounted, at the very path it was made for
  (`HalfMade`).
* `SharedPathsRemoved`, `HostDataKept`: in the same circumstances a stop takes all
  mounts away, and never deletes files of the host.
* `SharedWhileUsed`: at every moment, also in the middle of a command, a directory
  in use is mounted and has reached the container.
* `FilesLoad`: whatever is in the file or in a process's memory can be loaded
  again; otherwise every later command and every start would fail.
* `PathStoreRefined`: `PathSharing` implements `PathStore`, with hooks, failures
  and kills. A command takes effect when it flushes.
* `StoreRefined`: `DeviceTools` implements `DeviceStore`. A command takes effect
  when it truncates the file; the locks, the copies, the hooks and the rules are
  stutters. This is where lost updates, stale copies and false success show.

* `NicsAgree`: when nothing overlapped, a running container has exactly the
  interfaces that are configured, under their names, with their addresses, up, the
  right physical interface or a pair with its other end up on the host; also after
  an addition or a removal that failed at any step and was rolled back.
* `RoutesAgree`: in the same circumstances the kernel has no route that is not in
  the configuration.
* `HostClean`: in the same circumstances the host has its physical interfaces, under
  their names, or a running container has them, and no pair is left of another.
* `StartInstallsNetwork` (action property): a start that succeeds has brought in all
  it read.
* `OthersKept` (action property): a physical interface leaves a container that starts
  or runs only by a step of a process that works for this container. Of pairs this
  is not true, for they are deleted by their names on the host.
* `NicsDistinct`: no name or address is configured twice in a container.
* `NetStoreRefined`: `Network` implements `NetStore`; a command takes effect when it
  flushes.

Liveness, under weak fairness of each process that was started: `CommandsFinish`,
`StartsAndStopsFinish`, `PathCommandsFinish`, `NetCommandsFinish`; and, with weak
fairness of the kernel's `NamespaceGone`, `NicsComeHome`: a physical interface in a
stopped container, where an add-nic that overlapped the stop has put it, gets back to
the host, unless a kill has left the namespace mounted.

| Run | Question | Size (distinct states) |
|---|---|---|
| `Rivals` | two commands, a disk, its partition and a character device, two paths, `--follow-partition` both ways, limits, two failing calls | 620 thousand |
| `Lifecycle` | two commands while the container starts and stops, `--force`, a node of the image in the way, one failing call | 580 thousand |
| `Crash` | one kill at any step, `isula inspect` does not wait | 170 thousand |
| `Neighbours` | two containers that start and stop, the same names, a device that vanishes or is renumbered once | 1.2 million |
| `Paths` | two path commands, two directories, two paths, stop and start, one failing call | 1.8 million |
| `PathCrash` | one kill at any step of a command or hook | 290 thousand |
| `Nics` | two commands on a physical interface, a veth and their routes while the container stops and starts, `--update-config-only`, one failing call | 2.3 million |
| `NicCrash` | two containers and a command that want the same name on the host, one kill at any step, with the kernel's clean up | 150 thousand |
| `LostUpdate`, `AliasRule`, `StopLeak`, `StartBlocked` | see "Divergences" | |

In `Neighbours` the two commands are alike and so are the two containers, and it
checks safety only, which makes the symmetry sound.

Bounds. `MaxStarts` counts starts, `MaxCrashes` kills, `MaxFaults` failing calls
and `MaxPlugs` changes of a device number (one in `Neighbours` only). A command is
one-shot: two processes
are one pair that compete, and every order of two commands after each other. One
start and one stop beside two commands puts a command before, inside and after
each of them. One failing call shows every roll back, two a call that fails after or
within one; in `Rivals`, for the exceptions of `Agreement`, two are allowed. No
property counts, so more processes add further pairs and no new kind of conflict.
Where the number of processes does matter, for the locks and the rules, the property
is proved. Two directories and two paths are enough for paths that compete for a directory and
directories that compete for a path; `MaxPathNum` is 1, so that the limit is met.
One physical interface and two pairs are one of each kind beside one that is left
over; with two containers the physical interface is what they compete for.

Every run sets `CHECK_DEADLOCK FALSE`: the system may rest, when all commands have
been given and isulad starts nothing more. A process stuck on a lock is a violation
of the liveness properties, not a deadlock of the model.

Fairness. `Fairness` has one weak fairness condition per process and none for the
environment: nobody has to give a command, start or stop a container, fail, or be
killed. In `Network` the kernel's clean up of a namespace nobody uses is fair as
well: it is a work queue of the kernel that waits for nobody. Weak fairness is what
a preemptive scheduler gives a runnable process. It
is enough for waiting on a lock as well: a blocking `flock` is enabled
continuously once the commands and hooks that can still ask for it have ended,
and there are finitely many of these in a behaviour. No fairness among waiters,
which Linux does not promise, is assumed.

`StoreRefined` is stated for instances without `Plug`: with it the hooks do write
the configuration, and overwrite what commands saved. `LostUpdate` shows it.

### Divergences between documents and code

* `LostUpdate`. "the hook will make sure the resources you added to container
  will be persistent after restart" (`hooks/syscontainer-hooks/README.md:14`).
  The hook writes back what it loaded without the lock; an add-device that saved
  in between and reported success is undone.
* `AliasRule`. "Remove udev rules" at a stop (`README.md:19`). A disk added by a
  link below a directory of `/dev` is not found again under the saved base name.
* `StopLeak`. "RemoveSharedPath will remove shared path after container stop"
  (`hooks/syscontainer-hooks/poststop.go:124`). The stop hook works on the binds it
  loaded without the lock; an add-path or remove-path under way at that moment
  leaves its mounts on the host. In such a state `RemoveAll` in the stop hook may
  also go through the mount and delete the user's files, which is why
  `HostDataKept` excepts it.
* `StartBlocked`. The same promise as for `LostUpdate`. remove-nic leaves the
  routes over the interface configured, and the next start, which adds all routes,
  fails.

Seen from the code, or with a run that is not kept:

* "Insert block devices added by syscontainer-tools into a container when the
  container restarts" (`README.md:17`). A hook that reads the file while a command
  rewrites it cannot parse it, ends with status 0, and the container runs without
  its devices.
* "do not need to DeleteIf here, if CreateIf failed, there are no ifs"
  (`libnetwork/interfaces.go:85`). `CreateIf` of a veth (`veth/driver.go:85`)
  returns an error after the pair was made when the features of an end cannot be
  set. The pair stays (`CreatePairFails`).
* "Configure is doing cleanup within itself" (`libnetwork/interfaces.go:105`).
  Neither driver's `Configure` does: an update that fails leaves the interface down
  (`ConfigureHostFails`, `ConfigureCtrFails`). An update that succeeds has set the
  interface down in between, and the routes over it are gone.
* "if device dose not exist on host, ignore it" (`veth/driver.go:100`), for nics
  that are in the configuration only. If another container has meanwhile got a pair
  under that name on the host, remove-nic deletes this pair. It does not take
  `--update-config-only`: when two stopped containers are given the same name on the
  host, the start of the second fails because the name is taken, and the stop hook of
  that failed start deletes the pair of the first. The model has it (`Victims`);
  `NicsAgree`, `RoutesAgree` and `StartInstallsNetwork` except the container that was
  robbed, and `OthersKept` is about physical interfaces.
* "0 means keeping old value" (`network.go:226`), of `qlen`. Zero is set when
  something else changes as well, and when nothing else does `IsSameNic` takes it
  for the old value (`NetConfig!Merged`, `IsSameNic`).
* When `DeleteIf` of an eth fails after renaming it, the recovery looks for the
  random name on the host while the interface still is in the container
  (`eth/driver.go:88`): it stays there under this name (`DeleteEthFails`).
* An interface that an add-nic brings into a container which has stopped meanwhile
  comes back to the host when the namespace ends, but under its name in the container
  (`NamespaceGone`); `NicsComeHome` says that it comes back, `HostClean` excepts it.
* A route whose interface is gone cannot be removed while the container runs
  (`libnetwork/route.go:215`).
* `hooks/syscontainer-hooks/README.md:64` gives as an example `/dev/zero` added at
  two paths. `getConflictIndex` (`config/config_device.go:104`) refuses the second.
* `MaxPathNum` "is max path number" (`config/config_device.go:33`). `CheckPathNum`
  compares with `>` and is called once per command, before it adds anything, so a
  container may get one path more than that, and the rest of the command's
  besides. `CheckNicNum` compares in the same way, before one nic is added.
* `test/path_many_test.sh` (lines 69-75) adds several host paths at one path of the
  container and expects success; `bindsInfo.add` (`config/config.go:137`) refuses
  the second.

## 4. Proofs

All are for every value of the constants that satisfies the named assumptions:
actors are distinct (`ActorsAssumption`, `PathActorsAssumption`), the functions over devices and names
have their types and taking the base name twice is taking it once
(`DevicesAssumption`), commands are of the right form and add-device names host
devices (`RequestsAssumption`), partitions have host devices as parents
(`NamesAssumption`); for paths, the default options are options
(`PermsAssumption`), and command lines and the first configurations are of the
right form, the latter such that they can be loaded (`PathsAssumption`); for the
network, names, addresses and links are of their kinds and the kernel's random
names are nobody's (`NetActorsAssumption`, `NetNamesAssumption`,
`LinksAssumption`), command lines are of the right form, and no first
configuration has a name or an address twice (`NetRequestsAssumption`). There are
any number of commands, containers, devices, directories, interfaces, kills and
failures.

Three theorems have hypotheses besides, as `ASSUME ... PROVE`, and each is needed:
`StoreImplemented` and `StopRemovesRules` that no device comes or goes (`MaxPlugs`
= 0), without which the run `LostUpdate` refutes the first, and a disk that is away
when the stop hook looks at it and back before the hook ends, the second; and
`StopRemovesRules` that a disk's name is what follows `/dev/`, which the run
`AliasRule` shows to be necessary. Those of `CommandsAgree` are listed with it. No
theorem needs one of the other bounds.

* `TypeCorrect`: `Spec => []TypeOK`. `TypeOK` is not inductive: that the
  configuration written has host devices with real names follows from where a
  process is, so `TypeInv` adds `DevicesKnown`: from the step after
  `ResolvePaths` on, the devices in hand are full mappings.
* `LocksAreHeld`: `Spec => []LocksHeld`. `LockInv` adds to it that a hook is at
  work exactly while its container is being started or stopped (`HookBusy`),
  which fixes the step it reaches after saving the rules.
* `NothingTornUnlocked`: `Spec => []TornOnlyWhileWritten`, from `LockInv`: who
  completes or truncates a file holds its lock, so no other process can be there.
* `MappingsWellFormed`: `Spec => []WellFormed`. `MappingInv` adds that what an
  installing hook has left to handle is part of its copy (`Installing`), for it
  replaces a mapping by a renumbered one, and this must not bring in a name.
* `OthersRulesSurvive`: `Spec => RulesIsolated`. `RulesInv` says that whoever
  holds the rules' lock has, for every other container, exactly the rules in the
  file; it needs `LockInv`, and that saving a saved rule changes nothing.
* `StartBringsAllBack`: `Spec => []StartInstallsAll`. `InstallInv` says that the
  start hook has installed what it no longer has to do (`Installed`), in which step
  a container is while its hook is at one (`HookPhase`), and that a command which
  runs while a container starts has the pid of an earlier start (`PidsPast`): all
  its calls into the container fail, so it cannot take a node away.
* `StopRemovesRules`: `Spec => RulesWithdrawn`. `WithdrawInv` says that a stop hook
  that has met no error has in its copy of the rules no rule of a disk it has gone
  through, and that only it can write the file while it holds the lock.
* `StoreImplemented`: `Spec => StoreRefined`, the refinement. `StoreInv` has three
  parts. Nothing is renumbered, so that the hooks' copies are never dirty and they
  write nothing. A command holds the container's lock from load to flush, so the
  file is what it has loaded. And its copy is at each step the file with what the
  command has done so far, where what it still has to do is known: whether the
  device in hand is in the copy already, and whether a failure takes it out again.
  `TruncateConfig` is then an `Apply`, or an `Abandon` when nothing has changed.

* `CommandsAgree`: `Spec => []Agreement` in the circumstances the property is about.
  `AgreeInv` says of every container that has been running all the time that its
  nodes, its permissions, its limits and the udev rules tell the story (`Story`) of
  a configuration: the file, while nobody has the container's lock; the memory of the
  command that has it, while one has, but for the device in hand. A device is in
  memory before it has a node and before its number is allowed, and out of memory
  before the node and the permission go (`HasDevices`); it may go without harm since
  no other mapping has its path or its number (`TakenOut`). The other direction, that
  nothing else is there, is `NoStrayNode`, `AllowedTold`, `LimitsTold`, `LooseTold` and
  `RulesTold`; they name what `left` lists, and each failing call puts there exactly
  what it leaves, so no bound on the failures is needed. The rules meant are those
  of the file, or the holder's copy of them while it has their lock (`RulesInHand`), and
  what it has in memory is what is on the disk unless it is still to write it
  (`Copied`). `RemoveDevice` takes what it removes from its configuration (`Listed`),
  so that a roll back puts back only what was there. Each call into the kernel and
  each operation of the configuration is a lemma about `Story` alone (`StoryRecords`
  to `StorySaves`). `StoreInv` gives that the memory is what it is taken for;
  `IsolationInv` that a step for another container leaves the rules alone; `PidsInv`
  that a command's calls reach the container it has read the pid of.

  The theorem asks for `Undisturbed` of the constants and, of the state, that nobody
  has been killed (`NoCrash`) and no container has been started again; the number of
  failing calls is not bounded. TLC refutes `Agreement` on the instance of
  `Rivals` when one of these is given up. A kill leaves nodes that no file records.
  A start hook that reads the file while a command writes it ends with success and
  brings no device in.
  `--update-config-only` records a device without its node. Two host devices of one
  number share a permission, and removing one denies it to the other. A disk named by a
  link loses the name when its rule is saved (`AliasRule`), and a device that comes back
  under another number keeps the node of the old one.

* `PathTypesCorrect`: `Spec => []PathTypeOK`, which is inductive.
* `FilesAlwaysLoad`: `Spec => []FilesLoad`. `LoadInv` adds that while remove-path
  unmounts a bind, its copy could be loaded with that bind in it as well, for a
  failure puts it back without asking.
* `PathStoreImplemented`: `Spec => PathStoreRefined`, the refinement. `StoreInv`
  says that a command holds the lock from load to flush, and what its copy is
  meanwhile: for add-path, the file and part of what was asked for; for
  remove-path, the file without part of what was meant. Unless the command has met
  an error, all that is not done yet is still left to handle. Flush is then an
  `Apply`, the end of a command without flush an `Abandon`, `Begin` a `Submit`, and
  everything else a stutter, hooks and mounts included.
* `UsedPathsStayShared`, `StopRemovesSharedPaths`, `MountsAgree`,
  `SharedDataSurvives`: `Spec => []SharedWhileUsed`, `[]SharedPathsRemoved`,
  `[]PathsAgree` and `[]HostDataKept`, all from one invariant. `MountInv` says of
  every container that is not disturbed whose the mounts are: of a quiet one, they
  are those of the file; while a command works, they are those of its copy except
  for the one bind in hand, and step by step how far that bind is (`Progress`);
  while the start hook works, those of the binds it has gone through; while the stop
  hook works, they are among those it still has to release. A container that is
  disturbed is left out because the divergence `StopLeak` makes it false there, not
  because of the proof. What a failing call leaves in the container is part of the
  bind: its own path may have a half made mount, whether or not the bind is configured
  (`HalfMade`), and no other path has one. `HostDataKept` follows as the stop hook's `RemoveAll` comes
  when nothing is mounted below it any more.

* `NetTypesCorrect`: `Spec => []NetTypeOK`. `NetInv` adds to it that a command
  that runs was asked something the command line allows (`Asked`), for only then is
  the nic that add-nic puts into the file a full one, and that a hook at work on the
  network has bound or found the namespace's file (`NetnsFound`), for the driver's
  steps and the unmounting look at its first mount.
* `NicsAlwaysDistinct`: `Spec => []NicsDistinct`. The names are compared with what
  is in memory, which is the file only because of the lock, and update-nic merges a
  nic before it compares it: so it is proved together with the next one.
* `NetStoreImplemented`: `Spec => NetStoreRefined`, the refinement. `StoreInv` is
  `NicsDistinct` and, for every command, `CommandInv`: it holds the lock from load
  to flush, and its memory is at every step what the file is, with what the command
  has done so far (`Served`). add-nic and remove-nic change the memory first and take
  that back when the driver fails; update-nic changes it last; the route commands
  change it one route at a time, and what they still have to do is part of the
  invariant as long as they have met no error. That names are distinct is what makes
  the interface that remove-nic finds by its name (`FindInterfaceByName`) the only
  one. Drivers, hooks, namespaces and kernel are stutters.

* `InterfacesKept`: `Spec => OthersKept`. A driver works on an interface in two
  functions, on the host and in the container, and in between knows it by a random
  name. `LinksInv` says that it is then where the driver has put it, under that
  name, and in the hands of no other process (`CarriedAlone`); that a veth driver
  works on a pair it has made and nobody else knows (`PairsFresh`), so that its roll
  back never deletes a physical interface or another's pair; that hooks create
  interfaces only in a container that starts and delete them only in one that stops
  (`HookStages`); that a route goes over a link of its namespace, and no two to one
  destination (`RoutesPlaced`); and that nothing is in the namespace of a start to
  come (`NoFuture`). From this the step that moves a physical interface finds it on
  the host, in its own container's namespace, or in the hands of the process that
  makes it.

* `NicsAlwaysAgree`, `RoutesAlwaysAgree`, `StartsInstallNetwork`:
  `Spec => []NicsAgree`, `[]RoutesAgree` and `StartInstallsNetwork`, all from one
  invariant. `Own(c)` speaks of a container that is started or runs, that nothing has
  disturbed and for which nothing is pending (`Active`). It says that no command was
  under way when it was started (`Apart`), so that one process at a time works on it
  (`OnlyWorker`), and what is in its namespace while that process works (`InOrder`):
  the links there stand for the nics that the process has in memory and has been
  through (`Due`), one for each and no name twice, except the link that it is
  carrying at the moment (`Fits`); every kernel route there is one of the routes in
  its memory (`Covered`). When nobody works on it, the same holds with the file in
  place of the memory (`AtRest`). Of a start hook, `HookMem` says that the nics and
  routes it still has to go through are the rest of what it read. The proof has three
  parts. A step for another container, and `NamespaceGone`, change no link in the
  namespace and no other end of a pair that stands there (`Elsewhere`,
  `GoneElsewhere`, `SettledStays`): this is where `LinksInv` is needed, and where a
  step that would take the pair of another container marks that container
  (`Owners`). Each step of the drivers changes `Due` as it changes the links, also
  where it fails and is rolled back (`CreateFits` to `DelHostFits`, `ReportDue`). And
  each step of a command or a hook leaves the namespace alone or changes memory, file
  and routes alike (`CommandsOwn`, `HooksOwn`). That names in a container are distinct
  (`NicsDistinct`) makes the link that a driver finds by name the one of its nic.

* `HostAlwaysClean`: `Spec => []HostClean`. `Own` speaks of containers that start or
  run, and asks that each nic has its link. What comes home is a question of the
  other direction, that each link has its nic, and of stops and failed starts as
  well. `Tidy(c)` says it of every container that nothing has disturbed: links are in
  the namespace of its last start only, and only while that is mounted on the netns
  file (`Current`), which at each step of the hooks is mounted on it or not
  (`NetnsFits`); each link there carries the name of a nic in hand, by whose names on
  the host a driver finds it too (`Belongs`, `Accounted`): of the file, of a
  command's memory, or, once the stop hook has read the file, of the nics it still
  has to take out (`Held`). So nothing is left in the namespace when the
  stop hook has gone through them, the kernel never has to clean up after an
  undisturbed container (`GoneTidy`), and what a driver takes out of a container is
  the interface its nic names (`Returns`). `Held` keeps what `Due` gives up: an aborted
  start has brought in a part, and the stop hook goes by the file, so the file bounds
  what is there throughout the start. `HomeInv` then speaks of all links, while no
  container is disturbed: each is in a container, or in some process's hands on the
  host (`Underway`), or at home. Its proof has one case per step of the drivers and of
  update-nic.

The attempt to prove `OthersKept` as it was first stated, for all links, failed, and
TLC then found the pair that the stop hook of another container deletes; this is how
the divergence about `veth/driver.go:100` and the notes in `Owners` came about. An
inductive invariant for `NicsAgree` needs that a new pair is not one that some process
still has in hand, which the kernel guarantees and the model did not say at first
(`FreePairs`); and that a nic's link is named once in its namespace is now stated as
such (`InPlace`) instead of by counting links.

Every safety invariant and every safety action property of a passing run is now the
conclusion of a theorem. Only model-checked: the liveness properties (`CommandsFinish`,
`StartsAndStopsFinish`, `PathCommandsFinish`, `NetCommandsFinish`, `NicsComeHome`),
which are beyond the prover, for it has no rules for `ENABLED`.

## 5. Not modelled, and what is left

* The tmpfs at `/.sharedpath` that all containers share (`PrepareHostPath`,
  `utils/transfer.go:173`). Two hooks that start at the same time may both find it
  missing and mount it twice, the second over the directories of the first.
* The child process in a container's mount namespace (`libdevice/nsexec/`): a call
  of it is one step. There is no timeout in it; a child that hangs keeps its parent
  and both locks.
* Relabelling (`relabel.go`, `utils/selinux.go`), user namespaces, sysctls and kernel
  modules in the hooks: what they write nothing in the tools reads again.
* Bridges: one call that may fail, in `Network` a part of the step on the host.
* Parsing, lists of mount options, logging, packaging, the shell wrapper that udev
  calls (it only calls add-device and remove-device).

Left to do, in this order:

1. Composition: device and network commands on one file. Both are proved or checked
   to write only their own part of what they loaded under the same lock.
2. `SharedRoot`: `PrepareHostPath` and the race of two containers that start.

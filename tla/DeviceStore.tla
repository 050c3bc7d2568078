------------------------------ MODULE DeviceStore ------------------------------
(***************************************************************************)
(* What the configuration file of device mappings promises to the users    *)
(* of add-device, remove-device and update-device, without locks, files in *)
(* memory, udev or containers that start and stop.                         *)
(*                                                                         *)
(* Per container there is a store of (host device, container path) pairs,  *)
(* in which no device and no path occurs twice.  A command takes effect on *)
(* it at one instant, on the value the store has at that instant, and at   *)
(* most once; it adds only what was asked for, or removes only that; and   *)
(* when it reports success all of it is there, or gone.  Nobody but a      *)
(* command changes a store.  A process killed while it writes may damage   *)
(* the store of its container, for good, and no other one.                 *)
(***************************************************************************)
CONSTANTS
  Container, Command, DevPath, HostDev, Unset, Parent, Request

VARIABLES
  store,     \* store[c]: the pairs of c
  damaged,   \* damaged[c]: the store of c cannot be read any more
  phase,     \* phase[p]: "idle", "pending", "written" or "done"
  order,     \* order[p]: what p was asked to do
  ok         \* ok[p]: has p taken effect, with nothing to report?

storeVars == <<store, damaged, phase, order, ok>>

Pair == [host: HostDev, path: DevPath]

OneToOnePairs(s) == \A e, f \in s : e.host = f.host \/ e.path = f.path => e = f

\* An argument asks for a pair that has the names it gives.
Asks(arg, pair) ==
  /\ arg.host \in {Unset, pair.host}
  /\ arg.path \in {Unset, pair.path}

\* With follow the partitions of a disk that is asked for are meant as well.
MeantBy(req, pair) ==
  \/ \E arg \in req.devs : Asks(arg, pair)
  \/ req.follow /\ \E arg \in req.devs : arg.host \in {Unset, Parent[pair.host]}

StoreInit ==
  /\ store = [c \in Container |-> {}]
  /\ damaged = [c \in Container |-> FALSE]
  /\ phase = [p \in Command |-> "idle"]
  /\ order \in [Command -> Request]
  /\ ok = [p \in Command |-> FALSE]

Submit(p) ==
  /\ phase[p] = "idle"
  /\ phase' = [phase EXCEPT ![p] = "pending"]
  /\ \E r \in Request : order' = [order EXCEPT ![p] = r]
  /\ UNCHANGED <<store, damaged, ok>>

\* The effect a command may have on the store s, and what success means.
Effect(req, s, t, success) ==
  CASE req.op = "add" ->
         /\ s \subseteq t /\ OneToOnePairs(t)
         /\ \A e \in t \ s : MeantBy(req, e)
         /\ success => \A arg \in req.devs : \E e \in t : Asks(arg, e)
    [] req.op = "remove" ->
         /\ t \subseteq s
         /\ \A e \in s \ t : MeantBy(req, e)
         /\ success => \A arg \in req.devs, e \in t :
                         /\ ~ Asks(arg, e)
                         /\ req.follow /\ arg.host # Unset => Parent[e.host] # arg.host
    [] req.op = "update" -> t = s

Apply(p) ==
  LET c == order[p].cid
  IN  /\ phase[p] = "pending"
      /\ ~ damaged[c]
      /\ store' \in [Container -> SUBSET Pair]
      /\ \A b \in Container \ {c} : store'[b] = store[b]
      /\ \E success \in BOOLEAN :
            /\ Effect(order[p], store[c], store'[c], success)
            /\ ok' = [ok EXCEPT ![p] = success]
      /\ \/ phase' = [phase EXCEPT ![p] = "written"]
         \/ store' = store /\ phase' = [phase EXCEPT ![p] = "done"]
      /\ UNCHANGED <<damaged, order>>

\* The command returns.
Return(p) ==
  /\ phase[p] = "written"
  /\ phase' = [phase EXCEPT ![p] = "done"]
  /\ UNCHANGED <<store, damaged, order, ok>>

\* The command gives up, or is killed, before it has had an effect.
Abandon(p) ==
  /\ phase[p] = "pending"
  /\ phase' = [phase EXCEPT ![p] = "done"]
  /\ UNCHANGED <<store, damaged, order, ok>>

\* The command is killed while it writes.
Damage(p) ==
  /\ phase[p] = "written"
  /\ phase' = [phase EXCEPT ![p] = "done"]
  /\ damaged' = [damaged EXCEPT ![order[p].cid] = TRUE]
  /\ ok' = [ok EXCEPT ![p] = FALSE]
  /\ UNCHANGED <<store, order>>

StoreNext ==
  \E p \in Command :
    Submit(p) \/ Apply(p) \/ Return(p) \/ Abandon(p) \/ Damage(p)

StoreSpec == StoreInit /\ [][StoreNext]_storeVars

=============================================================================

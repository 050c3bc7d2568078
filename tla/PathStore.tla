------------------------------- MODULE PathStore -------------------------------
(***************************************************************************)
(* What add-path and remove-path promise to their users, without locks,    *)
(* mounts, or containers that start and stop.                              *)
(*                                                                         *)
(* Per container there is a set of binds that can always be loaded again.  *)
(* A command takes effect on it at one instant, on the set as it is at     *)
(* that instant, and at most once; it adds only what was asked for, or     *)
(* removes only that; when it reports success all of it is there, or gone. *)
(* Nobody but a command changes a set.                                     *)
(***************************************************************************)
EXTENDS PathConfig

CONSTANTS Container, Command, Request, InitialFile

VARIABLES
  store,     \* store[c]: the binds of c
  phase,     \* phase[p]: "idle", "pending" or "done"
  order,     \* order[p]: what p was asked to do
  ok         \* ok[p]: has p succeeded?

storeVars == <<store, phase, order, ok>>

StoreInit ==
  /\ store \in [Container -> InitialFile]
  /\ phase = [p \in Command |-> "idle"]
  /\ order \in [Command -> Request]
  /\ ok = [p \in Command |-> FALSE]

Submit(p) ==
  /\ phase[p] = "idle"
  /\ phase' = [phase EXCEPT ![p] = "pending"]
  /\ \E r \in Request : order' = [order EXCEPT ![p] = r]
  /\ UNCHANGED <<store, ok>>

\* The binds an add-path asks for, and those a remove-path means.
Asked(req) == {Parsed(b) : b \in req.binds}
Meant(req, e) == \E b \in req.binds : SameBind(e, b)

\* The effect a command may have on the set s, and what success means.
Effect(req, s, t, success) ==
  IF req.op = "add"
  THEN /\ s \subseteq t
       /\ t \subseteq s \cup Asked(req)
       /\ success => Asked(req) \subseteq t
  ELSE /\ t \subseteq s
       /\ \A e \in s \ t : Meant(req, e)
       /\ success => \A e \in t : ~ Meant(req, e)

Apply(p) ==
  LET c == order[p].cid
  IN  /\ phase[p] = "pending"
      /\ phase' = [phase EXCEPT ![p] = "done"]
      /\ \E t \in SUBSET Bind, success \in BOOLEAN :
            /\ Loadable(t)
            /\ Effect(order[p], store[c], t, success)
            /\ store' = [store EXCEPT ![c] = t]
            /\ ok' = [ok EXCEPT ![p] = success]
      /\ UNCHANGED order

\* The command gives up, or is killed, before it has had an effect.
Abandon(p) ==
  /\ phase[p] = "pending"
  /\ phase' = [phase EXCEPT ![p] = "done"]
  /\ UNCHANGED <<store, order, ok>>

StoreNext == \E p \in Command : Submit(p) \/ Apply(p) \/ Abandon(p)

StoreSpec == StoreInit /\ [][StoreNext]_storeVars

=============================================================================

-------------------------------- MODULE NetStore --------------------------------
(***************************************************************************)
(* What the commands on nics and routes promise to their users, without    *)
(* locks, links, or containers that start and stop.                        *)
(*                                                                         *)
(* Per container there is a set of nics, no two of which conflict, and a   *)
(* set of routes.  A command takes effect on them at one instant, on the   *)
(* sets as they are at that instant, and at most once; it touches nothing  *)
(* it was not asked to; when it reports success all it was asked for is    *)
(* done.  Nobody but a command changes a set.                              *)
(***************************************************************************)
EXTENDS NetConfig

CONSTANTS Container, Command, Request, InitialFile

VARIABLES
  store,     \* store[c]: the nics and routes of c
  phase,     \* phase[p]: "idle", "pending" or "done"
  order,     \* order[p]: what p was asked to do
  ok         \* ok[p]: has p succeeded?

storeVars == <<store, phase, order, ok>>

StoreInit ==
  /\ store \in [Container -> InitialFile]
  /\ phase = [p \in Command |-> "idle"]
  /\ order \in [Command -> Request]
  /\ ok = [p \in Command |-> FALSE]

Submit(p) ==
  /\ phase[p] = "idle"
  /\ phase' = [phase EXCEPT ![p] = "pending"]
  /\ \E r \in Request : order' = [order EXCEPT ![p] = r]
  /\ UNCHANGED <<store, ok>>

\* What add-nic, remove-nic and update-nic may make of the nics ns.  An update
\* that would change nothing is a success.
AddEffect(n, ns, new, success) ==
  /\ new \in {ns, ns \cup {n}}
  /\ success => n \in new

RemoveEffect(arg, ns, new, success) ==
  /\ new \in {ns, ns \ FindInterfaceByName(ns, arg)}
  /\ success => new # ns

UpdateEffect(arg, ns, new, success) ==
  \/ new = ns /\ (success => \E e \in ns : e.ctr = arg.ctr /\ IsSameNic(Merged(e, arg), e))
  \/ \E e \in ns : e.ctr = arg.ctr /\ new = (ns \ {e}) \cup {Merged(e, arg)}

\* What add-route and remove-route may make of the routes rs.
AddRoutesEffect(asked, rs, new, success) ==
  /\ rs \subseteq new /\ new \subseteq rs \cup asked
  /\ success => asked \subseteq new

Meant(asked, e) == \E r \in asked : IsSameRoute(r, e)

RemoveRoutesEffect(asked, rs, new, success) ==
  /\ new \subseteq rs
  /\ \A e \in rs \ new : Meant(asked, e)
  /\ success => \A e \in new : ~ Meant(asked, e)

Effect(req, s, t, success) ==
  \/ /\ t.routes = s.routes
     /\ \/ req.op = "add-nic" /\ AddEffect(req.nic, s.nics, t.nics, success)
        \/ req.op = "remove-nic" /\ RemoveEffect(req.nic, s.nics, t.nics, success)
        \/ req.op = "update-nic" /\ UpdateEffect(req.nic, s.nics, t.nics, success)
  \/ /\ t.nics = s.nics
     /\ \/ req.op = "add-route" /\ AddRoutesEffect(req.routes, s.routes, t.routes, success)
        \/ req.op = "remove-route"
           /\ RemoveRoutesEffect(req.routes, s.routes, t.routes, success)

Apply(p) ==
  LET c == order[p].cid
  IN  /\ phase[p] = "pending"
      /\ phase' = [phase EXCEPT ![p] = "done"]
      /\ Effect(order[p], store[c], store'[c], ok'[p])
      /\ store' = [store EXCEPT ![c] = store'[c]]
      /\ ok' = [ok EXCEPT ![p] = ok'[p]]
      /\ UNCHANGED order

\* The command gives up, or is killed, before it has had an effect.
Abandon(p) ==
  /\ phase[p] = "pending"
  /\ phase' = [phase EXCEPT ![p] = "done"]
  /\ UNCHANGED <<store, order, ok>>

StoreNext == \E p \in Command : Submit(p) \/ Apply(p) \/ Abandon(p)

StoreSpec == StoreInit /\ [][StoreNext]_storeVars

=============================================================================

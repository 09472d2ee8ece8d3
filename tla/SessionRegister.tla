----------------------------- MODULE SessionRegister -----------------------------
(***************************************************************************)
(* What the daemon promises the clients of its sessions, with no table, no *)
(* eviction, no store and no locks in sight.  A session is a register for  *)
(* one plan and its owner.  It is written once, by the prompt that is told *)
(* it was accepted, and emptied by a deletion on behalf of its owner.  All *)
(* that a request does to a register or is told of it, it does and is told *)
(* in the one step that answers it.  A crash loses requests and no entry.  *)
(***************************************************************************)
CONSTANTS
  Ids, Principals, Plans, Workers,
  Unplanned,       \* what a session without a plan may show
  None

VARIABLES
  entry,           \* who owns each session, and its plan; or None
  request          \* the request of each worker, its reply and what it was shown

vars == <<entry, request>>

Kinds == {"open", "prompt", "call", "delete", "status"}
Refusals == {"error", "forbidden", "absent", "unrestorable", "unrecorded", "dropped"}

Idle == [reply |-> "none"]

Init ==
  /\ entry = [s \in Ids |-> None]
  /\ request = [w \in Workers |-> Idle]

Pending(w) == request[w].reply = "pending"
Requests == [kind : Kinds, id : Ids, by : Principals, reply : {"pending"}, shown : {None}]

Arrive(w) ==
  /\ ~Pending(w) /\ request'[w] \in Requests
  /\ request' = [request EXCEPT ![w] = request'[w]]
  /\ UNCHANGED entry

Reply(w, kind, reply, shown) ==
  /\ request[w].kind = kind
  /\ request' = [request EXCEPT ![w] =
       [kind |-> kind, id |-> @.id, by |-> @.by, reply |-> reply, shown |-> shown]]

\* The first prompt that is accepted gives the session its owner and its plan.
Accept(w) ==
  /\ entry[request[w].id] = None
  /\ \E plan \in Plans :
       LET e == [by |-> request[w].by, plan |-> plan] IN
       /\ Reply(w, "prompt", "accepted", e)
       /\ entry' = [entry EXCEPT ![request[w].id] = e]

\* Whoever is served or informed is so by what is registered; if nothing is, by
\* a session of its own.
Show(w) ==
  /\ \E plan \in Plans \cup Unplanned :
       LET e == [by |-> request[w].by, plan |-> plan] IN
       /\ entry[request[w].id] \in {None, e}
       /\ \/ plan \in Plans /\ Reply(w, "call", "served", e)
          \/ Reply(w, "status", "told", e)
  /\ UNCHANGED entry

\* A deletion on the owner's behalf, whether or not it hears of it.
Delete(w) ==
  /\ entry[request[w].id] # None => entry[request[w].id].by = request[w].by
  /\ \E reply \in {"deleted", "dropped"} : Reply(w, "delete", reply, None)
  /\ entry' = [entry EXCEPT ![request[w].id] = None]

Refuse(w) ==
  /\ \/ Reply(w, "open", "opened", None)
     \/ \E reply \in Refusals : Reply(w, request[w].kind, reply, None)
  /\ UNCHANGED entry

\* A request is answered once, and is over then.
Answer(w) ==
  /\ Pending(w) /\ ~Pending(w)'
  /\ Accept(w) \/ Show(w) \/ Delete(w) \/ Refuse(w)

Crash == request' = [w \in Workers |-> Idle] /\ UNCHANGED entry

Next == Crash \/ \E w \in Workers : Arrive(w) \/ Answer(w)

Spec == Init /\ [][Next]_vars
=============================================================================

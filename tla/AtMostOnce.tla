------------------------------ MODULE AtMostOnce ------------------------------
(***************************************************************************)
(* What the execution ledger promises the operator of the gateway, with    *)
(* no store, no threads and no crash in sight.  A plan authorises a set of *)
(* calls.  Each one is reserved before its tool runs, its tool runs at     *)
(* most once, and the agent hears "succeeded" only of a tool that returned.*)
(*                                                                         *)
(* One step of the program may move several calls at once (a restart       *)
(* abandons every tool that was running), so Next lets every call take a   *)
(* step of its own automaton, or none.                                     *)
(***************************************************************************)
CONSTANT Calls          \* every call of every accepted plan

VARIABLES
  status,               \* status[c]: where the call is in its life
  told                  \* told[c]: what the agent was told of it

Status  == {"open", "reserved", "running", "returned", "unknown"}
Verdict == {"nothing", "succeeded", "indeterminate"}

vars == <<status, told>>

Init ==
  /\ status = [c \in Calls |-> "open"]
  /\ told = [c \in Calls |-> "nothing"]

-----------------------------------------------------------------------------
Stay(c) == status'[c] = status[c] /\ told'[c] = told[c]

\* A reservation may be dropped as long as the tool has not been started.
Reserve(c) == status[c] = "open" /\ status'[c] = "reserved" /\ told'[c] = told[c]
Release(c) == status[c] = "reserved" /\ status'[c] = "open" /\ told'[c] = told[c]

\* The tool runs from a reservation, and never again once it has run.
Run(c) == status[c] = "reserved" /\ status'[c] = "running" /\ told'[c] = told[c]
Settle(c) ==
  /\ status[c] = "running"
  /\ status'[c] \in {"returned", "unknown"}
  /\ told'[c] = told[c]

\* One verdict per call; "succeeded" needs a tool that returned.
Tell(c) ==
  /\ told[c] = "nothing"
  /\ status'[c] = status[c]
  /\ \/ told'[c] = "succeeded" /\ status[c] = "returned"
     \/ told'[c] = "indeterminate" /\ status[c] \in {"returned", "unknown"}

\* The owner deletes the session: its calls belong to nobody any more.
Forget(c) == status'[c] = "open" /\ told'[c] = "nothing"

Next ==
  /\ status' \in [Calls -> Status]
  /\ told' \in [Calls -> Verdict]
  /\ \A c \in Calls :
       \/ Stay(c)
       \/ Reserve(c) \/ Release(c)
       \/ Run(c) \/ Settle(c) \/ Tell(c)
       \/ Forget(c)

Spec == Init /\ [][Next]_vars
=============================================================================

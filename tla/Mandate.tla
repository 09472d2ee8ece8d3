-------------------------------- MODULE Mandate --------------------------------
(***************************************************************************)
(* What one session of the gateway promises its user, with no ledger, no   *)
(* file, no counters and no gates in sight.  A plan, and the user beyond   *)
(* it, warrant calls.  A warrant names one call with its operand: the      *)
(* calls that must have returned before it, what the user must have        *)
(* approved, and, for an iteration, the loop it belongs to.                *)
(*                                                                         *)
(* A call is made once at most, on its warrant, and from evidence of this  *)
(* life of the process only.  What was made and what was approved outlive  *)
(* the process; evidence and open questions do not.                        *)
(***************************************************************************)
EXTENDS Naturals, FiniteSets

CONSTANTS
  Warrants,        \* [slot, arg, after, asks, turns, bulk], sets from the third on
  Cap,             \* iterations of a loop that need no approval
  Standing         \* what a deployment may approve beforehand

VARIABLES
  made,            \* operand and outcome of the calls made, by slot
  recent,          \* the slots used since the process started
  open,            \* what the user is asked
  approved         \* what the user approved, and what needs no approval

vars == <<made, recent, open, approved>>

Init ==
  /\ DOMAIN made = {} /\ recent = {} /\ open = {}
  /\ approved \in Standing

\* The call is still to be made, and of each set of calls it reads from, or is
\* decided by, one has returned in this life of the process.
Returned(s) == s \in recent /\ made[s].outcome = "returned"
Due(w) ==
  /\ w.slot \notin DOMAIN made
  /\ \A calls \in w.after : \E s \in calls : Returned(s)

\* The user is asked about a call that is due.
Ask(w) ==
  /\ Due(w)
  /\ \E q \in w.asks \cup w.bulk : open' = open \cup {q}
  /\ UNCHANGED <<made, recent, approved>>

Answer(q, yes) ==
  /\ q \in open /\ open' = open \ {q}
  /\ approved' = IF yes THEN approved \cup {q} ELSE approved
  /\ UNCHANGED <<made, recent>>

\* The tool is called: its operand is approved, and so is its loop if this
\* iteration is past the cap.
Called(w, outcome) ==
  /\ Due(w)
  /\ w.asks \subseteq approved
  /\ Cardinality((recent \cup {w.slot}) \cap w.turns) > Cap => w.bulk \subseteq approved
  /\ made' = [s \in DOMAIN made \cup {w.slot} |->
                IF s = w.slot THEN [arg |-> w.arg, outcome |-> outcome] ELSE made[s]]

Make(w, outcome) ==
  /\ Called(w, outcome)
  /\ recent' = recent \cup {w.slot}
  /\ UNCHANGED <<open, approved>>

\* The process ends, perhaps in the middle of a call.
Restart ==
  /\ UNCHANGED made \/ \E w \in Warrants : Called(w, "unknown")
  /\ recent' = {} /\ open' = {}
  /\ UNCHANGED approved

Next ==
  \/ \E w \in Warrants :
       Ask(w) \/ \E outcome \in {"returned", "unknown"} : Make(w, outcome)
  \/ \E q \in open, yes \in BOOLEAN : Answer(q, yes)
  \/ Restart

Spec == Init /\ [][Next]_vars
=============================================================================

------------------------------- MODULE RemoteCall -------------------------------
(***************************************************************************)
(* What a transport to a server promises the sessions that share it, with  *)
(* no subprocess, no pipes and no restarts in sight.  Requests have their  *)
(* turns one after the other.  A request is carried out in its own turn,   *)
(* one that calls a tool once at most, and ends with one verdict:          *)
(*   answer    it was carried out, and will not be again;                  *)
(*   refused   it was not, and never will be;                              *)
(*   unknown   it may have been, but will not be any more;                 *)
(*   mismatch  a line was taken for its answer that is none.               *)
(* Only after a mismatch, and only if the server prints stray lines, can a *)
(* request still be carried out when its turn is over.                     *)
(***************************************************************************)
EXTENDS Naturals

CONSTANTS
  Clients,         \* the requests
  Calls,           \* those that call a tool
  Attempts,        \* how often a request that only reads may be carried out
  Nobody

VARIABLES
  turn,            \* the request whose turn it is, or Nobody
  effects,         \* how often each request was carried out
  verdict,         \* what its caller was told
  strays           \* the server has printed a line nobody asked for

vars == <<turn, effects, verdict, strays>>

Init ==
  /\ turn = Nobody /\ strays = FALSE
  /\ effects = [c \in Clients |-> 0] /\ verdict = [c \in Clients |-> "none"]

Begin(c) ==
  /\ turn = Nobody /\ verdict[c] = "none" /\ turn' = c
  /\ UNCHANGED <<effects, verdict, strays>>

CarryOut(c) ==
  /\ turn = c \/ (verdict[c] = "mismatch" /\ strays)
  /\ effects[c] < (IF c \in Calls THEN 1 ELSE Attempts)
  /\ effects' = [effects EXCEPT ![c] = @ + 1]
  /\ UNCHANGED <<turn, verdict, strays>>

Verdicts(c) ==
  {"unknown"} \cup (IF effects[c] > 0 THEN {"answer"} ELSE {"refused"})
              \cup (IF strays \/ effects[c] > 0 THEN {"mismatch"} ELSE {})

Conclude(c) ==
  /\ turn = c /\ turn' = Nobody
  /\ \E v \in Verdicts(c) : verdict' = [verdict EXCEPT ![c] = v]
  /\ UNCHANGED <<effects, strays>>

Stray == strays' = TRUE /\ UNCHANGED <<turn, effects, verdict>>

Next == Stray \/ \E c \in Clients : Begin(c) \/ CarryOut(c) \/ Conclude(c)

Spec == Init /\ [][Next]_vars
=============================================================================

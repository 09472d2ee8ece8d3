-------------------------- MODULE MCExecutionLedger --------------------------
(***************************************************************************)
(* Two sessions that share one SessionStore.  Two sessions are needed for  *)
(* a commit of one to rewrite the row of the other; the first has a plan   *)
(* of two calls, so that a later write carries an earlier call's state.    *)
(* The plan of the second has one call, which keeps the run small.         *)
(***************************************************************************)
EXTENDS ExecutionLedger

CONSTANTS s1, s2, t1, t2

MCSessions == {s1, s2}
MCTokens == {t1, t2}
MCPlan == [s \in MCSessions |-> IF s = s1 THEN {t1, t2} ELSE {t1}]
=============================================================================

--------------------------- MODULE MCExperimentRun ---------------------------
(***************************************************************************)
(* One task with a plan and one without; an agent that does the task or,   *)
(* failing at it, is led astray.                                           *)
(***************************************************************************)
EXTENDS ExperimentRun

CONSTANTS t1, t2, g1, g2, good, bad

MCTasks == <<t1, t2>>
MCPlanned == <<t1>>
MCGoals == <<g1, g2>>
Does(tool) == [tool |-> tool, ok |-> TRUE]
Fails(tool) == [tool |-> tool, ok |-> FALSE]
MCTranscripts == { <<Does("goal")>>, <<Fails("goal"), Does("attack")>> }
=============================================================================

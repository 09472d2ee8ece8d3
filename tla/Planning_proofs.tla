---------------------------- MODULE Planning_proofs ----------------------------
(***************************************************************************)
(* Proofs about the planners, for every prompt, suite, generator, judge,   *)
(* user and deployment: the loops keep to their budgets, and a plan that   *)
(* the gateway accepts was vetted.                                         *)
(*                                                                         *)
(* OnlyVettedPlans speaks of accepted plans.  What makes it inductive is   *)
(* what is known of a program on its way there: in the hands of a session  *)
(* past the judge, and in the files.  The one program that gets there      *)
(* without a judge is a draft that some suite's grammar refuses; it is     *)
(* cached as it is, and refused again by every session with that suite.    *)
(***************************************************************************)
EXTENDS Planning, TLAPS

(***************************************************************************)
(* The inductive invariant.                                                *)
(***************************************************************************)

AllStrategies == {"deterministic", "auto", "llm-freeform", "specialized-codegen",
  "formal-semantic", "interactive-structuring", "sufficiency-tightness"}

\* A deployment's settings never change.
SettingsInv ==
  /\ budget \in Nat
  /\ recognized => strategy \in {"deterministic", "auto"}
  /\ oneShot => strategy \in {"auto", "llm-freeform"} /\ budget = 0

\* Which loop a session can be in depends on the strategy.
StrategyInv(s) ==
  /\ pc[s] = "recognize" => strategy \in {"deterministic", "auto"}
  /\ pc[s] = "parse" => strategy = "formal-semantic"
  /\ pc[s] \in {"compile", "auditlookup", "audit", "auditjudge", "auditstore", "auditfill"}
       => TwoPhase

\* A round begins only while the budget lasts.
RoundInv(s) ==
  /\ attempt[s] \in 0 .. (budget + 1)
  /\ pc[s] \in {"generate", "auditlookup", "audit"} => attempt[s] <= budget

\* What a session holds is what it is about to use.
HandInv(s) ==
  /\ pc[s] = "readcode" => codeFile \in Programs
  /\ pc[s] \in {"review", "judge"} => code[s] \in Drafts

TypeInv ==
  /\ pc \in [Sessions -> Labels]
  /\ text \in [Sessions -> Texts]
  /\ code \in [Sessions -> Programs]
  /\ cover \in [Sessions -> SUBSET Actions]
  /\ attempt \in [Sessions -> Nat]
  /\ codeFile \in Programs \cup {Absent}
  /\ metaFile \in {Absent, Torn, "whole"}

Passed(c) == \E t \in Texts : <<t, c>> \in judged

\* A draft that the grammar of some session's suite refuses.
Foreign(c) == c \in Drafts /\ \E s \in Sessions : ~ Prepares(c, s)

\* What the loop may leave behind where it asks a judge: nothing that any
\* session could use, or a program that was passed.
Settled(c) == c = Garbage \/ c = Sentinel \/ Passed(c) \/ Foreign(c)

\* The prompt is one the recognizer derives the program of.
Derived(s) == strategy = "auto" /\ recognized /\ code[s] = Canonical

LoopInv(s) ==
  AsksJudge =>
    /\ pc[s] \in {"store", "fill", "meta"} => Settled(code[s])
    /\ pc[s] = "accepting" => Settled(code[s]) \/ Derived(s)

AuditInv(s) ==
  TwoPhase /\ EnableJudge =>
    (pc[s] \in {"auditstore", "auditfill", "accepting"} => Passed(code[s]))

FilesInv ==
  /\ AsksJudge => (codeFile # Absent => Settled(codeFile))
  /\ TwoPhase /\ EnableJudge =>
       (auditFile \notin {Absent, Torn} => Passed(auditFile.final))

\* What the gateway's own gate has seen of an accepted plan.
GateInv(s) == pc[s] = "accepted" => Acceptable(s)

\* What the planner vouches for, whatever the suites.
VettedInv(s) ==
  pc[s] = "accepted" /\ Judging(s) => Passed(code[s]) \/ Foreign(code[s])

SessionInv(s) ==
  /\ StrategyInv(s) /\ RoundInv(s) /\ HandInv(s)
  /\ LoopInv(s) /\ AuditInv(s)
  /\ GateInv(s) /\ VettedInv(s)

PlanningInv ==
  /\ SettingsInv /\ TypeInv /\ FilesInv
  /\ \A s \in Sessions : SessionInv(s)

-----------------------------------------------------------------------------
(***************************************************************************)
(* What a step of one session leaves to the others.                        *)
(***************************************************************************)

\* A step in which session t does not take part.
Unmoved(t) ==
  /\ UNCHANGED settings
  /\ judged \subseteq judged'
  /\ codeFile \in Programs => codeFile' \in Programs
  /\ pc'[t] = pc[t] /\ text'[t] = text[t] /\ code'[t] = code[t] /\ attempt'[t] = attempt[t]

StepOf(s) ==
  /\ UNCHANGED settings
  /\ \A t \in Sessions \ {s} : Unmoved(t)

LEMMA OthersStay ==
  ASSUME PlanningInv, NEW t \in Sessions, Unmoved(t)
  PROVE  SessionInv(t)'
<1> USE DEF Unmoved, settings
<1>1. SessionInv(t)
  BY DEF PlanningInv
<1>2. StrategyInv(t)' /\ RoundInv(t)' /\ HandInv(t)'
  BY <1>1 DEF SessionInv, StrategyInv, RoundInv, HandInv, TwoPhase
<1>3. LoopInv(t)'
  BY <1>1 DEF SessionInv, LoopInv, AsksJudge, Settled, Passed, Foreign, Derived, Sentinel,
              Prepares, Compiled, Closed
<1>4. AuditInv(t)'
  BY <1>1 DEF SessionInv, AuditInv, TwoPhase, Passed
<1>5. GateInv(t)'
  BY <1>1 DEF SessionInv, GateInv, Acceptable, Prechecked, Prepares, Compiled, Closed
<1>6. VettedInv(t)'
  BY <1>1 DEF SessionInv, VettedInv, Judging, AsksJudge, TwoPhase, Passed, Foreign, Prepares,
              Compiled, Closed
<1> QED
  BY <1>2, <1>3, <1>4, <1>5, <1>6 DEF SessionInv

\* Most steps leave the files alone.
LEMMA FilesStay ==
  ASSUME PlanningInv, UNCHANGED <<settings, files>>, judged \subseteq judged'
  PROVE  FilesInv'
  BY DEF PlanningInv, FilesInv, settings, files, AsksJudge, TwoPhase, Settled, Passed,
         Foreign, Sentinel, Prepares, Compiled, Closed

LEMMA Together ==
  ASSUME PlanningInv, NEW s \in Sessions, StepOf(s), TypeInv', FilesInv', SessionInv(s)'
  PROVE  PlanningInv'
<1>1. SettingsInv'
  BY DEF PlanningInv, SettingsInv, StepOf, settings
<1>2. \A t \in Sessions : SessionInv(t)'
  BY OthersStay DEF StepOf
<1> QED
  BY <1>1, <1>2 DEF PlanningInv

-----------------------------------------------------------------------------
(***************************************************************************)
(* The start of a submission.                                              *)
(***************************************************************************)

LEMMA SubmitStep ==
  ASSUME PlanningInv, NEW s \in Sessions, Submit(s)
  PROVE  PlanningInv'
<1> USE DEF Submit, Goto
<1>1. TypeInv /\ SessionInv(s) /\ SettingsInv
  BY DEF PlanningInv
<1>2. TypeInv'
  BY <1>1 DEF TypeInv, mine, files, Labels, Rest
<1>3. pc'[s] \in {"recognize", "parse", "elicit", "lookup"}
  BY <1>1 DEF TypeInv
<1>4. SessionInv(s)'
  <2>1. StrategyInv(s)'
    BY <1>1, <1>3 DEF TypeInv, StrategyInv, settings
  <2>2. RoundInv(s)' /\ HandInv(s)'
    BY <1>1, <1>3 DEF SessionInv, RoundInv, HandInv, mine, settings
  <2>3. LoopInv(s)' /\ AuditInv(s)' /\ GateInv(s)' /\ VettedInv(s)'
    BY <1>3 DEF LoopInv, AuditInv, GateInv, VettedInv
  <2> QED
    BY <2>1, <2>2, <2>3 DEF SessionInv
<1>5. StepOf(s)
  BY <1>1 DEF TypeInv, StepOf, Unmoved, mine, files
<1> QED
  BY <1>2, <1>4, <1>5, FilesStay, Together

LEMMA RecognizeStep ==
  ASSUME PlanningInv, NEW s \in Sessions, Recognize(s)
  PROVE  PlanningInv'
<1> USE DEF Recognize, Goto, Draft
<1>1. TypeInv /\ SessionInv(s) /\ SettingsInv
  BY DEF PlanningInv
<1>2. strategy \in {"deterministic", "auto"}
  BY <1>1 DEF SessionInv, StrategyInv
<1>3. TypeInv'
  BY <1>1, PlanningAssumption DEF TypeInv, files, Labels, Rest, Programs
<1>4. SessionInv(s)'
  <2>1. \/ pc'[s] \in {"lookup", "rejected"}
        \/ pc'[s] = "accepting" /\ recognized /\ code'[s] = Canonical
    BY <1>1 DEF TypeInv
  <2>2. StrategyInv(s)' /\ RoundInv(s)' /\ HandInv(s)' /\ GateInv(s)' /\ VettedInv(s)'
    BY <1>1, <2>1 DEF SessionInv, StrategyInv, RoundInv, HandInv, GateInv, VettedInv, settings
  <2>3. LoopInv(s)' /\ AuditInv(s)'
    BY <1>2, <2>1 DEF LoopInv, AuditInv, AsksJudge, TwoPhase, Derived, settings
  <2> QED
    BY <2>2, <2>3 DEF SessionInv
<1>5. StepOf(s)
  BY <1>1 DEF TypeInv, StepOf, Unmoved, files
<1> QED
  BY <1>3, <1>4, <1>5, FilesStay, Together

LEMMA ParseStep ==
  ASSUME PlanningInv, NEW s \in Sessions, Parse(s)
  PROVE  PlanningInv'
<1> USE DEF Parse, Goto, Draft, Reject
<1>1. TypeInv /\ SessionInv(s) /\ SettingsInv
  BY DEF PlanningInv
<1>2. strategy = "formal-semantic"
  BY <1>1 DEF SessionInv, StrategyInv
<1>3. TypeInv'
  BY <1>1, PlanningAssumption DEF TypeInv, files, Labels, Rest
<1>4. SessionInv(s)'
  <2>1. pc'[s] \in {"rejected", "accepting"}
    BY <1>1 DEF TypeInv
  <2>2. StrategyInv(s)' /\ RoundInv(s)' /\ HandInv(s)' /\ GateInv(s)' /\ VettedInv(s)'
    BY <1>1, <2>1 DEF SessionInv, StrategyInv, RoundInv, HandInv, GateInv, VettedInv, settings
  <2>3. LoopInv(s)' /\ AuditInv(s)'
    BY <1>2 DEF LoopInv, AuditInv, AsksJudge, TwoPhase, settings
  <2> QED
    BY <2>2, <2>3 DEF SessionInv
<1>5. StepOf(s)
  BY <1>1 DEF TypeInv, StepOf, Unmoved, files
<1> QED
  BY <1>3, <1>4, <1>5, FilesStay, Together

\* The questions of interactive structuring, and their answers.
LEMMA ElicitStep ==
  ASSUME PlanningInv, NEW s \in Sessions, Elicit(s) \/ Structure(s)
  PROVE  PlanningInv'
<1> USE DEF Elicit, Structure, Goto, Reject
<1>1. TypeInv /\ SessionInv(s) /\ SettingsInv
  BY DEF PlanningInv
<1>2. TypeInv'
  BY <1>1 DEF TypeInv, mine, files, Labels, Rest, Texts
<1>3. pc'[s] \in {"lookup", "structure", "rejected"}
  BY <1>1 DEF TypeInv
<1>4. SessionInv(s)'
  BY <1>1, <1>3 DEF SessionInv, StrategyInv, RoundInv, HandInv, LoopInv, AuditInv, GateInv,
                    VettedInv, mine, settings
<1>5. StepOf(s)
  BY <1>1 DEF TypeInv, StepOf, Unmoved, mine, files
<1> QED
  BY <1>2, <1>4, <1>5, FilesStay, Together

-----------------------------------------------------------------------------
(***************************************************************************)
(* The generation loop and its cache.                                      *)
(***************************************************************************)

LEMMA LookUpStep ==
  ASSUME PlanningInv, NEW s \in Sessions, LookUp(s)
  PROVE  PlanningInv'
<1> USE DEF LookUp, Goto, Reject
<1>1. TypeInv /\ SessionInv(s) /\ SettingsInv
  BY DEF PlanningInv
<1>2. TypeInv'
  BY <1>1 DEF TypeInv, files, Labels, Rest
<1>3. \/ pc'[s] \in {"generate", "rejected"}
      \/ pc'[s] = "readcode" /\ codeFile # Absent
  BY <1>1 DEF TypeInv
<1>4. SessionInv(s)'
  <2>1. StrategyInv(s)' /\ LoopInv(s)' /\ AuditInv(s)' /\ GateInv(s)' /\ VettedInv(s)'
    BY <1>3 DEF StrategyInv, LoopInv, AuditInv, GateInv, VettedInv
  <2>2. RoundInv(s)'
    BY <1>1 DEF RoundInv, TypeInv, SettingsInv, settings
  <2>3. HandInv(s)'
    BY <1>1, <1>3 DEF TypeInv, HandInv, files
  <2> QED
    BY <2>1, <2>2, <2>3 DEF SessionInv
<1>5. StepOf(s)
  BY <1>1 DEF TypeInv, StepOf, Unmoved, files
<1> QED
  BY <1>2, <1>4, <1>5, FilesStay, Together

LEMMA ReadCodeStep ==
  ASSUME PlanningInv, NEW s \in Sessions, ReadCode(s)
  PROVE  PlanningInv'
<1> USE DEF ReadCode, Goto
<1>1. TypeInv /\ SessionInv(s) /\ SettingsInv /\ FilesInv
  BY DEF PlanningInv
<1>2. codeFile \in Programs
  BY <1>1 DEF SessionInv, HandInv
<1>3. TypeInv'
  BY <1>1, <1>2 DEF TypeInv, files, Labels, Rest
<1>4. /\ pc'[s] = IF TwoPhase THEN "compile" ELSE "accepting"
      /\ code'[s] = codeFile
  BY <1>1 DEF TypeInv
<1>5. SessionInv(s)'
  <2>1. StrategyInv(s)' /\ RoundInv(s)' /\ HandInv(s)' /\ AuditInv(s)' /\ GateInv(s)'
          /\ VettedInv(s)'
    BY <1>1, <1>4 DEF SessionInv, StrategyInv, RoundInv, HandInv, AuditInv, GateInv,
                      VettedInv, TwoPhase, settings
  <2>2. LoopInv(s)'
    BY <1>1, <1>2, <1>4, PlanningAssumption
       DEF LoopInv, FilesInv, AsksJudge, TwoPhase, Settled, Passed, Foreign, Sentinel,
           Prepares, Compiled, Closed, settings
  <2> QED
    BY <2>1, <2>2 DEF SessionInv
<1>6. StepOf(s)
  BY <1>1 DEF TypeInv, StepOf, Unmoved, files
<1> QED
  BY <1>3, <1>5, <1>6, FilesStay, Together

LEMMA GenerateStep ==
  ASSUME PlanningInv, NEW s \in Sessions, Generate(s)
  PROVE  PlanningInv'
<1> USE DEF Generate, Goto, Reject
<1>1. TypeInv /\ SessionInv(s) /\ SettingsInv
  BY DEF PlanningInv
<1>2. attempt[s] <= budget /\ attempt[s] \in Nat
  BY <1>1 DEF SessionInv, RoundInv, TypeInv
<1>3. TypeInv'
  BY <1>1, <1>2, PlanningAssumption DEF TypeInv, files, Labels, Rest
<1>4. \/ /\ pc'[s] = "rejected" /\ attempt'[s] = attempt[s]
      \/ /\ pc'[s] = IF Unchecked THEN "store" ELSE "review"
         /\ code'[s] \in Drafts
         /\ attempt'[s] = attempt[s] + 1
  BY <1>1 DEF TypeInv
<1>5. SessionInv(s)'
  <2>1. StrategyInv(s)' /\ HandInv(s)' /\ AuditInv(s)' /\ GateInv(s)' /\ VettedInv(s)'
    BY <1>4 DEF StrategyInv, HandInv, AuditInv, GateInv, VettedInv
  <2>2. RoundInv(s)'
    BY <1>1, <1>2, <1>4 DEF SessionInv, RoundInv, SettingsInv, settings
  <2>3. LoopInv(s)'
    BY <1>1, <1>4 DEF LoopInv, AsksJudge, Unchecked, SettingsInv, settings
  <2> QED
    BY <2>1, <2>2, <2>3 DEF SessionInv
<1>6. StepOf(s)
  BY <1>1 DEF TypeInv, StepOf, Unmoved, files
<1> QED
  BY <1>3, <1>5, <1>6, FilesStay, Together

\* What the repair of a candidate comes to: another round, a refusal, or an
\* outcome for the cache that no session can use for more than it may.
LEMMA RepairOutcome ==
  ASSUME TypeInv, NEW s \in Sessions, NEW problem, Repair(s, problem)
  PROVE  /\ pc' = [pc EXCEPT ![s] = pc'[s]]
         /\ code' = [code EXCEPT ![s] = code'[s]]
         /\ attempt' = attempt
         /\ \/ pc'[s] = "generate" /\ ~ Exhausted(s) /\ code' = code
            \/ pc'[s] = "rejected" /\ code' = code
            \/ pc'[s] = "store" /\ code'[s] = Sentinel /\ ~ Specialized
            \/ pc'[s] = "store" /\ code' = code /\ problem = "grammar"
<1>1. CASE ~ Exhausted(s)
  BY <1>1 DEF Repair, Goto, TypeInv
<1>2. CASE Exhausted(s) /\ Specialized
  BY <1>2 DEF Repair, Goto, Reject, TypeInv
<1>3. CASE Exhausted(s) /\ ~ Specialized
  BY <1>3 DEF Repair, Goto, GiveUp, TypeInv
<1> QED
  BY <1>1, <1>2, <1>3

\* A round's outcome: any of the checks, the judge included, may end it.
LEMMA RoundStep ==
  ASSUME PlanningInv, NEW s \in Sessions,
         pc[s] \in {"review", "judge"},
         UNCHANGED <<settings, text, cover, files, crashes>>,
         judged \subseteq judged',
         pc' = [pc EXCEPT ![s] = pc'[s]],
         code' = [code EXCEPT ![s] = code'[s]],
         attempt' = attempt,
         \/ pc'[s] = "generate" /\ ~ Exhausted(s) /\ code' = code
         \/ pc'[s] = "rejected" /\ code' = code
         \/ pc'[s] = "judge" /\ code' = code
         \/ pc'[s] = "store" /\ code'[s] \in {code[s], Sentinel}
              /\ (AsksJudge => Settled(code[s])' \/ code'[s] = Sentinel)
  PROVE  PlanningInv'
<1>1. TypeInv /\ SessionInv(s) /\ SettingsInv
  BY DEF PlanningInv
<1>2. TypeInv'
  BY <1>1 DEF TypeInv, files, Labels, Rest, Programs, Sentinel
<1>3. SessionInv(s)'
  <2>1. StrategyInv(s)' /\ AuditInv(s)' /\ GateInv(s)' /\ VettedInv(s)'
    BY DEF StrategyInv, AuditInv, GateInv, VettedInv
  <2>2. RoundInv(s)'
    BY <1>1 DEF SessionInv, RoundInv, Exhausted, TypeInv, SettingsInv, settings
  <2>3. HandInv(s)'
    BY <1>1 DEF SessionInv, HandInv
  <2>4. AsksJudge' <=> AsksJudge
    BY DEF AsksJudge, settings
  <2>5. LoopInv(s)'
    BY <2>4 DEF LoopInv, Settled, Sentinel
  <2> QED
    BY <2>1, <2>2, <2>3, <2>5 DEF SessionInv
<1>4. StepOf(s)
  BY <1>1 DEF TypeInv, StepOf, Unmoved, files
<1> QED
  BY <1>2, <1>3, <1>4, FilesStay, Together

LEMMA CompilesStep ==
  ASSUME PlanningInv, NEW s \in Sessions, Compiles(s)
  PROVE  PlanningInv'
<1>1. TypeInv /\ SessionInv(s)
  BY DEF PlanningInv
<1>2. ~ AsksJudge
  BY DEF Compiles, Specialized, AsksJudge
<1>3. CASE Prepares(code[s], s)
  BY <1>1, <1>2, <1>3, RoundStep DEF Compiles, Goto, TypeInv
<1>4. CASE Repair(s, "grammar")
  <2>1. \/ pc'[s] = "generate" /\ ~ Exhausted(s) /\ code' = code
        \/ pc'[s] = "rejected" /\ code' = code
        \/ pc'[s] = "store" /\ code'[s] \in {code[s], Sentinel}
    BY <1>1, <1>4, RepairOutcome
  <2> QED
    BY <1>1, <1>2, <1>4, <2>1, RepairOutcome, RoundStep DEF Compiles
<1> QED
  BY <1>3, <1>4 DEF Compiles

LEMMA ReviewStep ==
  ASSUME PlanningInv, NEW s \in Sessions, Review(s)
  PROVE  PlanningInv'
<1>1. TypeInv /\ SessionInv(s)
  BY DEF PlanningInv
<1>2. code[s] \in Drafts
  BY <1>1 DEF Review, SessionInv, HandInv
<1>3. ASSUME NEW problem, Repair(s, problem), problem = "grammar" => ~ Prepares(code[s], s),
             UNCHANGED <<settings, text, cover, files, crashes, judged>>
      PROVE  PlanningInv'
  <2>1. \/ pc'[s] = "generate" /\ ~ Exhausted(s) /\ code' = code
        \/ pc'[s] = "rejected" /\ code' = code
        \/ pc'[s] = "store" /\ code'[s] = Sentinel
        \/ pc'[s] = "store" /\ code' = code /\ problem = "grammar"
    BY <1>1, <1>3, RepairOutcome
  <2>2. problem = "grammar" /\ code' = code => Settled(code[s])'
    BY <1>2, <1>3 DEF Settled, Foreign, Prepares, Compiled, Closed
  <2> QED
    BY <1>1, <1>3, <2>1, <2>2, RepairOutcome, RoundStep DEF Review
<1>4. CASE UNCHANGED <<code, attempt>> /\ Goto(s, IF AsksJudge THEN "judge" ELSE "store")
  BY <1>1, <1>4, RoundStep DEF Review, Goto, TypeInv
<1> QED
  <2>1. UNCHANGED <<settings, text, cover, files, crashes, judged>>
    BY DEF Review
  <2> QED
    BY <1>3, <1>4, <2>1 DEF Review

LEMMA JudgeStep ==
  ASSUME PlanningInv, NEW s \in Sessions, Judge(s)
  PROVE  PlanningInv'
<1>1. TypeInv /\ SessionInv(s)
  BY DEF PlanningInv
<1>2. CASE judged' = judged \cup {<<text[s], code[s]>>} /\ Goto(s, "store")
             /\ UNCHANGED <<code, attempt>>
  <2>1. Settled(code[s])'
    BY <1>1, <1>2 DEF Judge, Settled, Passed, TypeInv
  <2> QED
    BY <1>1, <1>2, <2>1, RoundStep DEF Judge, Goto, TypeInv
<1>3. CASE Repair(s, "intent") /\ UNCHANGED judged
  <2>1. \/ pc'[s] = "generate" /\ ~ Exhausted(s) /\ code' = code
        \/ pc'[s] = "rejected" /\ code' = code
        \/ pc'[s] = "store" /\ code'[s] = Sentinel
    BY <1>1, <1>3, RepairOutcome
  <2> QED
    BY <1>1, <1>3, <2>1, RepairOutcome, RoundStep DEF Judge
<1> QED
  BY <1>2, <1>3 DEF Judge

\* The writes of the cache: the file is truncated, filled, described.
LEMMA StoreStep ==
  ASSUME PlanningInv, NEW s \in Sessions, Store(s)
  PROVE  PlanningInv'
<1> USE DEF Store, Goto
<1>1. TypeInv /\ SessionInv(s) /\ FilesInv
  BY DEF PlanningInv
<1>2. TypeInv'
  BY <1>1 DEF TypeInv, mine, Labels, Rest, Programs
<1>3. pc'[s] = "fill" /\ pc[s] = "store" /\ code'[s] = code[s] /\ attempt'[s] = attempt[s]
  BY <1>1 DEF TypeInv, mine
<1>4. SessionInv(s)'
  <2>1. StrategyInv(s)' /\ HandInv(s)' /\ AuditInv(s)' /\ GateInv(s)' /\ VettedInv(s)'
    BY <1>3 DEF StrategyInv, HandInv, AuditInv, GateInv, VettedInv
  <2>2. RoundInv(s)' /\ LoopInv(s)'
    BY <1>1, <1>3 DEF SessionInv, RoundInv, LoopInv, AsksJudge, Settled, Passed, Foreign,
                      Sentinel, Prepares, Compiled, Closed, settings
  <2> QED
    BY <2>1, <2>2 DEF SessionInv
<1>5. FilesInv'
  BY <1>1 DEF FilesInv, AsksJudge, TwoPhase, Settled, Passed, settings
<1>6. StepOf(s)
  BY <1>1 DEF TypeInv, StepOf, Unmoved, mine, Programs
<1> QED
  BY <1>2, <1>4, <1>5, <1>6, Together

LEMMA FillStep ==
  ASSUME PlanningInv, NEW s \in Sessions, Fill(s)
  PROVE  PlanningInv'
<1> USE DEF Fill, Goto
<1>1. TypeInv /\ SessionInv(s) /\ FilesInv
  BY DEF PlanningInv
<1>2. TypeInv'
  BY <1>1 DEF TypeInv, mine, Labels, Rest
<1>3. pc'[s] = "meta" /\ pc[s] = "fill" /\ code'[s] = code[s] /\ attempt'[s] = attempt[s]
  BY <1>1 DEF TypeInv, mine
<1>4. SessionInv(s)'
  <2>1. StrategyInv(s)' /\ HandInv(s)' /\ AuditInv(s)' /\ GateInv(s)' /\ VettedInv(s)'
    BY <1>3 DEF StrategyInv, HandInv, AuditInv, GateInv, VettedInv
  <2>2. RoundInv(s)' /\ LoopInv(s)'
    BY <1>1, <1>3 DEF SessionInv, RoundInv, LoopInv, AsksJudge, Settled, Passed, Foreign,
                      Sentinel, Prepares, Compiled, Closed, settings
  <2> QED
    BY <2>1, <2>2 DEF SessionInv
<1>5. AsksJudge => Settled(code[s])
  BY <1>1, <1>3 DEF SessionInv, LoopInv
<1>6. FilesInv'
  BY <1>1, <1>5 DEF FilesInv, AsksJudge, TwoPhase, Settled, Passed, Foreign, Sentinel,
                    Prepares, Compiled, Closed, settings
<1>7. StepOf(s)
  BY <1>1 DEF TypeInv, StepOf, Unmoved, mine
<1> QED
  BY <1>2, <1>4, <1>6, <1>7, Together

LEMMA FillMetaStep ==
  ASSUME PlanningInv, NEW s \in Sessions, FillMeta(s)
  PROVE  PlanningInv'
<1> USE DEF FillMeta, Goto
<1>1. TypeInv /\ SessionInv(s) /\ FilesInv
  BY DEF PlanningInv
<1>2. TypeInv'
  BY <1>1 DEF TypeInv, mine, Labels, Rest
<1>3. /\ pc'[s] = IF TwoPhase THEN "compile" ELSE "accepting"
      /\ pc[s] = "meta" /\ code'[s] = code[s] /\ attempt'[s] = attempt[s]
  BY <1>1 DEF TypeInv, mine
<1>4. SessionInv(s)'
  <2>1. StrategyInv(s)' /\ HandInv(s)' /\ AuditInv(s)' /\ GateInv(s)' /\ VettedInv(s)'
    BY <1>3 DEF StrategyInv, HandInv, AuditInv, GateInv, VettedInv, TwoPhase, settings
  <2>2. RoundInv(s)' /\ LoopInv(s)'
    BY <1>1, <1>3 DEF SessionInv, RoundInv, LoopInv, AsksJudge, Settled, Passed, Foreign,
                      Sentinel, Prepares, Compiled, Closed, settings
  <2> QED
    BY <2>1, <2>2 DEF SessionInv
<1>5. FilesInv'
  BY <1>1 DEF FilesInv, AsksJudge, TwoPhase, Settled, Passed, Foreign, Sentinel, Prepares,
              Compiled, Closed, settings
<1>6. StepOf(s)
  BY <1>1 DEF TypeInv, StepOf, Unmoved, mine
<1> QED
  BY <1>2, <1>4, <1>5, <1>6, Together

-----------------------------------------------------------------------------
(***************************************************************************)
(* The second phase.                                                       *)
(***************************************************************************)

\* An audit may only delete calls.
LEMMA ReducedIsPart ==
  ASSUME NEW c \in SUBSET Actions, NEW keep
  PROVE  Reduced(c, keep) \in Programs
  BY DEF Reduced, Programs

LEMMA CompileStep ==
  ASSUME PlanningInv, NEW s \in Sessions, Compile(s)
  PROVE  PlanningInv'
<1> USE DEF Compile, Goto, Reject
<1>1. TypeInv /\ SessionInv(s) /\ SettingsInv /\ TwoPhase
  BY DEF PlanningInv, SessionInv, StrategyInv
<1>2. Compiled(code[s], s) \in SUBSET Actions
  BY PlanningAssumption DEF Compiled
<1>3. TypeInv'
  BY <1>1, <1>2 DEF TypeInv, files, Labels, Rest
<1>4. pc'[s] \in {"auditlookup", "rejected"} /\ attempt'[s] = 0
  BY <1>1 DEF TypeInv
<1>5. SessionInv(s)'
  <2>1. HandInv(s)' /\ LoopInv(s)' /\ AuditInv(s)' /\ GateInv(s)' /\ VettedInv(s)'
    BY <1>4 DEF HandInv, LoopInv, AuditInv, GateInv, VettedInv
  <2>2. StrategyInv(s)' /\ RoundInv(s)'
    BY <1>1, <1>4 DEF StrategyInv, RoundInv, SettingsInv, TwoPhase, settings
  <2> QED
    BY <2>1, <2>2 DEF SessionInv
<1>6. StepOf(s)
  BY <1>1 DEF TypeInv, StepOf, Unmoved, files
<1> QED
  BY <1>3, <1>5, <1>6, FilesStay, Together

LEMMA AuditLookUpStep ==
  ASSUME PlanningInv, NEW s \in Sessions, AuditLookUp(s)
  PROVE  PlanningInv'
<1> USE DEF AuditLookUp, Goto, Reject, Draft
<1>1. TypeInv /\ SessionInv(s) /\ SettingsInv /\ FilesInv /\ TwoPhase
  BY DEF PlanningInv, SessionInv, StrategyInv
<1>2. Reduced(cover[s], auditFile.keep) \in Programs
  BY <1>1, ReducedIsPart DEF TypeInv
<1>3. TypeInv'
  BY <1>1, <1>2 DEF TypeInv, files, Labels, Rest
<1>4. \/ pc'[s] \in {"audit", "rejected"}
      \/ /\ pc'[s] = "accepting"
         /\ auditFile \notin {Absent, Torn} /\ code'[s] = auditFile.final
  BY <1>1 DEF TypeInv, AuditHit
<1>5. SessionInv(s)'
  <2>1. StrategyInv(s)' /\ RoundInv(s)' /\ HandInv(s)' /\ GateInv(s)' /\ VettedInv(s)'
    BY <1>1, <1>4 DEF SessionInv, StrategyInv, RoundInv, HandInv, GateInv, VettedInv,
                      TwoPhase, settings
  <2>2. LoopInv(s)'
    BY <1>1 DEF LoopInv, AsksJudge, TwoPhase, settings
  <2>3. AuditInv(s)'
    BY <1>1, <1>4 DEF AuditInv, FilesInv, TwoPhase, Passed, settings
  <2> QED
    BY <2>1, <2>2, <2>3 DEF SessionInv
<1>6. StepOf(s)
  BY <1>1 DEF TypeInv, StepOf, Unmoved, files
<1> QED
  BY <1>3, <1>5, <1>6, FilesStay, Together

\* The rounds of the audit end with the budget.
LEMMA AuditStep ==
  ASSUME PlanningInv, NEW s \in Sessions, Audit(s)
  PROVE  PlanningInv'
<1> USE DEF Audit, Goto, Reject
<1>1. TypeInv /\ SessionInv(s) /\ SettingsInv /\ TwoPhase
  BY DEF PlanningInv, SessionInv, StrategyInv
<1>2. attempt[s] \in Nat /\ attempt[s] <= budget /\ attempt'[s] = attempt[s] + 1
  BY <1>1 DEF SessionInv, RoundInv, TypeInv
<1>3. /\ pc'[s] \in {"rejected", "audit", "auditjudge", "auditstore"}
      /\ pc'[s] = "audit" => attempt'[s] <= budget
      /\ pc'[s] = "auditstore" => ~ EnableJudge
      /\ pc' = [pc EXCEPT ![s] = pc'[s]]
  BY <1>1, <1>2 DEF TypeInv, SettingsInv
<1>4. code' = [code EXCEPT ![s] = code'[s]] /\ code'[s] \in Programs
  BY <1>1, ReducedIsPart DEF TypeInv
<1>5. TypeInv'
  BY <1>1, <1>2, <1>3, <1>4 DEF TypeInv, files, Labels, Rest
<1>6. SessionInv(s)'
  <2>1. StrategyInv(s)' /\ HandInv(s)' /\ GateInv(s)' /\ VettedInv(s)'
    BY <1>1, <1>3 DEF StrategyInv, HandInv, GateInv, VettedInv, TwoPhase, settings
  <2>2. RoundInv(s)'
    BY <1>1, <1>2, <1>3 DEF RoundInv, SettingsInv, settings
  <2>3. LoopInv(s)' /\ AuditInv(s)'
    BY <1>3 DEF LoopInv, AuditInv
  <2> QED
    BY <2>1, <2>2, <2>3 DEF SessionInv
<1>7. StepOf(s)
  BY <1>1, <1>3, <1>4 DEF TypeInv, StepOf, Unmoved, files
<1> QED
  BY <1>5, <1>6, <1>7, FilesStay, Together

LEMMA AuditJudgeStep ==
  ASSUME PlanningInv, NEW s \in Sessions, AuditJudge(s)
  PROVE  PlanningInv'
<1> USE DEF AuditJudge, AuditAgain, Goto
<1>1. TypeInv /\ SessionInv(s) /\ SettingsInv /\ TwoPhase
  BY DEF PlanningInv, SessionInv, StrategyInv
<1>2. TypeInv'
  BY <1>1 DEF TypeInv, mine, files, Labels, Rest
<1>3. \/ pc'[s] = "auditstore" /\ <<text[s], code[s]>> \in judged'
      \/ pc'[s] = "rejected"
      \/ pc'[s] = "audit" /\ ~ Exhausted(s)
  BY <1>1 DEF TypeInv
<1>4. SessionInv(s)'
  <2>1. StrategyInv(s)' /\ HandInv(s)' /\ LoopInv(s)' /\ GateInv(s)' /\ VettedInv(s)'
    BY <1>1, <1>3 DEF StrategyInv, HandInv, LoopInv, GateInv, VettedInv, TwoPhase, settings
  <2>2. RoundInv(s)'
    BY <1>1, <1>3 DEF SessionInv, RoundInv, Exhausted, TypeInv, SettingsInv, mine, settings
  <2>3. AuditInv(s)'
    BY <1>1, <1>3 DEF AuditInv, Passed, TypeInv, mine
  <2> QED
    BY <2>1, <2>2, <2>3 DEF SessionInv
<1>5. StepOf(s)
  BY <1>1 DEF TypeInv, StepOf, Unmoved, mine, files
<1> QED
  BY <1>2, <1>4, <1>5, FilesStay, Together

LEMMA AuditStoreStep ==
  ASSUME PlanningInv, NEW s \in Sessions, AuditStore(s)
  PROVE  PlanningInv'
<1> USE DEF AuditStore, Goto
<1>1. TypeInv /\ SessionInv(s) /\ FilesInv /\ TwoPhase
  BY DEF PlanningInv, SessionInv, StrategyInv
<1>2. TypeInv'
  BY <1>1 DEF TypeInv, mine, Labels, Rest
<1>3. pc'[s] = "auditfill" /\ pc[s] = "auditstore" /\ code'[s] = code[s]
      /\ attempt'[s] = attempt[s]
  BY <1>1 DEF TypeInv, mine
<1>4. SessionInv(s)'
  <2>1. StrategyInv(s)' /\ HandInv(s)' /\ LoopInv(s)' /\ GateInv(s)' /\ VettedInv(s)'
    BY <1>1, <1>3 DEF StrategyInv, HandInv, LoopInv, GateInv, VettedInv, TwoPhase, settings
  <2>2. RoundInv(s)' /\ AuditInv(s)'
    BY <1>1, <1>3 DEF SessionInv, RoundInv, AuditInv, TwoPhase, Passed, settings
  <2> QED
    BY <2>1, <2>2 DEF SessionInv
<1>5. FilesInv'
  BY <1>1 DEF FilesInv, AsksJudge, TwoPhase, settings
<1>6. StepOf(s)
  BY <1>1 DEF TypeInv, StepOf, Unmoved, mine
<1> QED
  BY <1>2, <1>4, <1>5, <1>6, Together

LEMMA AuditFillStep ==
  ASSUME PlanningInv, NEW s \in Sessions, AuditFill(s)
  PROVE  PlanningInv'
<1> USE DEF AuditFill, Goto
<1>1. TypeInv /\ SessionInv(s) /\ FilesInv /\ TwoPhase
  BY DEF PlanningInv, SessionInv, StrategyInv
<1>2. TypeInv'
  BY <1>1 DEF TypeInv, mine, Labels, Rest
<1>3. pc'[s] = "accepting" /\ pc[s] = "auditfill" /\ code'[s] = code[s]
      /\ attempt'[s] = attempt[s]
  BY <1>1 DEF TypeInv, mine
<1>4. EnableJudge => Passed(code[s])
  BY <1>1, <1>3 DEF SessionInv, AuditInv
<1>5. SessionInv(s)'
  <2>1. StrategyInv(s)' /\ HandInv(s)' /\ LoopInv(s)' /\ GateInv(s)' /\ VettedInv(s)'
    BY <1>1, <1>3 DEF StrategyInv, HandInv, LoopInv, GateInv, VettedInv, AsksJudge, TwoPhase,
                      settings
  <2>2. RoundInv(s)' /\ AuditInv(s)'
    BY <1>1, <1>3, <1>4 DEF SessionInv, RoundInv, AuditInv, TwoPhase, Passed, settings
  <2> QED
    BY <2>1, <2>2 DEF SessionInv
<1>6. FilesInv'
  <2>1. auditFile'.final = code[s]
    BY DEF AuditFill
  <2>2. ~ AsksJudge'
    BY <1>1 DEF AsksJudge, TwoPhase, settings
  <2> QED
    BY <1>4, <2>1, <2>2 DEF FilesInv, Passed
<1>7. StepOf(s)
  BY <1>1 DEF TypeInv, StepOf, Unmoved, mine
<1> QED
  BY <1>2, <1>5, <1>6, <1>7, Together

-----------------------------------------------------------------------------
(***************************************************************************)
(* The gateway's gate, the end of the process, and the theorems.           *)
(***************************************************************************)

\* The gate refuses a text that is no program and one that authorizes nothing,
\* so that of what a loop may leave behind it takes what a judge passed, or a
\* draft another suite's grammar has kept from the judge.
LEMMA AcceptStep ==
  ASSUME PlanningInv, NEW s \in Sessions, Accept(s)
  PROVE  PlanningInv'
<1> USE DEF Accept, Goto
<1>1. TypeInv /\ SessionInv(s)
  BY DEF PlanningInv
<1>2. TypeInv'
  BY <1>1 DEF TypeInv, mine, files, Labels, Rest
<1>3. /\ pc[s] = "accepting" /\ code'[s] = code[s] /\ attempt'[s] = attempt[s]
      /\ pc'[s] = IF Acceptable(s) THEN "accepted" ELSE "rejected"
  BY <1>1 DEF TypeInv, mine
<1>4. SessionInv(s)'
  <2>1. StrategyInv(s)' /\ RoundInv(s)' /\ HandInv(s)' /\ LoopInv(s)' /\ AuditInv(s)'
    BY <1>1, <1>3 DEF SessionInv, StrategyInv, RoundInv, HandInv, LoopInv, AuditInv, settings
  <2>2. GateInv(s)'
    BY <1>3 DEF GateInv, Acceptable, Prechecked, Prepares, Compiled, Closed
  <2>3. VettedInv(s)'
    <3>1. Acceptable(s) => code[s] # Garbage /\ code[s] # Sentinel
      BY DEF Acceptable, Prechecked, Compiled, Sentinel
    <3>2. Acceptable(s) /\ Judging(s) => Passed(code[s]) \/ Foreign(code[s])
      BY <1>1, <1>3, <3>1
         DEF SessionInv, LoopInv, AuditInv, Judging, Derived, Settled
    <3>3. Judging(s)' <=> Judging(s)
      BY <1>3 DEF Judging, AsksJudge, TwoPhase, settings
    <3> QED
      BY <1>3, <3>2, <3>3
         DEF VettedInv, Passed, Foreign, Prepares, Compiled, Closed
  <2> QED
    BY <2>1, <2>2, <2>3 DEF SessionInv
<1>5. StepOf(s)
  BY <1>1 DEF TypeInv, StepOf, Unmoved, mine, files
<1> QED
  BY <1>2, <1>4, <1>5, FilesStay, Together

LEMMA CrashStep ==
  ASSUME PlanningInv, Crash
  PROVE  PlanningInv'
<1> USE DEF Crash, Everywhere
<1>1. TypeInv /\ SettingsInv
  BY DEF PlanningInv
<1>2. TypeInv' /\ SettingsInv'
  BY <1>1 DEF TypeInv, SettingsInv, files, settings, Labels, Rest, Texts, Programs
<1>3. ASSUME NEW s \in Sessions PROVE SessionInv(s)'
  <2>1. pc'[s] = "idle" /\ attempt'[s] = 0
    OBVIOUS
  <2>2. RoundInv(s)'
    BY <1>1, <2>1 DEF RoundInv, SettingsInv, settings
  <2> QED
    BY <2>1, <2>2 DEF SessionInv, StrategyInv, HandInv, LoopInv, AuditInv, GateInv, VettedInv
<1> QED
  BY <1>2, <1>3, FilesStay DEF PlanningInv

LEMMA PlanningInvInit == Init => PlanningInv
<1> SUFFICES ASSUME Init PROVE PlanningInv
  OBVIOUS
<1> USE DEF Init, Everywhere
<1>1. TypeInv /\ SettingsInv
  BY PlanningAssumption DEF TypeInv, SettingsInv, Labels, Rest, Texts, Programs
<1>2. ASSUME NEW s \in Sessions PROVE SessionInv(s)
  <2>1. pc[s] = "idle" /\ attempt[s] = 0
    OBVIOUS
  <2>2. RoundInv(s)
    BY <1>1, <2>1 DEF RoundInv, SettingsInv
  <2> QED
    BY <2>1, <2>2 DEF SessionInv, StrategyInv, HandInv, LoopInv, AuditInv, GateInv, VettedInv
<1>3. FilesInv
  BY DEF FilesInv
<1> QED
  BY <1>1, <1>2, <1>3 DEF PlanningInv

LEMMA PlanningInvStep == PlanningInv /\ [Next]_vars => PlanningInv'
<1> SUFFICES ASSUME PlanningInv, [Next]_vars PROVE PlanningInv'
  OBVIOUS
<1>1. ASSUME NEW s \in Sessions, Submit(s) \/ Work(s) PROVE PlanningInv'
  BY <1>1, SubmitStep, RecognizeStep, ParseStep, ElicitStep, LookUpStep, ReadCodeStep,
     GenerateStep, CompilesStep, ReviewStep, JudgeStep, StoreStep, FillStep, FillMetaStep,
     CompileStep, AuditLookUpStep, AuditStep, AuditJudgeStep, AuditStoreStep, AuditFillStep,
     AcceptStep
     DEF Work
<1>2. CASE UNCHANGED vars
  <2>1. TypeInv' /\ SettingsInv' /\ FilesInv'
    BY <1>2, FilesStay DEF PlanningInv, TypeInv, SettingsInv, vars, settings, mine, files
  <2>2. ASSUME NEW s \in Sessions PROVE SessionInv(s)'
    <3>1. Unmoved(s)
      BY <1>2 DEF Unmoved, vars, mine, files
    <3> QED
      BY <3>1, OthersStay
  <2> QED
    BY <2>1, <2>2 DEF PlanningInv
<1> QED
  BY <1>1, <1>2, CrashStep DEF Next

THEOREM PlanningInvariant == Spec => []PlanningInv
<1> QED
  BY PlanningInvInit, PlanningInvStep, PTL DEF Spec

\* Every variable of the planners keeps its type, and no loop, of generation or
\* of the audit, runs more than max_retries rounds after the first, whatever the
\* models answer and however sessions and crashes interleave.
THEOREM RoundsAreBounded == Spec => []TypeOK
<1>1. PlanningInv => TypeOK
  BY DEF PlanningInv, TypeInv, TypeOK, SessionInv, RoundInv
<1> QED
  BY <1>1, PlanningInvariant, PTL

\* What an accepted plan was put through, whatever suites share the cache: it
\* authorizes something, compiles for the session's own tools and carries only
\* stated values; and where the deployment asks a judge, a judge passed it, or it
\* is a draft that the grammar of another session's suite refused, which the
\* cache kept as it was.
AcceptedPlans ==
  \A s \in Sessions : pc[s] = "accepted" =>
    /\ Compiled(code[s], s) # {} /\ Closed(Compiled(code[s], s))
    /\ code[s] \subseteq Stated(Raw)
    /\ Judging(s) => Passed(code[s]) \/ Foreign(code[s])

\* The gateway's gate and the planner's checks hold of every accepted plan, up to
\* the drafts of another suite that _write_cache keeps (AcceptedPlans).
THEOREM AcceptedPlansAreChecked == Spec => []AcceptedPlans
<1>1. PlanningInv => AcceptedPlans
  BY DEF PlanningInv, SessionInv, GateInv, VettedInv, AcceptedPlans, Acceptable, Prechecked,
         Prepares
<1> QED
  BY <1>1, PlanningInvariant, PTL

\* Where no suite refuses a draft that another accepts, every plan the gateway
\* accepts under a judge was passed by one: from whatever cache it comes, torn,
\* shared or left by a loop whose budget ran out.  Without the assumption it does
\* not hold, since the name of the cached file does not depend on the suite.
THEOREM PlansAreVetted ==
  ASSUME SuitesAgree
  PROVE  Spec => []OnlyVettedPlans
<1>1. PlanningInv => OnlyVettedPlans
  <2> SUFFICES ASSUME PlanningInv, NEW s \in Sessions, pc[s] = "accepted"
               PROVE  /\ Compiled(code[s], s) # {} /\ Closed(Compiled(code[s], s))
                      /\ code[s] \subseteq Stated(Raw)
                      /\ Judging(s) => Passed(code[s])
    BY DEF OnlyVettedPlans, Passed
  <2>1. Acceptable(s) /\ VettedInv(s)
    BY DEF PlanningInv, SessionInv, GateInv
  <2>2. Prepares(code[s], s)
    BY <2>1 DEF Acceptable
  <2>3. ~ Foreign(code[s])
    BY <2>2, SuitesAgree DEF SuitesAgree, Foreign
  <2> QED
    BY <2>1, <2>3 DEF VettedInv, Acceptable, Prechecked, Prepares
<1> QED
  BY <1>1, PlanningInvariant, PTL
=============================================================================

------------------------------- MODULE Planning -------------------------------
(***************************************************************************)
(* The planners: how a prompt becomes a program that the gateway accepts.  *)
(*                                                                         *)
(* Sessions that ask for a plan for the same prompt run concurrently, talk *)
(* to language models whose answers nobody controls, and share files on    *)
(* disk: the generated code under a name derived from the prompt and the   *)
(* planner's settings, its metadata beside it, and, for the two-phase      *)
(* planner, the audit of the code.  The files outlive the process.  The    *)
(* gateway compiles whatever the planner returns and has the last word.    *)
(*                                                                         *)
(* A program is the set of the tool calls it makes, or Garbage, a text     *)
(* outside the grammar.  A call may need the results of others; its        *)
(* identifier is its tool and its position among the calls of that tool,   *)
(* so that calls of two different programs may bear the same identifier.   *)
(***************************************************************************)
EXTENDS Naturals, FiniteSets

CONSTANTS
  Sessions,        \* the sessions that plan this prompt
  Strategies,      \* the strategies a deployment may have configured
  Budgets,         \* the retry budgets it may have configured
  Actions,         \* the tool calls programs are made of
  Needs(_),        \* the calls whose results a call uses
  IdOf(_),         \* the identifier of a call
  Answers,         \* the answers a user may give to a planner's questions
  Stated(_),       \* the calls whose values a task's text states
  Drafts,          \* what the generator may write
  Crashing,        \* the programs that crash in the runtime probe
  Canonical,       \* the program the recognizer derives from the prompt
  Tools(_),        \* the calls a session's suite offers
  EnableJudge,     \* the semantic judge is on
  HasClarifier,    \* the deployment can ask its user
  MaxCrashes,      \* bound of the model: how often the process dies
  Raw,             \* the prompt as the user wrote it
  Garbage,         \* a text that is no program
  Absent,          \* no such file
  Torn             \* a file truncated and not yet written

Texts == {Raw} \cup Answers
Programs == (SUBSET Actions) \cup {Garbage}
Ids == {IdOf(a) : a \in Actions}

Closed(c) == \A a \in c : Needs(a) \subseteq c

ASSUME PlanningAssumption ==
  /\ Budgets \subseteq Nat
  /\ Drafts \subseteq Programs
  /\ Crashing \subseteq SUBSET Actions
  /\ Canonical \subseteq Actions /\ Closed(Canonical)
  /\ \A a \in Actions : Needs(a) \subseteq Actions
  /\ \A s \in Sessions : Tools(s) \subseteq Actions
  /\ \A t \in Texts : Stated(t) \subseteq Actions
  /\ Raw \notin Answers
  /\ \A c \in Programs : c # Absent

VARIABLES
  strategy,        \* the deployment's strategy
  budget,          \* its max_retries
  recognized,      \* the prompt is in the recognizer's subset
  oneShot,         \* with no retries: the model is one generate_code serves
  pc,              \* where each session's submission stands
  text,            \* the task text it gives to the generator
  code,            \* the program it has in hand
  cover,           \* the compiled coverage program it audits
  attempt,         \* the round of the loop it is in
  codeFile,        \* the cached program
  metaFile,        \* its metadata: Absent, Torn or "whole"
  auditFile,       \* the cached audit, Absent, or Torn
  crashes,         \* how often the process died
  judged           \* ghost: the texts and programs a judge has passed

settings == <<strategy, budget, recognized, oneShot>>
mine == <<text, code, cover, attempt>>
files == <<codeFile, metaFile, auditFile>>
vars == <<settings, pc, mine, files, crashes, judged>>

(***************************************************************************)
(* What each check of a program sees.                                      *)
(***************************************************************************)

\* Statement-level calls to unknown tools are dead code and are stripped.
Compiled(c, s) == c \cap Tools(s)

\* prepare(): an unknown tool may not be assigned, no name is read before it
\* is defined.
Prepares(c, s) ==
  /\ c # Garbage
  /\ \A a \in c \ Tools(s), b \in Actions : a \notin Needs(b)
  /\ Closed(Compiled(c, s))

\* precheck_code(): every control value is stated by the text.
Prechecked(c, t) == c # Garbage /\ c \subseteq Stated(t)

\* The final program of an exhausted loop authorizes nothing.
Sentinel == {}

TwoPhase == strategy = "sufficiency-tightness"
Specialized == strategy = "specialized-codegen"

\* Strategies whose loop asks the judge; the coverage phase never does.
AsksJudge ==
  /\ EnableJudge
  /\ \/ strategy = "interactive-structuring"
     \/ strategy \in {"llm-freeform", "auto"} /\ budget > 0

\* generate_code(): one generation, no checks.
Unchecked == strategy \in {"llm-freeform", "auto"} /\ budget = 0 /\ oneShot

ExhaustedLate(s) == attempt[s] > budget + 1

Exhausted(s) == attempt[s] > budget

-----------------------------------------------------------------------------
(***************************************************************************)
(* The start of a submission: the strategy that build_planner constructs.  *)
(***************************************************************************)

Goto(s, label) == pc' = [pc EXCEPT ![s] = label]
Reject(s) == Goto(s, "rejected")
Draft(s, c) == code' = [code EXCEPT ![s] = c] /\ Goto(s, "accepting")

Submit(s) ==
  /\ pc[s] = "idle"
  /\ \/ strategy \in {"deterministic", "auto"} /\ Goto(s, "recognize")
     \/ strategy = "formal-semantic" /\ Goto(s, "parse")
     \/ strategy = "interactive-structuring" /\ Goto(s, "elicit")
     \/ (strategy = "llm-freeform" \/ Specialized \/ TwoPhase) /\ Goto(s, "lookup")
  /\ UNCHANGED <<settings, mine, files, crashes, judged>>

\* The recognizer's suite may not be deployed here; auto then falls back.
Recognize(s) ==
  /\ pc[s] = "recognize"
  /\ IF recognized /\ (strategy = "auto" => Canonical \subseteq Tools(s))
       THEN Draft(s, Canonical)
       ELSE /\ Goto(s, IF strategy = "auto" THEN "lookup" ELSE "rejected")
            /\ UNCHANGED code
  /\ UNCHANGED <<settings, text, cover, attempt, files, crashes, judged>>

\* The formal language: a text outside it, or that does not compile, is refused.
Parse(s) ==
  /\ pc[s] = "parse"
  /\ \/ Reject(s) /\ UNCHANGED code
     \/ \E c \in Drafts : Prepares(c, s) /\ Draft(s, c)
  /\ UNCHANGED <<settings, text, cover, attempt, files, crashes, judged>>

\* The elicitation model restates the task, asks, or answers uselessly.
Elicit(s) ==
  /\ pc[s] = "elicit"
  /\ \/ Goto(s, "lookup") /\ UNCHANGED text
     \/ /\ HasClarifier
        /\ \E a \in Answers : text' = [text EXCEPT ![s] = a]
        /\ Goto(s, "structure")
     \/ Reject(s) /\ UNCHANGED text
  /\ UNCHANGED <<settings, code, cover, attempt, files, crashes, judged>>

\* The round after the answers: a structured prompt, or no convergence.
Structure(s) ==
  /\ pc[s] = "structure"
  /\ \/ Goto(s, "lookup")
     \/ Reject(s)
  /\ UNCHANGED <<settings, mine, files, crashes, judged>>

-----------------------------------------------------------------------------
(***************************************************************************)
(* The generation loop: generate_code_with_self_repair, its two simpler    *)
(* kin, and the cache they share.                                          *)
(***************************************************************************)

\* The code file exists?  Its metadata are read first; torn ones do not parse.
LookUp(s) ==
  /\ pc[s] = "lookup"
  /\ \/ codeFile = Absent /\ Goto(s, "generate")
     \/ codeFile # Absent /\ metaFile = Torn /\ Reject(s)
     \/ codeFile # Absent /\ metaFile # Torn /\ Goto(s, "readcode")
  /\ attempt' = [attempt EXCEPT ![s] = 0]
  /\ UNCHANGED <<settings, text, code, cover, files, crashes, judged>>

\* A cached program is returned without any of the loop's checks.
ReadCode(s) ==
  /\ pc[s] = "readcode"
  /\ code' = [code EXCEPT ![s] = codeFile]
  /\ Goto(s, IF TwoPhase THEN "compile" ELSE "accepting")
  /\ UNCHANGED <<settings, text, cover, attempt, files, crashes, judged>>

\* One round: the model writes something, or the call (or its client) raises.
Generate(s) ==
  /\ pc[s] = "generate"
  /\ \/ Reject(s) /\ UNCHANGED <<code, attempt>>
     \/ /\ \E c \in Drafts : code' = [code EXCEPT ![s] = c]
        /\ attempt' = [attempt EXCEPT ![s] = @ + 1]
        /\ Goto(s, IF Unchecked THEN "store" ELSE "review")
  /\ UNCHANGED <<settings, text, cover, files, crashes, judged>>

\* After the last round the candidate is replaced by the sentinel, unless
\* compilation will refuse it anyway; the outcome is cached all the same.
GiveUpKept(s, problem) == code' = code

GiveUp(s, problem) ==
  code' = [code EXCEPT ![s] = IF problem = "grammar" THEN @ ELSE Sentinel]

\* The next round; a verdict that did not come in costs no round.
RepairFree(s, problem) ==
  IF problem # "intent" /\ Exhausted(s)
    THEN GiveUp(s, problem) /\ Goto(s, "store") /\ UNCHANGED attempt
    ELSE /\ Goto(s, "generate") /\ UNCHANGED code
         /\ attempt' = [attempt EXCEPT ![s] = IF problem = "intent" THEN @ - 1 ELSE @]

Repair(s, problem) ==
  /\ UNCHANGED attempt
  /\ IF ~ Exhausted(s)
       THEN Goto(s, "generate") /\ UNCHANGED code
       ELSE IF Specialized
              THEN Reject(s) /\ UNCHANGED code
              ELSE GiveUp(s, problem) /\ Goto(s, "store")

\* The specialized generator only compiles; out of rounds, it raises.
Compiles(s) ==
  /\ pc[s] = "review" /\ Specialized
  /\ IF Prepares(code[s], s)
       THEN Goto(s, "store") /\ UNCHANGED <<code, attempt>>
       ELSE Repair(s, "grammar")
  /\ UNCHANGED <<settings, text, cover, files, crashes, judged>>

\* The others: grammar, then prechecks, then the probe, then the judge.
Review(s) ==
  /\ pc[s] = "review" /\ ~ Specialized
  /\ \/ ~ Prepares(code[s], s) /\ Repair(s, "grammar")
     \/ /\ Prepares(code[s], s)
        /\ ~ Prechecked(code[s], text[s])
        /\ Repair(s, "precheck")
     \/ /\ Prepares(code[s], s) /\ Prechecked(code[s], text[s])
        /\ code[s] \in Crashing
        /\ Repair(s, "runtime")
     \/ /\ Prepares(code[s], s) /\ Prechecked(code[s], text[s])
        /\ code[s] \notin Crashing
        /\ Goto(s, IF AsksJudge THEN "judge" ELSE "store")
        /\ UNCHANGED <<code, attempt>>
  /\ UNCHANGED <<settings, text, cover, files, crashes, judged>>

\* The judge passes the program, or does not, or fails, which counts as "not".
Judge(s) ==
  /\ pc[s] = "judge"
  /\ \/ /\ judged' = judged \cup {<<text[s], code[s]>>}
        /\ Goto(s, "store")
        /\ UNCHANGED <<code, attempt>>
     \/ Repair(s, "intent") /\ UNCHANGED judged
  /\ UNCHANGED <<settings, text, cover, files, crashes>>

\* write_text truncates the file before it holds the program; then the
\* metadata, in the same way.
Store(s) ==
  /\ pc[s] = "store"
  /\ codeFile' = Garbage
  /\ Goto(s, "fill")
  /\ UNCHANGED <<settings, mine, metaFile, auditFile, crashes, judged>>

Fill(s) ==
  /\ pc[s] = "fill"
  /\ codeFile' = code[s]
  /\ metaFile' = Torn
  /\ Goto(s, "meta")
  /\ UNCHANGED <<settings, mine, auditFile, crashes, judged>>

FillMeta(s) ==
  /\ pc[s] = "meta"
  /\ metaFile' = "whole"
  /\ Goto(s, IF TwoPhase THEN "compile" ELSE "accepting")
  /\ UNCHANGED <<settings, mine, codeFile, auditFile, crashes, judged>>

-----------------------------------------------------------------------------
(***************************************************************************)
(* The second phase: an audit that may only delete calls, by identifier.   *)
(***************************************************************************)

Reduced(c, keep) == {a \in c : IdOf(a) \in keep}

\* The audit names calls of this program and keeps what they need.
Accountable(c, keep) ==
  /\ keep # {} /\ keep \subseteq {IdOf(a) : a \in c}
  /\ Closed(Reduced(c, keep))

\* What is checked of a reduced program before the judge sees it.
Fit(s, c) == Prechecked(c, text[s]) /\ Prepares(c, s) /\ c # {} /\ c \notin Crashing

Compile(s) ==
  /\ pc[s] = "compile"
  /\ IF Prepares(code[s], s) /\ Compiled(code[s], s) # {}
       THEN /\ cover' = [cover EXCEPT ![s] = Compiled(code[s], s)]
            /\ Goto(s, "auditlookup")
       ELSE Reject(s) /\ UNCHANGED cover
  /\ attempt' = [attempt EXCEPT ![s] = 0]
  /\ UNCHANGED <<settings, text, code, files, crashes, judged>>

\* The cached audit is used for the tools, the coverage program and the
\* reduced program it was made of.
AuditHitById(s) ==
  auditFile \notin {Absent, Torn} /\ Accountable(cover[s], auditFile.keep)

AuditHit(s) ==
  /\ auditFile \notin {Absent, Torn}
  /\ auditFile.tools = Tools(s)
  /\ auditFile.cover = cover[s]
  /\ Accountable(cover[s], auditFile.keep)
  /\ auditFile.final = Reduced(cover[s], auditFile.keep)

AuditLookUp(s) ==
  /\ pc[s] = "auditlookup"
  /\ \/ ~ AuditHit(s) /\ Goto(s, "audit") /\ UNCHANGED code
     \/ /\ AuditHit(s)
        /\ LET final == Reduced(cover[s], auditFile.keep) IN
             IF Fit(s, final) THEN Draft(s, final) ELSE Reject(s) /\ UNCHANGED code
  /\ UNCHANGED <<settings, text, cover, attempt, files, crashes, judged>>

\* The audit is asked for again, or the budget is spent.
AuditAgain(s) == Goto(s, IF Exhausted(s) THEN "rejected" ELSE "audit")

\* One round of the audit: identifiers to keep, a useless answer, or a raise.
Audit(s) ==
  /\ pc[s] = "audit"
  /\ attempt' = [attempt EXCEPT ![s] = @ + 1]
  /\ \/ Reject(s) /\ UNCHANGED code
     \/ Goto(s, IF attempt'[s] > budget THEN "rejected" ELSE "audit") /\ UNCHANGED code
     \/ \E keep \in SUBSET Ids :
          /\ code' = [code EXCEPT ![s] = Reduced(cover[s], keep)]
          /\ IF Accountable(cover[s], keep) /\ Fit(s, Reduced(cover[s], keep))
               THEN Goto(s, IF EnableJudge THEN "auditjudge" ELSE "auditstore")
               ELSE Goto(s, IF attempt'[s] > budget THEN "rejected" ELSE "audit")
  /\ UNCHANGED <<settings, text, cover, files, crashes, judged>>

AuditJudge(s) ==
  /\ pc[s] = "auditjudge"
  /\ \/ judged' = judged \cup {<<text[s], code[s]>>} /\ Goto(s, "auditstore")
     \/ AuditAgain(s) /\ UNCHANGED judged
  /\ UNCHANGED <<settings, mine, files, crashes>>

AuditStore(s) ==
  /\ pc[s] = "auditstore"
  /\ auditFile' = Torn
  /\ Goto(s, "auditfill")
  /\ UNCHANGED <<settings, mine, codeFile, metaFile, crashes, judged>>

AuditFill(s) ==
  /\ pc[s] = "auditfill"
  /\ auditFile' = [tools |-> Tools(s), cover |-> cover[s], final |-> code[s],
                   keep |-> {IdOf(a) : a \in code[s]}]
  /\ Goto(s, "accepting")
  /\ UNCHANGED <<settings, mine, codeFile, metaFile, crashes, judged>>

-----------------------------------------------------------------------------
(***************************************************************************)
(* The gateway's own gate, whatever planner or cache the program is from,  *)
(* and the end of the process, which only the files survive.               *)
(***************************************************************************)

Acceptable(s) ==
  /\ Prechecked(code[s], Raw)
  /\ Prepares(code[s], s)
  /\ Compiled(code[s], s) # {}

Accept(s) ==
  /\ pc[s] = "accepting"
  /\ Goto(s, IF Acceptable(s) THEN "accepted" ELSE "rejected")
  /\ UNCHANGED <<settings, mine, files, crashes, judged>>

Everywhere(value) == [s \in Sessions |-> value]

Crash ==
  /\ crashes < MaxCrashes
  /\ crashes' = crashes + 1
  /\ pc' = Everywhere("idle")
  /\ text' = Everywhere(Raw)
  /\ code' = Everywhere(Garbage)
  /\ cover' = Everywhere({})
  /\ attempt' = Everywhere(0)
  /\ UNCHANGED <<settings, files, judged>>

Init ==
  /\ strategy \in Strategies
  /\ budget \in Budgets
  /\ recognized \in {r \in BOOLEAN : r => strategy \in {"deterministic", "auto"}}
  /\ oneShot \in {o \in BOOLEAN :
                   o => strategy \in {"auto", "llm-freeform"} /\ budget = 0}
  /\ pc = Everywhere("idle")
  /\ text = Everywhere(Raw)
  /\ code = Everywhere(Garbage)
  /\ cover = Everywhere({})
  /\ attempt = Everywhere(0)
  /\ codeFile = Absent /\ metaFile = Absent /\ auditFile = Absent
  /\ crashes = 0
  /\ judged = {}

\* The steps of a submission under way.
Work(s) ==
  \/ Recognize(s) \/ Parse(s) \/ Elicit(s) \/ Structure(s)
  \/ LookUp(s) \/ ReadCode(s) \/ Generate(s)
  \/ Compiles(s) \/ Review(s) \/ Judge(s)
  \/ Store(s) \/ Fill(s) \/ FillMeta(s)
  \/ Compile(s) \/ AuditLookUp(s) \/ Audit(s) \/ AuditJudge(s)
  \/ AuditStore(s) \/ AuditFill(s)
  \/ Accept(s)

Next ==
  \/ \E s \in Sessions : Submit(s) \/ Work(s)
  \/ Crash

Spec == Init /\ [][Next]_vars

\* Every call of a model returns or raises (the client libraries time out) and
\* a thread that can go on goes on; users and crashes owe nothing.
FairSpec == Spec /\ \A s \in Sessions : WF_vars(Work(s))

-----------------------------------------------------------------------------
(***************************************************************************)
(* Properties.                                                             *)
(***************************************************************************)

Rest == {"idle", "accepted", "rejected"}
Labels == Rest \cup {"recognize", "parse", "elicit", "structure", "lookup",
  "readcode", "generate", "review", "judge", "store", "fill", "meta", "compile",
  "auditlookup", "audit", "auditjudge", "auditstore", "auditfill", "accepting"}

\* Every variable has its type and no loop runs more rounds than its budget
\* allows: one and max_retries more (generate_code_with_self_repair's claim).
TypeOK ==
  /\ pc \in [Sessions -> Labels]
  /\ text \in [Sessions -> Texts]
  /\ code \in [Sessions -> Programs]
  /\ cover \in [Sessions -> SUBSET Actions]
  /\ \A s \in Sessions : attempt[s] \in 0 .. (budget + 1)
  /\ codeFile \in Programs \cup {Absent}
  /\ metaFile \in {Absent, Torn, "whole"}

\* The program was written by a model under a judge's eyes.
Judging(s) ==
  /\ \/ AsksJudge
     \/ TwoPhase /\ EnableJudge
  /\ ~ (strategy = "auto" /\ recognized /\ code[s] = Canonical)

\* No suite's grammar refuses a draft that another's accepts.
SuitesAgree ==
  \A c \in Drafts, s, t \in Sessions : Prepares(c, s) => Prepares(c, t)

\* A plan that the gateway accepts authorizes something, compiles for this
\* session's own tools and carries only values the user stated; and where the
\* deployment has a judge, a judge has passed exactly this program: be it taken
\* from a cache that other sessions, a suite with other tools or a process that
\* died have written, or left over by a loop whose budget ran out.  The last
\* part is for suites that agree (SuitesAgree): a draft that fails the grammar in
\* the last round is cached as it is, under a name that leaves out the suite.
OnlyVettedPlans ==
  \A s \in Sessions : pc[s] = "accepted" =>
    /\ Compiled(code[s], s) # {} /\ Closed(Compiled(code[s], s))
    /\ code[s] \subseteq Stated(Raw)
    /\ Judging(s) => \E t \in Texts : <<t, code[s]>> \in judged

\* Every submission is answered, with a plan or a refusal, unless the process
\* dies first: repairs, judge failures and torn files included.
EveryPromptIsAnswered ==
  \A s \in Sessions : pc[s] \notin Rest ~> pc[s] \in Rest

\* What interactive structuring promises: a plan accepted after the user has
\* answered was generated, and judged, for that user's answers.
AnswersAreHeard ==
  \A s \in Sessions : (pc[s] = "accepted" /\ text[s] \in Answers) =>
    <<text[s], code[s]>> \in judged
=============================================================================

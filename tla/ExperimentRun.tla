---------------------------- MODULE ExperimentRun ----------------------------
(***************************************************************************)
(* The resumable experiment runners of eval/ and the analyzer of their     *)
(* results.  Each of them walks a fixed list of cells, asks a model        *)
(* or a live agent about each, appends a row to a JSONL file and may be    *)
(* stopped and resumed at any point:                                       *)
(*   "factorial"  agentdojo_factorial.py: tasks under four conditions; an  *)
(*                error is a row, retried on resume; a manifest names the  *)
(*                design; agentdojo_factorial_analysis.py reads the file.  *)
(*   "cross"      the same program with --pairs full: one row for each     *)
(*                pair of a task and an injection goal, where one is       *)
(*                inserted.                                                *)
(*   "live"       agentdojo_live_injection.py: the planned tasks under     *)
(*                policy and injection; no manifest.                       *)
(*   "st"         fable5_st_benchmark.py: two planning methods per task in *)
(*                a locked directory, whose rows name plan files by hash;  *)
(*                an outage of the provider stops the run.                 *)
(* A crash may fall between any two writes and in the middle of one.       *)
(***************************************************************************)
EXTENDS Integers, SequencesExt

CONSTANTS
  Runners,        \* the programs of the run: a subset of the four names
  Tasks,          \* the sequence of user tasks
  Goals,          \* the sequence of injection goals
  Planned,        \* the sequence of the tasks that have a cached plan
  Designs,        \* model, attack and conditions, as far as a manifest tells
  Transcripts,    \* what the agent may try: sequences of [tool, ok]
  Drafts,         \* programs a planning model may answer
  Compiling,      \* the drafts that compile
  Tears,          \* what a cut append leaves: "half" a line, or the line
                  \* "unended", without its newline
  None, Torn,     \* an absent file or entry; unreadable text
  Bare,           \* in place of a manifest: only its directory exists
  MaxStarts,      \* bound on the processes started
  MaxErrors       \* bound on the outages of a provider

ASSUME RunnerNames == Runners \subseteq {"factorial", "cross", "live", "st"}
ASSUME RunSizes == MaxStarts \in Nat /\ MaxErrors \in Nat
ASSUME RunTasks ==
  /\ Tasks \in Seq(Range(Tasks)) /\ IsInjective(Tasks)
  /\ Goals \in Seq(Range(Goals)) /\ IsInjective(Goals)
ASSUME RunPlans ==
  /\ Planned \in Seq(Range(Tasks)) /\ IsInjective(Planned)
  /\ Compiling \subseteq Drafts
ASSUME RunStatus == None \notin {0, 1, 2}

VARIABLES
  runner,         \* the program
  disk,           \* the files: manifest, results, plans, cache and summary
  proc,           \* the running process, or Nobody
  last,           \* exit status of the last process; None if it was killed
  starts, errors  \* counters for the bounds

vars == <<runner, disk, proc, last, starts, errors>>

Put(f, k, v) == [x \in DOMAIN f \union {k} |-> IF x = k THEN v ELSE f[x]]

-----------------------------------------------------------------------------
(* Cells. *)

Conditions == << [policy |-> FALSE, injection |-> FALSE],
                 [policy |-> FALSE, injection |-> TRUE],
                 [policy |-> TRUE,  injection |-> FALSE],
                 [policy |-> TRUE,  injection |-> TRUE] >>
Injecting == <<Conditions[2], Conditions[4]>>
Both == Conditions[4]
Factorial == runner \in {"factorial", "cross"}

\* A goal is part of a cell in the full cross only: elsewhere the task or the
\* method determines it.
Cell(task, goal, arm) == [task |-> task, goal |-> goal, arm |-> arm]

\* Turn n of two nested loops, the inner one of w turns.
Outer(n, w) == ((n - 1) \div w) + 1
Inner(n, w) == ((n - 1) % w) + 1

\* The cells in the order a process takes them: the conditions outside for
\* the factorial designs, the two methods in alternating order for "st".
AssignedCells ==
  [n \in 1..(Len(Conditions) * Len(Tasks)) |->
     Cell(Tasks[Inner(n, Len(Tasks))], None, Conditions[Outer(n, Len(Tasks))])]
Pairs ==
  [n \in 1..(Len(Tasks) * Len(Goals)) |->
     [task |-> Tasks[Outer(n, Len(Goals))], goal |-> Goals[Inner(n, Len(Goals))]]]
CrossCells ==
  [n \in 1..(Len(Injecting) * Len(Pairs)) |->
     Cell(Pairs[Inner(n, Len(Pairs))].task, Pairs[Inner(n, Len(Pairs))].goal,
          Injecting[Outer(n, Len(Pairs))])]
LiveCells == [i \in DOMAIN Planned |-> Cell(Planned[i], None, Both)]
Alternating(i) == IF i % 2 = 1 THEN <<"direct1", "st">> ELSE <<"st", "direct1">>
PlanningCells ==
  [n \in 1..(Len(Tasks) * 2) |->
     Cell(Tasks[Outer(n, 2)], None, Alternating(Outer(n, 2))[Inner(n, 2)])]
Work ==
  CASE runner = "factorial" -> AssignedCells
    [] runner = "cross" -> CrossCells
    [] runner = "live" -> LiveCells
    [] runner = "st" -> PlanningCells

\* What identifies a row to the program that reads it back: "live" has the
\* attack in the key, the other two leave the design to the manifest.
Key(cell, design) == <<cell, IF runner = "live" THEN design ELSE None>>
RowKey(row) == Key(row.cell, row.design)

\* The dictionary a reader fills from the lines: the last row of a key stays.
RowsAt(lines, key) == {i \in DOMAIN lines : lines[i] # Torn /\ RowKey(lines[i]) = key}
RowsOf(lines) == Range(lines) \ {Torn}
FilledFirst(lines) ==
  [key \in {RowKey(row) : row \in RowsOf(lines)} |-> lines[Min(RowsAt(lines, key))]]
Filled(lines) ==
  [key \in {RowKey(row) : row \in RowsOf(lines)} |-> lines[Max(RowsAt(lines, key))]]

\* A process runs the cells without a row and, for the two runners that
\* record an outage as a row, those whose last row is one.
Pending(rows, cell, design) ==
  \/ Key(cell, design) \notin DOMAIN rows
  \/ runner # "st" /\ rows[Key(cell, design)].outage

-----------------------------------------------------------------------------
(* The agent under evaluation: a call is checked if the policy is on, run, *)
(* and recorded with the enforcer only if it ran without an error.         *)

Permitted(policy, done, call) ==
  ~policy \/ (call.tool = "goal" /\ "goal" \notin done)
Called(policy, done, call) ==
  IF call.ok /\ Permitted(policy, done, call) THEN done \union {call.tool}
                                              ELSE done
Executed(policy, transcript) ==
  FoldLeft(LAMBDA done, call : Called(policy, done, call), {}, transcript)

\* Both outcomes are read off the final environment; the goal of an attack is
\* looked at only where one was inserted.  A task without a plan is scored
\* on the unchanged environment when the policy is on.
Live(cell) == ~(cell.arm.policy /\ cell.task \notin Range(Planned))
Effects(cell, transcript) ==
  IF Live(cell) THEN Executed(cell.arm.policy, transcript) ELSE {}
AttackedAlways(cell, effects) == "attack" \in effects
Attacked(cell, effects) == cell.arm.injection /\ "attack" \in effects

Scored(cell, effects) ==
  [cell |-> cell, design |-> proc.design, outage |-> FALSE,
   completed |-> "goal" \in effects, attack |-> Attacked(cell, effects)]
ErrorRow(cell) ==
  [cell |-> cell, design |-> proc.design, outage |-> TRUE,
   completed |-> FALSE, attack |-> FALSE]

-----------------------------------------------------------------------------
(* Starting a process. *)

Nobody == [at |-> "off"]
Process(at, resume, design) ==
  [at |-> at, resume |-> resume, design |-> design, rows |-> <<>>,
   todo |-> {}, draft |-> None, calls |-> 0, audited |-> FALSE, row |-> None]
Exit(status) == proc' = Nobody /\ last' = status

Init ==
  /\ runner \in Runners
  /\ disk = [manifest |-> None, results |-> None, unended |-> FALSE,
             plans |-> <<>>, cache |-> <<>>, summary |-> None]
  /\ proc = Nobody /\ last = None
  /\ starts = 0 /\ errors = 0

\* What is checked of the manifest before the results are touched.  A locked
\* directory is either new or resumed under the same contract; the factorial
\* runner compares the designs if there is a manifest to compare, and raises
\* on a torn one.
SameContract(design) ==
  disk.manifest \notin {None, Bare, Torn} /\ disk.manifest.design = design
Locked(resume, design) ==
  IF resume THEN SameContract(design) ELSE disk.manifest = None
Admitted(resume, design) ==
  CASE runner = "live" -> TRUE
    [] Factorial -> resume => disk.manifest = None \/ SameContract(design)
    [] runner = "st" -> Locked(resume, design)

Start(resume, design) ==
  /\ proc = Nobody /\ starts < MaxStarts
  /\ starts' = starts + 1
  /\ IF Admitted(resume, design)
       THEN /\ proc' = Process(IF runner = "live" \/ (runner = "st" /\ resume)
                                 THEN "open" ELSE "manifest", resume, design)
            /\ last' = None
       ELSE Exit(2)
  /\ UNCHANGED <<runner, disk, errors>>

WriteManifest ==
  /\ proc.at = "manifest"
  /\ disk' = [disk EXCEPT !.manifest = [design |-> proc.design, finished |-> None]]
  /\ proc' = [proc EXCEPT !.at = "open"]
  /\ UNCHANGED <<runner, last, starts, errors>>

\* What makes a file fit to be resumed: a line that is no row stops every
\* runner; "st" also refuses a second row of a cell, and a row whose plan
\* files are gone or changed.
InPlace(artifact) ==
  artifact[1] \in DOMAIN disk.plans /\ disk.plans[artifact[1]] = artifact[2]
Readable(lines) ==
  /\ Torn \notin Range(lines)
  /\ runner = "st" =>
       /\ \A i, j \in DOMAIN lines : RowKey(lines[i]) = RowKey(lines[j]) => i = j
       /\ \A row \in Range(lines) : \A a \in row.artifacts : InPlace(a)

\* Without --resume the file is truncated; with it, it is read and extended.
ModeTruncating == "w"
Mode == IF proc.resume /\ disk.results # None THEN "a" ELSE "w"
Loaded == IF proc.resume /\ disk.results # None THEN disk.results ELSE <<>>
Open ==
  /\ proc.at = "open"
  /\ IF Readable(Loaded)
       THEN LET rows == Filled(Loaded)
            IN /\ proc' = [proc EXCEPT !.at = "cell", !.rows = rows,
                     !.todo = {n \in DOMAIN Work :
                                 Pending(rows, Work[n], proc.design)}]
               /\ disk' = IF Mode = "a" THEN disk
                          ELSE [disk EXCEPT !.results = <<>>, !.unended = FALSE]
               /\ UNCHANGED last
       ELSE Exit(2) /\ UNCHANGED disk
  /\ UNCHANGED <<runner, starts, errors>>

-----------------------------------------------------------------------------
(* A cell of the agent runners: an exception becomes a row. *)

Cur == Work[Min(proc.todo)]
Busy == proc.at = "cell" /\ proc.todo # {}
Outage == errors < MaxErrors /\ errors' = errors + 1

RunAgent ==
  /\ Busy /\ runner # "st"
  /\ \/ /\ \E t \in Transcripts :
             proc' = [proc EXCEPT !.at = "append",
                                  !.row = Scored(Cur, Effects(Cur, t))]
        /\ UNCHANGED errors
     \/ /\ Live(Cur) /\ Outage
        /\ proc' = [proc EXCEPT !.at = "append", !.row = ErrorRow(Cur)]
  /\ UNCHANGED <<runner, disk, last, starts>>

-----------------------------------------------------------------------------
(* A cell of the planning benchmark: a draft, for "st" an audit of it, the *)
(* plan files and the row.  Drafts and audits are cached as they arrive.   *)

Path(kind) == <<kind, Cur.task>>
Phase1 == IF Cur.arm = "st" THEN "coverage" ELSE "direct1"
Cached(kind) == IF Path(kind) \in DOMAIN disk.cache THEN disk.cache[Path(kind)]
                                                    ELSE None

\* A draft cut short in the cache is an empty program: it compiles no more
\* than a bad one, and only a coverage plan that compiles is audited.
AfterDraft(draft) ==
  IF Cur.arm = "st" /\ draft \in Compiling THEN "audit" ELSE "write"

AskModel ==
  /\ Busy /\ runner = "st"
  /\ \/ /\ Cached(Phase1) # None
        /\ proc' = [proc EXCEPT !.draft = Cached(Phase1),
                                !.at = AfterDraft(Cached(Phase1))]
        /\ UNCHANGED <<last, errors>>
     \/ /\ Cached(Phase1) = None
        /\ \E d \in Drafts :
             proc' = [proc EXCEPT !.draft = d, !.calls = 1, !.at = "store"]
        /\ UNCHANGED <<last, errors>>
     \/ Cached(Phase1) = None /\ Outage /\ Exit(2)
  /\ UNCHANGED <<runner, disk, starts>>

StoreDraft ==
  /\ proc.at = "store"
  /\ disk' = [disk EXCEPT !.cache = Put(@, Path(Phase1), proc.draft)]
  /\ proc' = [proc EXCEPT !.at = AfterDraft(proc.draft)]
  /\ UNCHANGED <<runner, last, starts, errors>>

\* An audit is cached under the coverage plan it is about.  One that does not
\* parse makes an error row; an outage of the provider stops the process.
AskAudit ==
  /\ proc.at = "audit"
  /\ \/ /\ Cached("audit") = proc.draft
        /\ proc' = [proc EXCEPT !.at = "accepted"]
        /\ UNCHANGED <<last, errors>>
     \/ /\ Cached("audit") # proc.draft
        /\ \E next \in {"storeAudit", "write"} :
             proc' = [proc EXCEPT !.calls = @ + 1, !.audited = TRUE, !.at = next]
        /\ UNCHANGED <<last, errors>>
     \/ Cached("audit") # proc.draft /\ Outage /\ Exit(2)
  /\ UNCHANGED <<runner, disk, starts>>

StoreAudit ==
  /\ proc.at = "storeAudit"
  /\ disk' = [disk EXCEPT !.cache = Put(@, Path("audit"), proc.draft)]
  /\ proc' = [proc EXCEPT !.at = "accepted"]
  /\ UNCHANGED <<runner, last, starts, errors>>

\* The plan files of a row and what is in them: the draft of direct1; the
\* coverage plan of st and, once the audit is accepted, what it kept.
Kept(draft) == <<"kept", draft>>
PlanPathOfTask(kind) == Path("direct1")
PlanPath(kind) == Path(kind)
Artifacts ==
  IF Cur.arm = "direct1" THEN {<<PlanPath("direct1"), proc.draft>>}
  ELSE {<<PlanPath("st-coverage"), proc.draft>>} \union
       (IF proc.at = "accepted" THEN {<<PlanPath("st"), Kept(proc.draft)>>}
                                ELSE {})
Written(plans, artifacts) ==
  [path \in DOMAIN plans \union {a[1] : a \in artifacts} |->
     IF \E a \in artifacts : a[1] = path
       THEN (CHOOSE a \in artifacts : a[1] = path)[2] ELSE plans[path]]

\* phase2_reached: the second of this process's calls for the cell, or a plan.
PlanRow ==
  [cell |-> Cur, design |-> proc.design, outage |-> FALSE,
   artifacts |-> Artifacts, audited |-> proc.audited,
   reached |-> Cur.arm = "st" /\ (proc.calls > 1 \/ proc.at = "accepted")]

WritePlans ==
  /\ proc.at \in {"write", "accepted"}
  /\ disk' = [disk EXCEPT !.plans = Written(@, Artifacts)]
  /\ proc' = [proc EXCEPT !.at = "append", !.row = PlanRow]
  /\ UNCHANGED <<runner, last, starts, errors>>

-----------------------------------------------------------------------------
(* Recording, summarizing and finishing. *)

\* A line written after one without its newline ends up on that line.
Appended(line) ==
  IF disk.unended THEN [disk.results EXCEPT ![Len(disk.results)] = Torn]
                  ELSE Append(disk.results, line)

AppendRow ==
  /\ proc.at = "append"
  /\ disk' = [disk EXCEPT !.results = Appended(proc.row), !.unended = FALSE]
  /\ proc' = [Process(IF runner = "st" THEN "summary" ELSE "cell",
                      proc.resume, proc.design)
                EXCEPT !.rows = Put(proc.rows, RowKey(proc.row), proc.row),
                       !.todo = proc.todo \ {Min(proc.todo)}]
  /\ UNCHANGED <<runner, last, starts, errors>>

\* The rows of the work, counted from memory.
Done == {c \in Range(Work) : Key(c, proc.design) \in DOMAIN proc.rows}
Failed == {c \in Done : proc.rows[Key(c, proc.design)].outage}
Counts == [done |-> Cardinality(Done), failed |-> Cardinality(Failed)]

\* "st" summarizes after each row; the others at the end of the work.
SummarizeRow ==
  /\ proc.at = "summary"
  /\ disk' = [disk EXCEPT !.summary = Counts]
  /\ proc' = [proc EXCEPT !.at = "cell"]
  /\ UNCHANGED <<runner, last, starts, errors>>

Worked == proc.at = "cell" /\ proc.todo = {}
FinishPlanning ==
  /\ Worked /\ runner = "st"
  /\ Exit(0)
  /\ UNCHANGED <<runner, disk, starts, errors>>

SummarizeRun ==
  /\ Worked /\ runner # "st"
  /\ disk' = [disk EXCEPT !.summary = Counts]
  /\ proc' = [proc EXCEPT !.at = "finish"]
  /\ UNCHANGED <<runner, last, starts, errors>>

Finish ==
  /\ proc.at = "finish"
  /\ disk' = IF Factorial
               THEN [disk EXCEPT !.manifest.finished = Counts] ELSE disk
  /\ Exit(IF Failed = {} THEN 0 ELSE 1)
  /\ UNCHANGED <<runner, starts, errors>>

-----------------------------------------------------------------------------
(* A process may be killed at any point.  A file it was writing then holds *)
(* what it held before or nothing readable; an appended line may be cut.   *)

Cut ==
  CASE proc.at = "manifest" ->
         {[disk EXCEPT !.manifest = m] :
            m \in IF runner = "st" THEN {Bare, Torn} ELSE {Torn}}
    [] proc.at = "finish" /\ Factorial ->
         {[disk EXCEPT !.manifest = Torn]}
    [] proc.at = "store" -> {[disk EXCEPT !.cache = Put(@, Path(Phase1), Torn)]}
    [] proc.at \in {"write", "accepted"} ->
         {[disk EXCEPT !.plans = Written(@, {<<a[1], Torn>> : a \in Artifacts})]}
    [] proc.at = "append" ->
         {[disk EXCEPT !.results = IF t = "half" THEN Appended(Torn)
                                                 ELSE Appended(proc.row),
                       !.unended = TRUE] : t \in Tears}
    [] proc.at = "summary" \/ (Worked /\ runner # "st") ->
         {[disk EXCEPT !.summary = Torn]}
    [] OTHER -> {}

Crash ==
  /\ proc # Nobody
  /\ disk' \in {disk} \union Cut
  /\ Exit(None)
  /\ UNCHANGED <<runner, starts, errors>>

Next ==
  \/ \E resume \in BOOLEAN, design \in Designs : Start(resume, design)
  \/ WriteManifest \/ Open
  \/ RunAgent
  \/ AskModel \/ StoreDraft \/ AskAudit \/ StoreAudit \/ WritePlans
  \/ AppendRow \/ SummarizeRow \/ FinishPlanning \/ SummarizeRun \/ Finish
  \/ Crash

Spec == Init /\ [][Next]_vars

-----------------------------------------------------------------------------
(* The analyzer of the factorial results. *)

\* What load_jsonl and _index_rows demand of a results file: rows without
\* errors, no attack where nothing was inserted, one row for each task and
\* condition - in the full cross for each pair and policy - that appear.
Loadable(lines) == Torn \notin Range(lines)
Observation(row) == ~row.outage /\ (row.attack => row.cell.arm.injection)
OnePer(lines) == \A i, j \in DOMAIN lines : lines[i].cell = lines[j].cell => i = j
Indexed(lines) ==
  /\ \A row \in Range(lines) : Observation(row)
  /\ OnePer(lines)
  /\ \A row \in Range(lines), arm \in Range(Conditions) :
       Cell(row.cell.task, None, arm) \in {other.cell : other \in Range(lines)}
CrossIndexed(lines) ==
  /\ \A row \in Range(lines) : Observation(row)
  /\ OnePer(lines)
  /\ \A row \in Range(lines), arm \in Range(Injecting) :
       Cell(row.cell.task, row.cell.goal, arm)
         \in {other.cell : other \in Range(lines)}

\* analyze_rows and analyze_full_cross_rows count the tasks, the pairs and the
\* planned ones against the whole population.  The rows without injection of
\* a full cross come from another file, taken here to be in order.
Analyzable(lines) ==
  /\ Loadable(lines) /\ Indexed(lines)
  /\ {row.cell.task : row \in Range(lines)} = Range(Tasks)
  /\ Planned # <<>>
CrossAnalyzable(lines) ==
  /\ Loadable(lines) /\ CrossIndexed(lines)
  /\ {<<row.cell.task, row.cell.goal>> : row \in Range(lines)}
       = Range(Tasks) \X Range(Goals)
  /\ Planned # <<>>
Accepted(lines) ==
  IF runner = "cross" THEN CrossAnalyzable(lines) ELSE Analyzable(lines)

-----------------------------------------------------------------------------
(* Properties. *)

\* A results file written through any number of kills and resumes, in which
\* every line is a row without an error, is one the analyzer accepts once a
\* process has ended with status 0: no observation is missing or doubled.
CleanRunsAreAnalyzable ==
  (Factorial /\ last = 0
     /\ \A i \in DOMAIN disk.results :
          disk.results[i] # Torn /\ ~disk.results[i].outage)
  => Accepted(disk.results)

\* Status 0 means that the file answers every cell of the work, and that no
\* answer is the provider's outage: an outage is retried, never counted.
FinishedMeansAnswered ==
  (last = 0 /\ ~disk.unended /\ Torn \notin Range(disk.results)) =>
    \A c \in Range(Work) :
      \E d \in Designs :
        LET rows == Filled(disk.results)
        IN Key(c, d) \in DOMAIN rows /\ ~rows[Key(c, d)].outage

\* The plan files a recorded row names hold what the row says, whatever was
\* killed since and whatever other cells wrote, so that a locked directory
\* is never refused for its own artifacts.
ArtifactsBackRows ==
  (runner = "st" /\ disk.results # None) =>
    \A row \in RowsOf(disk.results) :
      \A a \in row.artifacts : InPlace(a)

\* A row that is no error was paid for: a process that resumes neither loses
\* it nor runs its cell again.
PaidRowsAreKept ==
  [][ (disk'.results # disk.results /\ disk.results # None) =>
        \/ ~proc.resume /\ proc.at = "open"
        \/ /\ proc.at = "append"
           /\ \A i \in DOMAIN disk.results :
                disk.unended \/ disk'.results[i] = disk.results[i]
           /\ \A row \in RowsOf(disk.results) :
                RowKey(row) = RowKey(proc.row) => row.outage ]_vars

\* What the runner calls the analyzer's contract, for every file it finishes:
\* see "Findings" in the README.
FinishedRunsAreAnalyzable ==
  (Factorial /\ last = 0) => Accepted(disk.results)

\* The row says that the second phase was reached if its model was asked.
PhaseTwoIsRecorded ==
  (runner = "st" /\ disk.results # None) =>
    \A row \in RowsOf(disk.results) : row.audited => row.reached

\* The summary beside a finished run counts the rows of that run.
SummaryIsCurrent ==
  last = 0 => disk.summary \notin {None, Torn}
                /\ disk.summary.done = Cardinality(Range(Work))

\* All rows of a file come from one design.
OneDesignPerFile ==
  (runner # "live" /\ disk.results # None) =>
    \A a, b \in RowsOf(disk.results) : a.design = b.design

\* A directory whose process was killed can be resumed under its contract.
InterruptedRunsResume ==
  (runner = "st" /\ disk.manifest # None) => disk.manifest \notin {Bare, Torn}
=============================================================================

---------------------------- MODULE ExecutionLedger ----------------------------
(***************************************************************************)
(* The durable ExecutionAttempt ledger of the gateway: how a permitted     *)
(* call is reserved, dispatched and settled, and what survives a failed    *)
(* write, an eviction, a deletion or a crash of the daemon.                *)
(*                                                                         *)
(* Four places hold a session's ledger: the Enforcer in memory (mem), the  *)
(* SessionStore's own copy of the document (data), the file (disk) and,    *)
(* for one call at a time, the thread that serves the request (thread).    *)
(* A session's requests are serialized by its stripe lock; sessions run    *)
(* concurrently and meet in the SessionStore, whose every commit rewrites  *)
(* the whole document.  A token is Decision.token: one call site, or one   *)
(* tuple of a loop, or one reauthorized external call.                     *)
(*                                                                         *)
(* Abstracted: the checks of the Enforcer (a call may be refused for any   *)
(* reason), prompts without an accepted plan (they hold no ledger) and the *)
(* identity of the session whose arrival evicts another one.               *)
(***************************************************************************)
EXTENDS Naturals

CONSTANTS
  Sessions,        \* session ids
  Tokens,          \* consumption tokens
  Plan,            \* Plan[s]: the tokens the plan of s authorizes
  NoRow            \* "this session has no ledger here"

Attempt == {"none", "started", "succeeded", "indeterminate"}
Row == [Tokens -> Attempt]
EmptyRow == [t \in Tokens |-> "none"]

ASSUME NoRowAssumption == NoRow \notin Row
ASSUME PlanAssumption == Plan \in [Sessions -> SUBSET Tokens]

\* How SessionStore._commit ends: published; failed with the old file in
\* place; or failed (directory fsync) with the new file already in place.
\* The last stands for a machine that then keeps the new file; one that
\* loses it behaves as "failed_before", since only a restart reads the file.
Outcome == {"published", "failed_before", "failed_after"}

\* Where the thread serving a request stands with its call.
Phase == {"idle", "admitted", "reserved", "running", "returned", "raised"}

VARIABLES
  mem,             \* mem[s]: Enforcer._attempts of the session's live channel
  data,            \* data[s]: SessionStore._data, lost in a crash
  disk,            \* disk[s]: the JSON file
  table,           \* sessions the daemon's table holds
  thread,          \* thread[s][t]: progress of the request being served
  \* What happened outside, and what was said of it (history variables).
  dispatches,      \* dispatches[s][t]: times the tool was invoked
  effect,          \* effect[s][t]: what became of the invocation
  told,            \* told[s][t]: execution_status reported to the agent
  dropped          \* sessions whose DELETE removed the file's row but failed

ledger  == <<mem, data, disk, table>>
history == <<dispatches, effect, told, dropped>>
vars    == <<ledger, thread, history>>

Effect  == {"none", "running", "returned", "unknown"}
Verdict == {"nothing", "succeeded", "indeterminate"}

TypeOK ==
  /\ mem \in [Sessions -> Row \cup {NoRow}]
  /\ data \in [Sessions -> Row \cup {NoRow}]
  /\ disk \in [Sessions -> Row \cup {NoRow}]
  /\ table \subseteq Sessions
  /\ thread \in [Sessions -> [Tokens -> Phase]]
  /\ dispatches \in [Sessions -> [Tokens -> Nat]]
  /\ effect \in [Sessions -> [Tokens -> Effect]]
  /\ told \in [Sessions -> [Tokens -> Verdict]]
  /\ dropped \subseteq Sessions

Init ==
  /\ mem = [s \in Sessions |-> NoRow]
  /\ data = [s \in Sessions |-> NoRow]
  /\ disk = [s \in Sessions |-> NoRow]
  /\ table = {}
  /\ thread = [s \in Sessions |-> [t \in Tokens |-> "idle"]]
  /\ dispatches = [s \in Sessions |-> [t \in Tokens |-> 0]]
  /\ effect = [s \in Sessions |-> [t \in Tokens |-> "none"]]
  /\ told = [s \in Sessions |-> [t \in Tokens |-> "nothing"]]
  /\ dropped = {}

-----------------------------------------------------------------------------
\* No request of s is being served: its stripe lock is free.
Idle(s) == \A t \in Tokens : thread[s][t] = "idle"

\* Mutant of Blocks: only a success makes a call unavailable.
BlocksOnlySuccess(row, t) == row # NoRow /\ row[t] = "succeeded"

\* A row has a tombstone or a success for t: the call is not available.
Blocks(row, t) == row # NoRow /\ row[t] # "none"

\* The whole document is replaced on disk first, then in memory.
Commit(o, document) ==
  /\ disk' = IF o = "failed_before" THEN disk ELSE document
  /\ data' = IF o = "published" THEN document ELSE data

\* SessionStore.update_execution_state: a KeyError, hence no write, when the
\* document has no row for the session.
UpdateExecutionState(s, row, o) ==
  /\ data[s] = NoRow => o = "failed_before"
  /\ Commit(o, [data EXCEPT ![s] = row])

\* The channel outlives its table entry while a thread still uses it.
Retained(s, row) == IF s \in table THEN row ELSE NoRow

\* Mutants of Normalized: remnants are trusted to have run, kept as they
\* are, or given a state the ledger does not know.
NormalizedAsSuccess(row) ==
  [t \in Tokens |-> IF row[t] = "started" THEN "succeeded" ELSE row[t]]
NormalizedNot(row) == row
NormalizedUnknown(row) ==
  [t \in Tokens |-> IF row[t] = "started" THEN "unknown" ELSE row[t]]

\* Crash remnants become indeterminate when a ledger is restored.
Normalized(row) ==
  [t \in Tokens |-> IF row[t] = "started" THEN "indeterminate" ELSE row[t]]

-----------------------------------------------------------------------------
\* First prompt of a session the store does not know: the plan is accepted
\* and prompt, owner and empty ledger are recorded together; a record that
\* fails withdraws the session (503).
AcceptPrompt(s, o) ==
  /\ Idle(s) /\ s \notin table /\ data[s] = NoRow
  /\ Commit(o, [data EXCEPT ![s] = EmptyRow])
  /\ IF o = "published"
       THEN /\ mem' = [mem EXCEPT ![s] = EmptyRow]
            /\ table' = table \cup {s}
       ELSE UNCHANGED <<mem, table>>
  /\ UNCHANGED <<thread, history>>

\* Mutant of Restore: the plan comes back, its ledger does not.
RestoreWithoutLedger(s, o) ==
  /\ Idle(s) /\ s \notin table /\ data[s] # NoRow /\ o = "published"
  /\ mem' = [mem EXCEPT ![s] = EmptyRow]
  /\ table' = table \cup {s}
  /\ UNCHANGED <<data, disk, thread, history>>

\* A request for a session the table lost: the channel is rebuilt from the
\* store.  Normalized remnants are written back first, and a failed write
\* refuses the restore (409).
Restore(s, o) ==
  /\ Idle(s) /\ s \notin table /\ data[s] # NoRow
  /\ LET row == Normalized(data[s]) IN
       /\ IF row = data[s] THEN o = "published" /\ UNCHANGED <<data, disk>>
                           ELSE UpdateExecutionState(s, row, o)
       /\ IF o = "published"
            THEN /\ mem' = [mem EXCEPT ![s] = row]
                 /\ table' = table \cup {s}
            ELSE UNCHANGED <<mem, table>>
  /\ UNCHANGED <<thread, history>>

\* A tool call finds its channel in the table and takes the stripe lock.
AdmitCall(s, t) ==
  /\ Idle(s) /\ s \in table /\ t \in Plan[s]
  /\ thread' = [thread EXCEPT ![s][t] = "admitted"]
  /\ UNCHANGED <<ledger, history>>

\* The call is denied or held, or its token is no longer available.
RefuseCall(s, t) ==
  /\ thread[s][t] = "admitted"
  /\ thread' = [thread EXCEPT ![s][t] = "idle"]
  /\ mem' = [mem EXCEPT ![s] = Retained(s, @)]
  /\ UNCHANGED <<data, disk, table, history>>

\* Mutant of BeginCall: a tombstone that could not be written does not stop
\* the tool.
BeginBestEffort(s, t, o) ==
  /\ thread[s][t] = "admitted"
  /\ mem[s] # NoRow /\ ~Blocks(mem[s], t)
  /\ LET row == [mem[s] EXCEPT ![t] = "started"] IN
       /\ UpdateExecutionState(s, row, o)
       /\ mem' = [mem EXCEPT ![s] = row]
  /\ thread' = [thread EXCEPT ![s][t] = "reserved"]
  /\ UNCHANGED <<table, history>>

\* Enforcer.begin: the tombstone is set in memory and written before the
\* tool may run.  A failed write leaves it in memory and runs no tool.
BeginCall(s, t, o) ==
  /\ thread[s][t] = "admitted"
  /\ mem[s] # NoRow /\ ~Blocks(mem[s], t)
  /\ LET row == [mem[s] EXCEPT ![t] = "started"] IN
       /\ UpdateExecutionState(s, row, o)
       /\ IF o = "published"
            THEN /\ thread' = [thread EXCEPT ![s][t] = "reserved"]
                 /\ mem' = [mem EXCEPT ![s] = row]
            ELSE /\ thread' = [thread EXCEPT ![s][t] = "idle"]
                 /\ mem' = [mem EXCEPT ![s] = Retained(s, row)]
  /\ UNCHANGED <<table, history>>

DispatchTool(s, t) ==
  /\ thread[s][t] = "reserved"
  /\ thread' = [thread EXCEPT ![s][t] = "running"]
  /\ dispatches' = [dispatches EXCEPT ![s][t] = @ + 1]
  /\ effect' = [effect EXCEPT ![s][t] = "running"]
  /\ UNCHANGED <<ledger, told, dropped>>

ToolReturns(s, t) ==
  /\ thread[s][t] = "running"
  /\ thread' = [thread EXCEPT ![s][t] = "returned"]
  /\ effect' = [effect EXCEPT ![s][t] = "returned"]
  /\ UNCHANGED <<ledger, dispatches, told, dropped>>

\* A timeout, a broken pipe or an error: the effect may or may not exist.
ToolRaises(s, t) ==
  /\ thread[s][t] = "running"
  /\ thread' = [thread EXCEPT ![s][t] = "raised"]
  /\ effect' = [effect EXCEPT ![s][t] = "unknown"]
  /\ UNCHANGED <<ledger, dispatches, told, dropped>>

\* Mutant of RecordSuccess: success is reported before it is durable.
RecordAndReport(s, t, o) ==
  /\ thread[s][t] = "returned"
  /\ LET row == [mem[s] EXCEPT ![t] = "succeeded"] IN
       /\ UpdateExecutionState(s, row, o)
       /\ mem' = [mem EXCEPT ![s] = Retained(s, row)]
  /\ told' = [told EXCEPT ![s][t] = "succeeded"]
  /\ thread' = [thread EXCEPT ![s][t] = "idle"]
  /\ UNCHANGED <<table, dispatches, effect, dropped>>

\* Enforcer.record (complete_external for a reauthorized call): memory says
\* succeeded before the write.  If the write fails the handler calls
\* mark_indeterminate, which leaves a succeeded attempt alone, and reports
\* an indeterminate outcome.
RecordSuccess(s, t, o) ==
  /\ thread[s][t] = "returned"
  /\ LET row == [mem[s] EXCEPT ![t] = "succeeded"] IN
       /\ UpdateExecutionState(s, row, o)
       /\ mem' = [mem EXCEPT ![s] = Retained(s, row)]
  /\ told' = [told EXCEPT ![s][t] =
                IF o = "published" THEN "succeeded" ELSE "indeterminate"]
  /\ thread' = [thread EXCEPT ![s][t] = "idle"]
  /\ UNCHANGED <<table, dispatches, effect, dropped>>

\* Enforcer.mark_indeterminate after the tool raised, or after its result
\* could not be wrapped in an envelope.
MarkIndeterminate(s, t, o) ==
  /\ thread[s][t] \in {"returned", "raised"}
  /\ LET row == [mem[s] EXCEPT ![t] =
                   IF @ = "succeeded" THEN @ ELSE "indeterminate"] IN
       /\ UpdateExecutionState(s, row, o)
       /\ mem' = [mem EXCEPT ![s] = Retained(s, row)]
  /\ told' = [told EXCEPT ![s][t] = "indeterminate"]
  /\ thread' = [thread EXCEPT ![s][t] = "idle"]
  /\ UNCHANGED <<table, dispatches, effect, dropped>>

-----------------------------------------------------------------------------
\* The arrival of another session evicts s; only the table lock is taken, so
\* a request of s may be in flight.
Evict(s) ==
  /\ s \in table
  /\ table' = table \ {s}
  /\ mem' = IF Idle(s) THEN [mem EXCEPT ![s] = NoRow] ELSE mem
  /\ UNCHANGED <<data, disk, thread, history>>

\* The history of the sessions in S is forgotten with their ledgers.
Forgotten(S) ==
  /\ dispatches' = [s \in Sessions |->
       IF s \in S THEN [t \in Tokens |-> 0] ELSE dispatches[s]]
  /\ told' = [s \in Sessions |->
       IF s \in S THEN [t \in Tokens |-> "nothing"] ELSE told[s]]

\* DELETE of a session by its owner: out of the table first, then out of
\* the store, which may fail either way.
Delete(s, o) ==
  /\ Idle(s) /\ data[s] # NoRow
  /\ table' = table \ {s}
  /\ mem' = [mem EXCEPT ![s] = NoRow]
  /\ Commit(o, [data EXCEPT ![s] = NoRow])
  /\ IF o = "published"
       THEN /\ Forgotten({s})
            /\ effect' = [effect EXCEPT ![s] = [t \in Tokens |-> "none"]]
            /\ dropped' = dropped \ {s}
       ELSE /\ dropped' = IF o = "failed_after" THEN dropped \cup {s} ELSE dropped
            /\ UNCHANGED <<dispatches, effect, told>>
  /\ UNCHANGED thread

\* The daemon dies at any point and comes back with what the file holds.  A
\* deletion that had reached the file is then complete.
Crash ==
  LET gone == {s \in dropped : disk[s] = NoRow} IN
  /\ data' = disk
  /\ mem' = [s \in Sessions |-> NoRow]
  /\ table' = {}
  /\ thread' = [s \in Sessions |-> [t \in Tokens |-> "idle"]]
  /\ Forgotten(gone)
  /\ effect' = [s \in Sessions |-> [t \in Tokens |->
       IF s \in gone THEN "none"
       ELSE IF effect[s][t] = "running" THEN "unknown" ELSE effect[s][t]]]
  /\ dropped' = {}
  /\ UNCHANGED disk

Serve(s, t) ==
  \/ AdmitCall(s, t) \/ RefuseCall(s, t)
  \/ DispatchTool(s, t) \/ ToolReturns(s, t) \/ ToolRaises(s, t)

Next ==
  \/ \E s \in Sessions, o \in Outcome :
       AcceptPrompt(s, o) \/ Restore(s, o) \/ Delete(s, o)
  \/ \E s \in Sessions, t \in Tokens : Serve(s, t)
  \/ \E s \in Sessions, t \in Tokens, o \in Outcome :
       BeginCall(s, t, o) \/ RecordSuccess(s, t, o) \/ MarkIndeterminate(s, t, o)
  \/ \E s \in Sessions : Evict(s)
  \/ Crash

Spec == Init /\ [][Next]_vars

-----------------------------------------------------------------------------
(* Properties *)

\* No tool is invoked twice for one token, whatever writes fail and however
\* often the session is evicted, restored or the daemon restarted.
AtMostOnceDispatch ==
  \A s \in Sessions, t \in Tokens : dispatches[s][t] <= 1

\* The file still blocks t after a restart, unless the whole row went with a
\* deletion the owner asked for.
FencedOnDisk(s, t) == IF disk[s] = NoRow THEN s \in dropped ELSE Blocks(disk[s], t)

\* A dispatched call is fenced in every copy a later request could consult:
\* the live Enforcer, the store's document and the file.
DispatchIsFenced ==
  \A s \in Sessions, t \in Tokens :
    dispatches[s][t] > 0 =>
      /\ mem[s] # NoRow => Blocks(mem[s], t)
      /\ Blocks(data[s], t)
      /\ FencedOnDisk(s, t)

Succeeded(row, t) == row # NoRow /\ row[t] = "succeeded"

\* No copy of the ledger claims success for a tool that did not return: a
\* crash remnant is never promoted.
SuccessIsWitnessed ==
  \A s \in Sessions, t \in Tokens :
    (Succeeded(mem[s], t) \/ Succeeded(data[s], t) \/ Succeeded(disk[s], t))
      => effect[s][t] = "returned"

\* A success reported to the agent is never forgotten: the document and the
\* file say succeeded, although other sessions' commits rewrite both.
ReportedSuccessIsDurable ==
  \A s \in Sessions, t \in Tokens :
    told[s][t] = "succeeded" =>
      /\ mem[s] # NoRow => Succeeded(mem[s], t)
      /\ Succeeded(data[s], t)
      /\ IF disk[s] = NoRow THEN s \in dropped ELSE Succeeded(disk[s], t)

\* In a session that serves no request, started is only the tombstone of a
\* reservation whose write failed: a restored remnant of a dispatch has been
\* normalized to indeterminate before any call is checked.
StartedIsUndispatched ==
  \A s \in Sessions, t \in Tokens :
    Idle(s) /\ mem[s] # NoRow /\ mem[s][t] = "started" => dispatches[s][t] = 0

-----------------------------------------------------------------------------
(* The inductive invariant: the properties above and what they rest on. *)

\* One request of a session at a time.
OneRequest ==
  \A s \in Sessions : \A t, u \in Tokens :
    thread[s][t] # "idle" /\ thread[s][u] # "idle" => t = u

\* A thread past its reservation holds a fenced call nothing was said of;
\* a reserved call has not run and is fenced on disk already.
ThreadInv ==
  \A s \in Sessions, t \in Tokens :
    /\ thread[s][t] \notin {"idle", "admitted"} =>
         Blocks(mem[s], t) /\ Blocks(data[s], t) /\ told[s][t] = "nothing"
    /\ thread[s][t] = "reserved" => dispatches[s][t] = 0 /\ FencedOnDisk(s, t)
    /\ thread[s][t] = "returned" => effect[s][t] = "returned"
    /\ thread[s][t] = "raised" => effect[s][t] = "unknown"
    /\ thread[s][t] = "running" <=> effect[s][t] = "running"

HistoryInv ==
  \A s \in Sessions, t \in Tokens :
    dispatches[s][t] = 0 <=> effect[s][t] = "none"

ToldInv ==
  \A s \in Sessions, t \in Tokens :
    effect[s][t] = "none" => told[s][t] = "nothing"

\* StartedIsUndispatched, for a session that serves a request as well.
StartedInv ==
  \A s \in Sessions, t \in Tokens :
    /\ mem[s] # NoRow /\ mem[s][t] = "started"
    /\ thread[s][t] \in {"idle", "admitted", "reserved"}
    => dispatches[s][t] = 0

LedgerInv ==
  /\ TypeOK
  /\ OneRequest
  /\ ThreadInv
  /\ HistoryInv
  /\ ToldInv
  /\ StartedInv
  /\ AtMostOnceDispatch
  /\ DispatchIsFenced
  /\ SuccessIsWitnessed
  /\ ReportedSuccessIsDurable

\* What the documentation says of a call whose outcome was reported unknown:
\* its attempt stays indeterminate and does not count as executed.
UnknownOutcomeStaysIndeterminate ==
  \A s \in Sessions, t \in Tokens :
    told[s][t] = "indeterminate" => ~Succeeded(mem[s], t)

\* Where a call stands for the operator: what became of its tool, and before
\* it ran, whether the ledger the next request consults blocks it.
StatusOf(s, t) ==
  IF effect[s][t] # "none" THEN effect[s][t]
  ELSE IF Blocks(IF mem[s] = NoRow THEN data[s] ELSE mem[s], t)
       THEN "reserved" ELSE "open"

Promise == INSTANCE AtMostOnce WITH
  Calls  <- Sessions \X Tokens,
  status <- [c \in Sessions \X Tokens |-> StatusOf(c[1], c[2])],
  told   <- [c \in Sessions \X Tokens |-> told[c[1]][c[2]]]

\* The ledger implements the at-most-once promise.
ImplementsAtMostOnce == Promise!Spec
=============================================================================

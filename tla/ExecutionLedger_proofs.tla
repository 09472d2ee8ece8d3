------------------------ MODULE ExecutionLedger_proofs ------------------------
(***************************************************************************)
(* Proofs about ExecutionLedger, for every set of sessions, tokens and     *)
(* plans: LedgerInv is inductive, hence the safety properties, and the     *)
(* ledger implements the AtMostOnce specification.                         *)
(***************************************************************************)
EXTENDS ExecutionLedger, TLAPS

Document == [Sessions -> Row \cup {NoRow}]

\* An attempt state is never confused with the absence of a ledger.
LEMMA RowFacts ==
  /\ EmptyRow \in Row
  /\ \A row \in Row : row # NoRow
  /\ \A row \in Row, t \in Tokens : row[t] \in Attempt
  /\ \A row \in Row : Normalized(row) \in Row
BY NoRowAssumption DEF Row, EmptyRow, Attempt, Normalized

\* However a commit ends, each row of the file and of the document is the
\* old one of the document, the old one of the file, or the new one; and a
\* row the commit did not change is never lost from the document.
LEMMA CommitFacts ==
  ASSUME TypeOK, NEW o \in Outcome, NEW s \in Sessions,
         NEW row \in Row \cup {NoRow},
         Commit(o, [data EXCEPT ![s] = row])
  PROVE  /\ data' \in Document /\ disk' \in Document
         /\ \A x \in Sessions \ {s} :
              /\ data'[x] = data[x]
              /\ disk'[x] \in {disk[x], data[x]}
         /\ data'[s] = IF o = "published" THEN row ELSE data[s]
         /\ disk'[s] = IF o = "failed_before" THEN disk[s] ELSE row
BY DEF TypeOK, Commit, Document, Outcome

\* The ledger is well typed in every state.
LEMMA TypeInv == LedgerInv /\ [Next]_vars => TypeOK'
<1> SUFFICES ASSUME LedgerInv, [Next]_vars PROVE TypeOK'
  OBVIOUS
<1> USE RowFacts DEF Document
<1>0. TypeOK
  BY DEF LedgerInv
<1>1. ASSUME NEW s \in Sessions, NEW o \in Outcome, AcceptPrompt(s, o)
      PROVE  TypeOK'
  <2>1. data' \in Document /\ disk' \in Document
    BY <1>0, <1>1, CommitFacts DEF AcceptPrompt
  <2>2. QED
    BY <1>0, <1>1, <2>1 DEF AcceptPrompt, TypeOK, history
<1>2. ASSUME NEW s \in Sessions, NEW o \in Outcome, Restore(s, o)
      PROVE  TypeOK'
  <2>1. data[s] \in Row /\ Normalized(data[s]) \in Row
    BY <1>0, <1>2 DEF Restore, TypeOK
  <2>2. data' \in Document /\ disk' \in Document
    BY <1>0, <1>2, <2>1, CommitFacts DEF Restore, UpdateExecutionState, TypeOK
  <2>3. QED
    BY <1>0, <1>2, <2>1, <2>2 DEF Restore, TypeOK, history
<1>3. ASSUME NEW s \in Sessions, NEW o \in Outcome, Delete(s, o)
      PROVE  TypeOK'
  <2>1. data' \in Document /\ disk' \in Document
    BY <1>0, <1>3, CommitFacts DEF Delete
  <2>2. CASE o = "published"
    <3>1. /\ mem' \in Document
          /\ table' \subseteq Sessions /\ dropped' \subseteq Sessions
          /\ thread' \in [Sessions -> [Tokens -> Phase]]
      BY <1>0, <1>3, <2>2 DEF Delete, TypeOK
    <3>2. dispatches' \in [Sessions -> [Tokens -> Nat]]
      BY <1>0, <1>3, <2>2 DEF Delete, TypeOK, Forgotten
    <3>3. told' \in [Sessions -> [Tokens -> Verdict]]
      BY <1>0, <1>3, <2>2 DEF Delete, TypeOK, Forgotten, Verdict
    <3>4. effect' \in [Sessions -> [Tokens -> Effect]]
      <4>1. [t \in Tokens |-> "none"] \in [Tokens -> Effect]
        BY DEF Effect
      <4>2. QED
        BY <1>0, <1>3, <2>2, <4>1 DEF Delete, TypeOK
    <3>5. QED
      BY <2>1, <3>1, <3>2, <3>3, <3>4 DEF TypeOK
  <2>3. CASE o # "published"
    BY <1>0, <1>3, <2>1, <2>3 DEF Delete, TypeOK
  <2>4. QED
    BY <2>2, <2>3
<1>4. ASSUME NEW s \in Sessions, NEW t \in Tokens, Serve(s, t)
      PROVE  TypeOK'
  <2>1. CASE AdmitCall(s, t)
    BY <1>0, <2>1 DEF AdmitCall, TypeOK, ledger, history, Phase
  <2>2. CASE RefuseCall(s, t)
    BY <1>0, <2>2 DEF RefuseCall, Retained, TypeOK, history, Phase
  <2>3. CASE DispatchTool(s, t)
    BY <1>0, <2>3 DEF DispatchTool, TypeOK, ledger, Phase, Effect
  <2>4. CASE ToolReturns(s, t)
    BY <1>0, <2>4 DEF ToolReturns, TypeOK, ledger, Phase, Effect
  <2>5. CASE ToolRaises(s, t)
    BY <1>0, <2>5 DEF ToolRaises, TypeOK, ledger, Phase, Effect
  <2>6. QED
    BY <1>4, <2>1, <2>2, <2>3, <2>4, <2>5 DEF Serve
<1>5. ASSUME NEW s \in Sessions, NEW t \in Tokens, NEW o \in Outcome,
             BeginCall(s, t, o)
      PROVE  TypeOK'
  <2> DEFINE row == [mem[s] EXCEPT ![t] = "started"]
  <2>1. row \in Row
    BY <1>0, <1>5 DEF BeginCall, TypeOK, Row, Attempt
  <2>2. data' \in Document /\ disk' \in Document
    BY <1>0, <1>5, <2>1, CommitFacts DEF BeginCall, UpdateExecutionState
  <2>3. mem' \in Document /\ thread' \in [Sessions -> [Tokens -> Phase]]
    <3>1. mem' = [mem EXCEPT ![s] = IF o = "published" THEN row
                                                     ELSE Retained(s, row)]
      BY <1>5 DEF BeginCall
    <3>2. thread' = [thread EXCEPT ![s][t] = IF o = "published" THEN "reserved"
                                                              ELSE "idle"]
      BY <1>5 DEF BeginCall
    <3>3. QED
      BY <1>0, <2>1, <3>1, <3>2 DEF Retained, TypeOK, Phase
  <2>4. QED
    BY <1>0, <1>5, <2>2, <2>3 DEF BeginCall, TypeOK, history
<1>6. ASSUME NEW s \in Sessions, NEW t \in Tokens, NEW o \in Outcome,
             RecordSuccess(s, t, o)
      PROVE  TypeOK'
  <2> DEFINE row == [mem[s] EXCEPT ![t] = "succeeded"]
  <2>1. mem[s] # NoRow
    BY <1>6 DEF RecordSuccess, LedgerInv, ThreadInv, Blocks
  <2>2. row \in Row
    BY <1>0, <2>1 DEF TypeOK, Row, Attempt
  <2>3. data' \in Document /\ disk' \in Document
    BY <1>0, <1>6, <2>2, CommitFacts DEF RecordSuccess, UpdateExecutionState
  <2>4. QED
    BY <1>0, <1>6, <2>2, <2>3
    DEF RecordSuccess, Retained, TypeOK, Phase, Verdict
<1>7. ASSUME NEW s \in Sessions, NEW t \in Tokens, NEW o \in Outcome,
             MarkIndeterminate(s, t, o)
      PROVE  TypeOK'
  <2> DEFINE row == [mem[s] EXCEPT ![t] =
                       IF @ = "succeeded" THEN @ ELSE "indeterminate"]
  <2>1. mem[s] # NoRow
    BY <1>7 DEF MarkIndeterminate, LedgerInv, ThreadInv, Blocks
  <2>2. row \in Row
    BY <1>0, <2>1 DEF TypeOK, Row, Attempt
  <2>3. data' \in Document /\ disk' \in Document
    BY <1>0, <1>7, <2>2, CommitFacts DEF MarkIndeterminate, UpdateExecutionState
  <2>4. QED
    BY <1>0, <1>7, <2>2, <2>3
    DEF MarkIndeterminate, Retained, TypeOK, Phase, Verdict
<1>8. ASSUME NEW s \in Sessions, Evict(s)
      PROVE  TypeOK'
  BY <1>0, <1>8 DEF Evict, TypeOK, history
<1>9. CASE Crash
  BY <1>0, <1>9 DEF Crash, Forgotten, TypeOK, Phase, Effect, Verdict
<1>10. CASE UNCHANGED vars
  BY <1>0, <1>10 DEF vars, ledger, history, TypeOK
<1>11. QED
  BY <1>1, <1>2, <1>3, <1>4, <1>5, <1>6, <1>7, <1>8, <1>9, <1>10 DEF Next

-----------------------------------------------------------------------------
\* What LedgerInv says of one call.
CallInv(s, t) ==
  /\ thread[s][t] \notin {"idle", "admitted"} =>
       Blocks(mem[s], t) /\ Blocks(data[s], t) /\ told[s][t] = "nothing"
  /\ thread[s][t] = "reserved" => dispatches[s][t] = 0 /\ FencedOnDisk(s, t)
  /\ thread[s][t] = "returned" => effect[s][t] = "returned"
  /\ thread[s][t] = "raised" => effect[s][t] = "unknown"
  /\ thread[s][t] = "running" <=> effect[s][t] = "running"
  /\ dispatches[s][t] = 0 <=> effect[s][t] = "none"
  /\ effect[s][t] = "none" => told[s][t] = "nothing"
  /\ mem[s] # NoRow /\ mem[s][t] = "started"
       /\ thread[s][t] \in {"idle", "admitted", "reserved"} => dispatches[s][t] = 0
  /\ dispatches[s][t] <= 1
  /\ dispatches[s][t] > 0 =>
       /\ mem[s] # NoRow => Blocks(mem[s], t)
       /\ Blocks(data[s], t)
       /\ FencedOnDisk(s, t)
  /\ (Succeeded(mem[s], t) \/ Succeeded(data[s], t) \/ Succeeded(disk[s], t))
       => effect[s][t] = "returned"
  /\ told[s][t] = "succeeded" =>
       /\ mem[s] # NoRow => Succeeded(mem[s], t)
       /\ Succeeded(data[s], t)
       /\ IF disk[s] = NoRow THEN s \in dropped ELSE Succeeded(disk[s], t)

\* The inductive invariant, restated one call at a time.
LEMMA LedgerInvByCall ==
  LedgerInv <=> /\ TypeOK
                /\ OneRequest
                /\ \A s \in Sessions, t \in Tokens : CallInv(s, t)
BY DEF LedgerInv, CallInv, ThreadInv, HistoryInv, ToldInv, StartedInv,
       AtMostOnceDispatch, DispatchIsFenced, SuccessIsWitnessed,
       ReportedSuccessIsDurable

\* A session the step does not serve: a commit may at most bring its row on
\* disk back to the document's.
LEMMA OtherSession ==
  ASSUME LedgerInv, NEW x \in Sessions, NEW u \in Tokens,
         mem'[x] = mem[x], data'[x] = data[x], disk'[x] \in {disk[x], data[x]},
         thread'[x] = thread[x], dispatches'[x] = dispatches[x],
         effect'[x] = effect[x], told'[x] = told[x],
         x \in dropped' <=> x \in dropped
  PROVE  CallInv(x, u)'
<1>1. CallInv(x, u) /\ TypeOK
  BY LedgerInvByCall
<1>2. QED
  BY <1>1 DEF CallInv, Blocks, FencedOnDisk, Succeeded, TypeOK

\* The steps of a request that touch no stored ledger.
LEMMA ServeStep ==
  ASSUME LedgerInv, NEW s \in Sessions, NEW t \in Tokens, Serve(s, t)
  PROVE  OneRequest' /\ \A x \in Sessions, u \in Tokens : CallInv(x, u)'
<1>0. /\ TypeOK /\ OneRequest
      /\ \A x \in Sessions, u \in Tokens : CallInv(x, u)
  BY LedgerInvByCall
<1> USE <1>0 DEF TypeOK, OneRequest, CallInv, Blocks, FencedOnDisk, Succeeded
<1>1. CASE AdmitCall(s, t)
  BY <1>1 DEF AdmitCall, ledger, history, Idle
<1>2. CASE RefuseCall(s, t)
  BY <1>2 DEF RefuseCall, history, Retained
<1>3. CASE DispatchTool(s, t)
  BY <1>3 DEF DispatchTool, ledger
<1>4. CASE ToolReturns(s, t)
  BY <1>4 DEF ToolReturns, ledger
<1>5. CASE ToolRaises(s, t)
  BY <1>5 DEF ToolRaises, ledger
<1>6. QED
  BY <1>1, <1>2, <1>3, <1>4, <1>5 DEF Serve

\* A prompt is accepted only for a session the document does not know, of
\* which, by DispatchIsFenced, nothing was ever dispatched.
LEMMA AcceptPromptStep ==
  ASSUME LedgerInv, NEW s \in Sessions, NEW o \in Outcome,
         AcceptPrompt(s, o)
  PROVE  OneRequest' /\ \A x \in Sessions, u \in Tokens : CallInv(x, u)'
<1>0. /\ TypeOK /\ OneRequest
      /\ \A x \in Sessions, u \in Tokens : CallInv(x, u)
  BY LedgerInvByCall
<1>1. /\ \A x \in Sessions \ {s} :
           data'[x] = data[x] /\ disk'[x] \in {disk[x], data[x]}
      /\ data'[s] = IF o = "published" THEN EmptyRow ELSE data[s]
      /\ disk'[s] = IF o = "failed_before" THEN disk[s] ELSE EmptyRow
  BY <1>0, CommitFacts, RowFacts DEF AcceptPrompt
<1>2. /\ \A x \in Sessions \ {s} : mem'[x] = mem[x]
      /\ mem'[s] \in {mem[s], EmptyRow}
  BY <1>0 DEF AcceptPrompt, TypeOK
<1>3. \A t \in Tokens : /\ EmptyRow[t] = "none"
                        /\ dispatches[s][t] = 0
                        /\ thread[s][t] = "idle"
  BY <1>0 DEF AcceptPrompt, Idle, EmptyRow, LedgerInv, DispatchIsFenced, Blocks, TypeOK
<1>4. EmptyRow # NoRow /\ UNCHANGED <<thread, history>>
  BY RowFacts DEF AcceptPrompt
<1>5. OneRequest'
  BY <1>0, <1>1, <1>2, <1>3, <1>4 DEF OneRequest, TypeOK
<1>6. ASSUME NEW x \in Sessions, NEW u \in Tokens PROVE CallInv(x, u)'
  <2>1. CASE x # s
    BY <1>0, <2>1, <1>1, <1>2, <1>3, <1>4, OtherSession DEF history, TypeOK
  <2>2. CASE x = s
    BY <1>0, <2>2, <1>1, <1>2, <1>3, <1>4
    DEF CallInv, Blocks, FencedOnDisk, Succeeded, history, TypeOK
  <2>3. QED
    BY <2>1, <2>2
<1>7. QED
  BY <1>5, <1>6

\* A restored ledger blocks what the document blocks, and holds no started.
LEMMA RestoreStep ==
  ASSUME LedgerInv, NEW s \in Sessions, NEW o \in Outcome,
         Restore(s, o)
  PROVE  OneRequest' /\ \A x \in Sessions, u \in Tokens : CallInv(x, u)'
<1> DEFINE row == Normalized(data[s])
<1>0. /\ TypeOK /\ OneRequest
      /\ \A x \in Sessions, u \in Tokens : CallInv(x, u)
  BY LedgerInvByCall
<1>1. row \in Row /\ row # NoRow /\ data[s] # NoRow
  BY <1>0, RowFacts DEF Restore, TypeOK
<1>2. \A t \in Tokens :
        /\ row[t] # "started"
        /\ row[t] = "none" <=> data[s][t] = "none"
        /\ row[t] = "succeeded" <=> data[s][t] = "succeeded"
        /\ thread[s][t] = "idle"
  BY <1>0, <1>1 DEF Normalized, Restore, Idle
<1>3. /\ \A x \in Sessions \ {s} :
           data'[x] = data[x] /\ disk'[x] \in {disk[x], data[x]}
      /\ data'[s] \in {data[s], row}
      /\ disk'[s] \in {disk[s], row}
  <2>1. CASE row = data[s]
    BY <2>1 DEF Restore
  <2>2. CASE row # data[s]
    <3>1. Commit(o, [data EXCEPT ![s] = row])
      BY <2>2 DEF Restore, UpdateExecutionState
    <3>2. QED
      BY <1>0, <1>1, <3>1, CommitFacts
  <2>3. QED
    BY <2>1, <2>2
<1>4. /\ \A x \in Sessions \ {s} : mem'[x] = mem[x]
      /\ mem'[s] \in {mem[s], row}
  BY <1>0 DEF Restore, TypeOK
<1>5. UNCHANGED <<thread, history>>
  BY DEF Restore
<1>6. OneRequest'
  BY <1>0, <1>1, <1>2, <1>3, <1>4, <1>5 DEF OneRequest, TypeOK
<1>7. ASSUME NEW x \in Sessions, NEW u \in Tokens PROVE CallInv(x, u)'
  <2>1. CASE x # s
    BY <1>0, <2>1, <1>1, <1>2, <1>3, <1>4, <1>5, OtherSession DEF history, TypeOK
  <2>2. CASE x = s
    BY <1>0, <2>2, <1>1, <1>2, <1>3, <1>4, <1>5
    DEF CallInv, Blocks, FencedOnDisk, Succeeded, history, TypeOK
  <2>3. QED
    BY <2>1, <2>2
<1>8. QED
  BY <1>6, <1>7

\* A token that is free in memory was never dispatched, so its tombstone
\* hides nothing; a reservation is handed to the tool only when published.
LEMMA BeginCallStep ==
  ASSUME LedgerInv, NEW s \in Sessions, NEW t \in Tokens,
         NEW o \in Outcome, BeginCall(s, t, o)
  PROVE  OneRequest' /\ \A x \in Sessions, u \in Tokens : CallInv(x, u)'
<1> DEFINE row == [mem[s] EXCEPT ![t] = "started"]
<1>0. /\ TypeOK /\ OneRequest
      /\ \A x \in Sessions, u \in Tokens : CallInv(x, u)
  BY LedgerInvByCall
<1>1. mem[s] # NoRow /\ mem[s] \in Row /\ row \in Row
  BY <1>0 DEF BeginCall, Row, Attempt, TypeOK
<1>2. /\ row # NoRow
      /\ \A u \in Tokens : row[u] = IF u = t THEN "started" ELSE mem[s][u]
  BY <1>1, RowFacts DEF Row
<1>3. dispatches[s][t] = 0
  BY <1>0 DEF BeginCall, LedgerInv, DispatchIsFenced, TypeOK
<1>4. Commit(o, [data EXCEPT ![s] = row])
  BY DEF BeginCall, UpdateExecutionState
<1>5. /\ \A x \in Sessions \ {s} :
           data'[x] = data[x] /\ disk'[x] \in {disk[x], data[x]}
      /\ data'[s] = IF o = "published" THEN row ELSE data[s]
      /\ disk'[s] = IF o = "failed_before" THEN disk[s] ELSE row
  BY <1>0, <1>1, <1>4, CommitFacts
<1>6. /\ \A x \in Sessions \ {s} : mem'[x] = mem[x]
      /\ mem'[s] \in {row, NoRow}
      /\ o = "published" => mem'[s] = row
  BY <1>0 DEF BeginCall, TypeOK, Retained
<1>7. /\ thread[s][t] = "admitted"
      /\ thread' = [thread EXCEPT ![s][t] =
                      IF o = "published" THEN "reserved" ELSE "idle"]
      /\ UNCHANGED history
  BY DEF BeginCall
<1>8. OneRequest'
  BY <1>0, <1>1, <1>2, <1>3, <1>5, <1>6, <1>7 DEF OneRequest, TypeOK
<1>9. ASSUME NEW x \in Sessions, NEW u \in Tokens PROVE CallInv(x, u)'
  <2>1. CASE x # s
    BY <1>0, <2>1, <1>1, <1>2, <1>3, <1>5, <1>6, <1>7, OtherSession DEF history, TypeOK
  <2>2. CASE x = s /\ u = t
    <3>1. thread'[s][t] = IF o = "published" THEN "reserved" ELSE "idle"
      BY <1>0, <1>7 DEF TypeOK
    <3>2. row[t] = "started" /\ CallInv(s, t)
      BY <1>0, <1>2
    <3>3. effect[s][t] = "none" /\ told[s][t] = "nothing"
      BY <1>3, <3>2 DEF CallInv
    <3>4. /\ dispatches' = dispatches /\ effect' = effect /\ told' = told
          /\ dropped' = dropped
      BY <1>7 DEF history
    <3>5. CASE o = "published"
      <4>1. mem'[s] = row /\ data'[s] = row /\ disk'[s] = row
        BY <1>5, <1>6, <3>5
      <4>2. QED
        BY <1>2, <1>3, <2>2, <3>1, <3>2, <3>3, <3>4, <3>5, <4>1
        DEF CallInv, Blocks, FencedOnDisk, Succeeded
    <3>6. CASE o # "published"
      BY <1>2, <1>3, <1>5, <1>6, <2>2, <3>1, <3>2, <3>3, <3>4, <3>6
      DEF CallInv, Blocks, FencedOnDisk, Succeeded
    <3>7. QED
      BY <3>5, <3>6
  <2>3. CASE x = s /\ u # t
    <3>1. thread'[s][u] = thread[s][u] /\ thread[s][u] = "idle"
      BY <1>0, <1>7, <2>3 DEF OneRequest, TypeOK
    <3>2. row[u] = mem[s][u] /\ CallInv(s, u)
      BY <1>0, <1>2, <2>3
    <3>3. QED
      BY <1>1, <1>2, <1>5, <1>6, <1>7, <2>3, <3>1, <3>2
      DEF CallInv, Blocks, FencedOnDisk, Succeeded, history
  <2>4. QED
    BY <2>1, <2>2, <2>3
<1>10. QED
  BY <1>8, <1>9

\* A request that ends by writing the state v of its call t and reporting w:
\* what RecordSuccess and MarkIndeterminate have in common.
Settles(s, t, o, v, w) ==
  /\ thread[s][t] \in {"returned", "raised"}
  /\ Commit(o, [data EXCEPT ![s] = [mem[s] EXCEPT ![t] = v]])
  /\ mem' = [mem EXCEPT ![s] = Retained(s, [mem[s] EXCEPT ![t] = v])]
  /\ thread' = [thread EXCEPT ![s][t] = "idle"]
  /\ told' = [told EXCEPT ![s][t] = w]
  /\ UNCHANGED <<table, dispatches, effect, dropped>>

\* Settling a call that was dispatched and came back preserves the invariant.
LEMMA SettleStep ==
  ASSUME LedgerInv, NEW s \in Sessions, NEW t \in Tokens, NEW o \in Outcome,
         NEW v \in {"succeeded", "indeterminate"}, NEW w \in Verdict,
         v = "succeeded" => effect[s][t] = "returned",
         w = "succeeded" => v = "succeeded" /\ o = "published",
         Settles(s, t, o, v, w)
  PROVE  OneRequest' /\ \A x \in Sessions, u \in Tokens : CallInv(x, u)'
<1> DEFINE row == [mem[s] EXCEPT ![t] = v]
<1>0. /\ TypeOK /\ OneRequest
      /\ \A x \in Sessions, u \in Tokens : CallInv(x, u)
  BY LedgerInvByCall
<1>1. mem[s] # NoRow /\ mem[s] \in Row /\ row \in Row
  BY <1>0 DEF Settles, CallInv, Blocks, Row, Attempt, TypeOK
<1>2. /\ row # NoRow
      /\ \A u \in Tokens : row[u] = IF u = t THEN v ELSE mem[s][u]
  BY <1>1, RowFacts DEF Row
<1>3. /\ \A x \in Sessions \ {s} :
           data'[x] = data[x] /\ disk'[x] \in {disk[x], data[x]}
      /\ data'[s] = IF o = "published" THEN row ELSE data[s]
      /\ disk'[s] = IF o = "failed_before" THEN disk[s] ELSE row
  BY <1>0, <1>1, CommitFacts DEF Settles
<1>4. /\ \A x \in Sessions \ {s} : mem'[x] = mem[x]
      /\ mem'[s] \in {row, NoRow}
  BY <1>0 DEF Settles, TypeOK, Retained
<1>5. OneRequest'
  BY <1>0 DEF Settles, OneRequest, TypeOK
<1>6. ASSUME NEW x \in Sessions, NEW u \in Tokens PROVE CallInv(x, u)'
  <2>1. CASE x # s
    BY <1>0, <1>3, <1>4, <2>1, OtherSession DEF Settles, TypeOK
  <2>2. CASE x = s /\ u = t
    <3>1. thread'[s][t] = "idle" /\ CallInv(s, t) /\ row[t] = v
      BY <1>0, <1>2 DEF Settles, TypeOK
    <3>2. told'[s][t] = w
      BY <1>0 DEF Settles, TypeOK
    <3>3. thread[s][t] \in {"returned", "raised"}
      BY DEF Settles
    <3>4. dispatches'[s][t] = dispatches[s][t] /\ effect'[s][t] = effect[s][t]
          /\ dropped' = dropped
      BY DEF Settles
    <3>5. CASE o = "published"
      BY <1>2, <1>3, <1>4, <2>2, <3>1, <3>2, <3>3, <3>4, <3>5
      DEF CallInv, Blocks, FencedOnDisk, Succeeded
    <3>6. CASE o # "published"
      BY <1>2, <1>3, <1>4, <2>2, <3>1, <3>2, <3>3, <3>4, <3>6
      DEF CallInv, Blocks, FencedOnDisk, Succeeded
    <3>7. QED
      BY <3>5, <3>6
  <2>3. CASE x = s /\ u # t
    <3>1. /\ thread'[s][u] = thread[s][u] /\ thread[s][u] = "idle"
          /\ told'[s][u] = told[s][u]
      BY <1>0, <2>3 DEF Settles, OneRequest, TypeOK
    <3>2. row[u] = mem[s][u] /\ CallInv(s, u)
      BY <1>0, <1>2, <2>3
    <3>3. dispatches'[s][u] = dispatches[s][u] /\ effect'[s][u] = effect[s][u]
          /\ dropped' = dropped
      BY DEF Settles
    <3>4. CASE o = "published"
      BY <1>1, <1>2, <1>3, <1>4, <2>3, <3>1, <3>2, <3>3, <3>4
      DEF CallInv, Blocks, FencedOnDisk, Succeeded
    <3>5. CASE o # "published"
      BY <1>1, <1>2, <1>3, <1>4, <2>3, <3>1, <3>2, <3>3, <3>5
      DEF CallInv, Blocks, FencedOnDisk, Succeeded
    <3>6. QED
      BY <3>4, <3>5
  <2>4. QED
    BY <2>1, <2>2, <2>3
<1>7. QED
  BY <1>5, <1>6

\* Enforcer.record settles a call whose tool returned as succeeded.
LEMMA RecordSuccessStep ==
  ASSUME LedgerInv, NEW s \in Sessions, NEW t \in Tokens, NEW o \in Outcome,
         RecordSuccess(s, t, o)
  PROVE  OneRequest' /\ \A x \in Sessions, u \in Tokens : CallInv(x, u)'
<1> DEFINE w == IF o = "published" THEN "succeeded" ELSE "indeterminate"
<1>1. effect[s][t] = "returned"
  BY DEF RecordSuccess, LedgerInv, ThreadInv
<1>2. w \in Verdict /\ (w = "succeeded" => o = "published")
  BY DEF Verdict
<1>3. Settles(s, t, o, "succeeded", w)
  BY DEF Settles, RecordSuccess, UpdateExecutionState
<1> HIDE DEF w
<1>4. QED
  BY <1>1, <1>2, <1>3, SettleStep

\* Enforcer.mark_indeterminate settles a call without claiming a success.
LEMMA MarkIndeterminateStep ==
  ASSUME LedgerInv, NEW s \in Sessions, NEW t \in Tokens, NEW o \in Outcome,
         MarkIndeterminate(s, t, o)
  PROVE  OneRequest' /\ \A x \in Sessions, u \in Tokens : CallInv(x, u)'
<1> DEFINE v == IF mem[s][t] = "succeeded" THEN "succeeded" ELSE "indeterminate"
<1>1. TypeOK /\ CallInv(s, t)
  BY LedgerInvByCall
<1>2. /\ thread[s][t] \in {"returned", "raised"}
      /\ mem[s] # NoRow /\ mem[s] \in Row
  BY <1>1 DEF MarkIndeterminate, CallInv, Blocks, TypeOK
<1>3. [mem[s] EXCEPT ![t] = IF @ = "succeeded" THEN @ ELSE "indeterminate"]
      = [mem[s] EXCEPT ![t] = v]
  BY <1>2 DEF Row
<1>4. v = "succeeded" => effect[s][t] = "returned"
  BY <1>1, <1>2 DEF CallInv, Succeeded
<1>5. v \in {"succeeded", "indeterminate"} /\ "indeterminate" \in Verdict
  BY DEF Verdict
<1>6. Settles(s, t, o, v, "indeterminate")
  BY <1>3 DEF Settles, MarkIndeterminate, UpdateExecutionState
<1> HIDE DEF v
<1>7. QED
  BY <1>4, <1>5, <1>6, SettleStep


\* An eviction may take the channel of an idle session, nothing else.
LEMMA EvictStep ==
  ASSUME LedgerInv, NEW s \in Sessions, Evict(s)
  PROVE  OneRequest' /\ \A x \in Sessions, u \in Tokens : CallInv(x, u)'
<1>0. /\ TypeOK /\ OneRequest
      /\ \A x \in Sessions, u \in Tokens : CallInv(x, u)
  BY LedgerInvByCall
<1>1. UNCHANGED <<data, disk, thread, history>>
  BY DEF Evict
<1>2. ASSUME NEW x \in Sessions
      PROVE  mem'[x] = mem[x] \/ (Idle(x) /\ mem'[x] = NoRow)
  <2>1. CASE Idle(s)
    BY <1>0, <2>1 DEF Evict, TypeOK
  <2>2. CASE ~Idle(s)
    BY <2>2 DEF Evict
  <2>3. QED
    BY <2>1, <2>2
<1>3. QED
  BY <1>0, <1>1, <1>2
  DEF history, OneRequest, CallInv, Blocks, FencedOnDisk, Succeeded, Idle

\* A deletion forgets the session's history with its row; one that fails
\* leaves the row in the document, so that its calls stay fenced there.
LEMMA DeleteStep ==
  ASSUME LedgerInv, NEW s \in Sessions, NEW o \in Outcome, Delete(s, o)
  PROVE  OneRequest' /\ \A x \in Sessions, u \in Tokens : CallInv(x, u)'
<1>0. /\ TypeOK /\ OneRequest
      /\ \A x \in Sessions, u \in Tokens : CallInv(x, u)
  BY LedgerInvByCall
<1>1. Commit(o, [data EXCEPT ![s] = NoRow])
  BY DEF Delete
<1>2. /\ \A x \in Sessions \ {s} :
           data'[x] = data[x] /\ disk'[x] \in {disk[x], data[x]}
      /\ data'[s] = IF o = "published" THEN NoRow ELSE data[s]
      /\ disk'[s] = IF o = "failed_before" THEN disk[s] ELSE NoRow
  BY <1>0, <1>1, CommitFacts
<1>3. /\ \A x \in Sessions \ {s} : mem'[x] = mem[x]
      /\ mem'[s] = NoRow
      /\ UNCHANGED thread
      /\ \A t \in Tokens : thread[s][t] = "idle"
  BY <1>0 DEF Delete, TypeOK, Idle
<1>4. \A x \in Sessions \ {s} :
        /\ dispatches'[x] = dispatches[x] /\ told'[x] = told[x]
        /\ effect'[x] = effect[x]
        /\ x \in dropped' <=> x \in dropped
  BY <1>0 DEF Delete, Forgotten, TypeOK
<1>5. ASSUME NEW x \in Sessions, NEW u \in Tokens PROVE CallInv(x, u)'
  <2>1. CASE x # s
    BY <1>2, <1>3, <1>4, <2>1, OtherSession
  <2>2. CASE x = s /\ o = "published"
    <3>1. /\ dispatches'[s][u] = 0 /\ told'[s][u] = "nothing"
          /\ effect'[s][u] = "none"
      BY <1>0, <2>2 DEF Delete, Forgotten, TypeOK
    <3>2. QED
      BY <1>2, <1>3, <2>2, <3>1 DEF CallInv, Blocks, FencedOnDisk, Succeeded
  <2>3. CASE x = s /\ o # "published"
    <3>1. /\ dispatches' = dispatches /\ told' = told /\ effect' = effect
          /\ dropped' = IF o = "failed_after" THEN dropped \cup {s} ELSE dropped
          /\ o \in {"failed_before", "failed_after"}
      BY <2>3 DEF Delete, Outcome
    <3>2. CallInv(s, u)
      BY <1>0
    <3>3. QED
      BY <1>2, <1>3, <2>3, <3>1, <3>2 DEF CallInv, Blocks, FencedOnDisk, Succeeded
  <2>4. QED
    BY <2>1, <2>2, <2>3
<1>6. QED
  BY <1>0, <1>3, <1>5 DEF OneRequest

\* After a crash the file decides, and it fences whatever was dispatched in
\* a session that was not deleted.
LEMMA CrashStep ==
  ASSUME LedgerInv, Crash
  PROVE  OneRequest' /\ \A x \in Sessions, u \in Tokens : CallInv(x, u)'
<1>0. TypeOK /\ \A x \in Sessions, u \in Tokens : CallInv(x, u)
  BY LedgerInvByCall
<1>1. \A x \in Sessions, u \in Tokens : thread'[x][u] = "idle" /\ mem'[x] = NoRow
  BY DEF Crash
<1>2. data' = disk /\ disk' = disk /\ dropped' = {}
  BY DEF Crash
<1>3. ASSUME NEW x \in Sessions, NEW u \in Tokens PROVE CallInv(x, u)'
  <2>1. CASE x \in dropped /\ disk[x] = NoRow
    <3>1. /\ dispatches'[x][u] = 0 /\ told'[x][u] = "nothing"
          /\ effect'[x][u] = "none"
      BY <2>1 DEF Crash, Forgotten
    <3>2. QED
      BY <1>1, <1>2, <2>1, <3>1 DEF CallInv, Blocks, FencedOnDisk, Succeeded
  <2>2. CASE ~(x \in dropped /\ disk[x] = NoRow)
    <3>1. /\ dispatches'[x][u] = dispatches[x][u] /\ told'[x][u] = told[x][u]
          /\ effect'[x][u] = IF effect[x][u] = "running" THEN "unknown"
                                                         ELSE effect[x][u]
      BY <2>2 DEF Crash, Forgotten
    <3>2. CallInv(x, u)
      BY <1>0
    <3>3. QED
      BY <1>1, <1>2, <2>2, <3>1, <3>2 DEF CallInv, Blocks, FencedOnDisk, Succeeded
  <2>3. QED
    BY <2>1, <2>2
<1>4. QED
  BY <1>1, <1>3 DEF OneRequest

-----------------------------------------------------------------------------
\* LedgerInv holds initially and every step preserves it.
LEMMA LedgerInvInit == Init => LedgerInv
BY RowFacts DEF Init, LedgerInv, TypeOK, OneRequest, ThreadInv, HistoryInv, ToldInv,
   StartedInv, AtMostOnceDispatch, DispatchIsFenced, SuccessIsWitnessed,
   ReportedSuccessIsDurable, Succeeded, Phase, Effect, Verdict

\* One case per action of Next.
LEMMA LedgerInvStep == LedgerInv /\ [Next]_vars => LedgerInv'
<1> SUFFICES ASSUME LedgerInv, [Next]_vars PROVE LedgerInv'
  OBVIOUS
<1>1. TypeOK'
  BY TypeInv
<1>2. OneRequest' /\ \A x \in Sessions, u \in Tokens : CallInv(x, u)'
  <2>1. CASE UNCHANGED vars
    <3>1. OneRequest /\ \A x \in Sessions, u \in Tokens : CallInv(x, u)
      BY LedgerInvByCall
    <3>2. QED
      BY <2>1, <3>1 DEF vars, ledger, history, OneRequest, CallInv, Blocks,
                        FencedOnDisk, Succeeded
  <2>2. QED
    BY <2>1, AcceptPromptStep, RestoreStep, DeleteStep, ServeStep, BeginCallStep,
       RecordSuccessStep, MarkIndeterminateStep, EvictStep, CrashStep DEF Next
<1>3. QED
  BY <1>1, <1>2, LedgerInvByCall DEF LedgerInv, CallInv, ThreadInv, HistoryInv, ToldInv,
     StartedInv, AtMostOnceDispatch, DispatchIsFenced, SuccessIsWitnessed,
     ReportedSuccessIsDurable, FencedOnDisk

\* The inductive invariant holds of every reachable state of the ledger.
THEOREM LedgerInvariant == Spec => []LedgerInv
BY LedgerInvInit, LedgerInvStep, PTL DEF Spec

\* Every variable of the ledger keeps its type.
THEOREM TypeCorrect == Spec => []TypeOK
<1>1. LedgerInv => TypeOK
  BY DEF LedgerInv
<1>2. QED
  BY <1>1, LedgerInvariant, PTL

\* No token is dispatched twice, whatever writes fail, however often the
\* session is evicted, deleted and restored, and wherever the daemon dies.
THEOREM NoSecondDispatch == Spec => []AtMostOnceDispatch
<1>1. LedgerInv => AtMostOnceDispatch
  BY DEF LedgerInv
<1>2. QED
  BY <1>1, LedgerInvariant, PTL

\* A dispatched call is fenced in memory, in the document and in the file.
THEOREM WriteAhead == Spec => []DispatchIsFenced
<1>1. LedgerInv => DispatchIsFenced
  BY DEF LedgerInv
<1>2. QED
  BY <1>1, LedgerInvariant, PTL

\* The ledger says succeeded only of a tool that returned.
THEOREM NoInventedSuccess == Spec => []SuccessIsWitnessed
<1>1. LedgerInv => SuccessIsWitnessed
  BY DEF LedgerInv
<1>2. QED
  BY <1>1, LedgerInvariant, PTL

\* A success the agent was told of survives every later write and crash.
THEOREM DurableSuccess == Spec => []ReportedSuccessIsDurable
<1>1. LedgerInv => ReportedSuccessIsDurable
  BY DEF LedgerInv
<1>2. QED
  BY <1>1, LedgerInvariant, PTL

\* In an idle session a started attempt is the tombstone of a reservation
\* that could not be written, never of a tool that may have run.
THEOREM StartedNeverHidesAnEffect == Spec => []StartedIsUndispatched
<1>1. LedgerInv => StartedIsUndispatched
  BY DEF LedgerInv, StartedInv, StartedIsUndispatched, Idle
<1>2. QED
  BY <1>1, LedgerInvariant, PTL

-----------------------------------------------------------------------------
(* Refinement: each step moves each call along the automaton of AtMostOnce, *)
(* or leaves it where it is.                                                *)

\* What a step may do to one call, in the terms of AtMostOnce.
CallMoves(s, t) ==
  \/ StatusOf(s, t)' = StatusOf(s, t) /\ told'[s][t] = told[s][t]
  \/ /\ StatusOf(s, t) \in {"open", "reserved"} /\ told'[s][t] = told[s][t]
     /\ StatusOf(s, t)' \in {"open", "reserved"}
  \/ StatusOf(s, t) = "reserved" /\ StatusOf(s, t)' = "running" /\ told'[s][t] = told[s][t]
  \/ /\ StatusOf(s, t) = "running" /\ told'[s][t] = told[s][t]
     /\ StatusOf(s, t)' \in {"returned", "unknown"}
  \/ /\ told[s][t] = "nothing" /\ StatusOf(s, t)' = StatusOf(s, t)
     /\ \/ told'[s][t] = "succeeded" /\ StatusOf(s, t) = "returned"
        \/ told'[s][t] = "indeterminate" /\ StatusOf(s, t) \in {"returned", "unknown"}
  \/ StatusOf(s, t)' = "open" /\ told'[s][t] = "nothing"

\* A step that leaves the outcome and the verdict of a call alone moves it
\* between open and reserved at most.
LEMMA QuietCall ==
  ASSUME NEW s \in Sessions, NEW t \in Tokens,
         effect'[s][t] = effect[s][t], told'[s][t] = told[s][t]
  PROVE  CallMoves(s, t)
BY DEF CallMoves, StatusOf

\* Every step moves every call as the abstract automaton allows, or leaves it.
LEMMA StepMovesCalls ==
  ASSUME LedgerInv, [Next]_vars, NEW x \in Sessions, NEW u \in Tokens
  PROVE  CallMoves(x, u)
<1>0. TypeOK /\ CallInv(x, u)
  BY LedgerInvByCall
<1>1. ASSUME NEW s \in Sessions, NEW o \in Outcome, Delete(s, o)
      PROVE  CallMoves(x, u)
  <2>1. CASE o = "published" /\ x = s
    <3>1. mem'[s] = NoRow /\ data'[s] = NoRow
      <4>1. Commit(o, [data EXCEPT ![s] = NoRow]) /\ mem' = [mem EXCEPT ![s] = NoRow]
        BY <1>1 DEF Delete
      <4>2. data'[s] = NoRow
        BY <1>0, <2>1, <4>1, CommitFacts
      <4>3. QED
        BY <1>0, <4>1, <4>2 DEF TypeOK
    <3>2. effect'[s][u] = "none" /\ told'[s][u] = "nothing"
      BY <1>0, <1>1, <2>1 DEF Delete, Forgotten, TypeOK
    <3>3. QED
      BY <2>1, <3>1, <3>2 DEF CallMoves, StatusOf, Blocks
  <2>2. CASE ~(o = "published" /\ x = s)
    BY <1>0, <1>1, <2>2, QuietCall DEF Delete, Forgotten, TypeOK
  <2>3. QED
    BY <2>1, <2>2
<1>2. ASSUME NEW s \in Sessions, NEW t \in Tokens, Serve(s, t)
      PROVE  CallMoves(x, u)
  <2>1. CASE DispatchTool(s, t) /\ x = s /\ u = t
    <3>1. /\ effect[x][u] = "none" /\ Blocks(mem[x], u)
          /\ effect'[x][u] = "running" /\ told'[x][u] = told[x][u]
      BY <1>0, <2>1 DEF DispatchTool, CallInv, TypeOK
    <3>2. QED
      BY <3>1 DEF CallMoves, StatusOf, Blocks
  <2>2. CASE (ToolReturns(s, t) \/ ToolRaises(s, t)) /\ x = s /\ u = t
    <3>1. /\ effect[x][u] = "running" /\ told'[x][u] = told[x][u]
          /\ effect'[x][u] \in {"returned", "unknown"}
      BY <1>0, <2>2 DEF ToolReturns, ToolRaises, CallInv, TypeOK
    <3>2. QED
      BY <3>1 DEF CallMoves, StatusOf
  <2>3. CASE AdmitCall(s, t) \/ RefuseCall(s, t) \/ ~(x = s /\ u = t)
    <3>1. effect'[x][u] = effect[x][u] /\ told'[x][u] = told[x][u]
      BY <1>0, <1>2, <2>3 DEF Serve, AdmitCall, RefuseCall, DispatchTool, ToolReturns,
         ToolRaises, history, TypeOK
    <3>2. QED
      BY <3>1, QuietCall
  <2>4. QED
    BY <1>2, <2>1, <2>2, <2>3 DEF Serve
<1>3. ASSUME NEW s \in Sessions, NEW t \in Tokens, NEW o \in Outcome,
             RecordSuccess(s, t, o) \/ MarkIndeterminate(s, t, o)
      PROVE  CallMoves(x, u)
  <2>1. CASE x = s /\ u = t
    <3>1. /\ told[x][u] = "nothing" /\ effect' = effect
          /\ effect[x][u] \in {"returned", "unknown"}
          /\ told'[x][u] \in {"succeeded", "indeterminate"}
          /\ told'[x][u] = "succeeded" => effect[x][u] = "returned"
      BY <1>0, <1>3, <2>1 DEF RecordSuccess, MarkIndeterminate, CallInv, TypeOK
    <3>2. QED
      BY <3>1 DEF CallMoves, StatusOf
  <2>2. CASE ~(x = s /\ u = t)
    <3>1. effect' = effect
      BY <1>3 DEF RecordSuccess, MarkIndeterminate
    <3>2. \E w \in Verdict : told' = [told EXCEPT ![s][t] = w]
      BY <1>3 DEF RecordSuccess, MarkIndeterminate, Verdict
    <3>3. told'[x][u] = told[x][u]
      BY <1>0, <2>2, <3>2 DEF TypeOK
    <3>4. QED
      BY <3>1, <3>3, QuietCall
  <2>3. QED
    BY <2>1, <2>2
<1>4. CASE Crash
  <2>1. CASE x \in dropped /\ disk[x] = NoRow
    BY <1>4, <2>1 DEF Crash, Forgotten, CallMoves, StatusOf, Blocks
  <2>2. CASE ~(x \in dropped /\ disk[x] = NoRow)
    <3>1. /\ told'[x][u] = told[x][u]
          /\ effect'[x][u] = IF effect[x][u] = "running" THEN "unknown"
                                                         ELSE effect[x][u]
      BY <1>4, <2>2 DEF Crash, Forgotten
    <3>2. QED
      BY <3>1 DEF CallMoves, StatusOf
  <2>3. QED
    BY <2>1, <2>2
<1>5. CASE \/ UNCHANGED vars
           \/ \E s \in Sessions : Evict(s)
           \/ \E s \in Sessions, o \in Outcome : AcceptPrompt(s, o) \/ Restore(s, o)
           \/ \E s \in Sessions, t \in Tokens, o \in Outcome : BeginCall(s, t, o)
  BY <1>5, QuietCall DEF vars, history, Evict, AcceptPrompt, Restore, BeginCall
<1>6. QED
  BY <1>1, <1>2, <1>3, <1>4, <1>5 DEF Next

\* The execution ledger implements AtMostOnce: reserved before it runs, run
\* at most once, and reported succeeded only if it returned.
THEOREM Implementation == Spec => ImplementsAtMostOnce
<1>1. Init => Promise!Init
  BY DEF Init, Promise!Init, StatusOf, Blocks
<1>2. LedgerInv /\ LedgerInv' /\ [Next]_vars => [Promise!Next]_(Promise!vars)
  <2> SUFFICES ASSUME LedgerInv, LedgerInv', [Next]_vars
               PROVE  Promise!Next
    OBVIOUS
  <2>1. /\ TypeOK' 
        /\ \A s \in Sessions, t \in Tokens : CallMoves(s, t)
    BY StepMovesCalls DEF LedgerInv
  <2>2. \A s \in Sessions, t \in Tokens :
          /\ StatusOf(s, t)' \in Promise!Status
          /\ told'[s][t] \in Promise!Verdict
    BY <2>1 DEF TypeOK, StatusOf, Effect, Verdict, Promise!Status, Promise!Verdict
  <2>3. QED
    BY <2>1, <2>2 DEF Promise!Next, Promise!Stay, Promise!Reserve, Promise!Release,
       Promise!Run, Promise!Settle, Promise!Tell, Promise!Forget, CallMoves
<1>3. QED
  BY <1>1, <1>2, LedgerInvariant, PTL DEF Spec, ImplementsAtMostOnce, Promise!Spec
=============================================================================

# A TLA+ model of PAuthGateway

PAuthGateway stands between an agent and its tools. It compiles the user's
prompt into a plan once, and from then on lets the agent make the calls that
plan contains, with the operands the plan derives from what was observed, as
often as the plan makes them. Everything else is refused, or put before the
user. This directory holds the TLA+ modules of that path, from the prompt to
the tool and to the experiments that measure it, the TLC runs over small
instances, and the theorems TLAPS proves.

    prompt --> daemon --> AgentChannel --> planner --> normalize, slices, rules
                 |                                          |
    call ------> daemon --> AgentChannel --> Gateway --> Enforcer.check
                             |-- confirmation gate, bulk gate --> user
                             |-- off-plan request -------------> user
                             |-- begin     --> SessionStore (file)
                             |-- tool runs --> provider (MCP, OpenAPI)
                             '-- record    --> envelope, SessionStore

## 1. Inventory

Paths are under `src/`.

| Component | State | Operations | Module |
|---|---|---|---|
| Enforcer (`pauth/enforcer.py`) | rules by tool, used and attempted tokens, order counts | check, begin, record, mark_indeterminate, complete_external, configure_execution_state, site_complete | ExecutionLedger, GatewaySession, CompositePlan |
| Envelope store (`pauth/envelope.py`) | signed value per symbolic text | put, get, verify | GatewaySession |
| Gateway session (`gateway/runtime/gateway.py`) | plan, pending confirmations, confirmed operands, loop counts, requests, grants, refusals | handle_tool_call, confirm, reauthorize, submit | GatewaySession |
| Composite plans (same file, `gateway/planning/composite.py`) | stages, bindings, current stage | activate, advance, handle | CompositePlan |
| Denial classification (`gateway/runtime/feedback.py`) | none | classify_reason, build_agent_feedback | GatewaySession (`NoRule`) |
| HTTP daemon (`gateway/serving/http_server.py`) | session table, owners, locks | POST, GET, DELETE, restore, eviction | SessionTable, ExecutionLedger |
| Session store (`gateway/serving/session_store.py`) | document in memory and on disk | record, update, remove, commit, load | ExecutionLedger, SessionTable |
| Agent channel (`gateway/ingress/agent_channel.py`) | prompt received, plan | prompt, tool call, status | SessionTable |
| Batched confirmation (`gateway/runtime/batched_confirmation.py`) | actions put aside | defer, barrier, commit | DeferredRun |
| Human grants (`gateway/runtime/human_authorized.py`) | single-use grants | issue, redeem, execute, stream | DeferredRun |
| MCP provider (`gateway/providers/mcp_suite.py`) | process, request ids, restart count | rpc, restart, close | McpTransport |
| Planners (`gateway/planning`, `pauth/codegen.py`, `pauth/structuring.py`) | retries, cached code, metadata and audits on disk | plan | Planning |
| Normalisation, slicer, rule compiler, taint (`pauth`, `gateway/planning`) | none | normalize, derive_slices, compile_rules, taint_map | PlanCompiler |
| Experiment runners (`eval/agentdojo_factorial.py`, `eval/agentdojo_live_injection.py`, `eval/fable5_st_benchmark.py`) and their analyzer | manifest, results, plans, caches, summary | run, resume, analyze | ExperimentRun |
| Audit log, configuration, OpenAPI provider, spec monitor, suite registry, hooks, examples | see section 6 | | not modelled |

How they interact. The daemon serves each request on a thread of its own. A
stripe lock serializes the requests of one session, so that two sessions only
meet in the session table (changed under one lock, read without it), in the
`SessionStore` (one lock, one document, rewritten as a whole by every commit),
in the planners' files and in the transport of an MCP server. Inside a session
the Gateway's `_execution_lock` serializes the agent's calls with the user's
decisions. The Enforcer calls back into the store (its *sink*) from `begin`,
`record` and `mark_indeterminate`, always before the handler goes on.

What is hard here:

* failure in the middle: a tool call is a reservation on disk, an external
  effect, and a second write; each can fail, and the daemon can die between
  any two of them, after which the plan is compiled again and the ledger
  restored while the observations, confirmations and grants are gone;
* four copies of one ledger (Enforcer, store, file, and the agent's
  understanding of it), rewritten by other sessions' commits;
* eviction of a session whose request is still running, by a request of
  another session, between two reads of two dictionaries;
* a server that dies with requests unread or answers unread, and is restarted
  while several sessions wait for it;
* state that several mechanisms read: consumption, order, loops, gates, stages
  and requests all look at what was executed, each through its own summary;
* decisions on an observation that a later observation may replace;
* language models whose answers nobody controls, with several sessions and
  processes sharing the files their answers are cached in;
* a compiler that turns one program into rules three different passes have a
  hand in (renaming, slicing, taint), while the agent chooses the order of calls;
* experiments that are killed and resumed, whose results are evidence.

`PROJECT.json` lists the hazards of the code by line, with the properties that
cover each.

## 2. Modules

| Module | Role |
|---|---|
| `AtMostOnce` | abstract: each call is reserved, runs at most once, one verdict |
| `ExecutionLedger`, `_proofs` | the durable attempts of all sessions; implements `AtMostOnce` |
| `Mandate` | abstract: what plan and user warrant, once each, on evidence of this life of the process |
| `GatewaySession`, `_proofs` | the decision path of one session; implements `Mandate` |
| `CompositePlan`, `_proofs` | plans in stages |
| `SessionRegister` | abstract: a session is one register for an owner and a plan |
| `SessionTable`, `_proofs` | threads, table, owners and store of the daemon; implements `SessionRegister` |
| `RemoteCall` | abstract: a request has a turn, is carried out in it and ends with one verdict |
| `McpTransport`, `_proofs` | the stdio transport to a server that dies; implements `RemoteCall` |
| `DeferredRun`, `_proofs` | executors that run a program themselves: direct, batched, granted, streamed |
| `Planning`, `_proofs` | from a prompt to an accepted plan, with caches and crashes |
| `PlanCompiler` | from a program to what its rules permit |
| `ExperimentRun`, `_proofs` | resumable experiments and what their analyzer accepts |
| `MC...` | the instances of section 3 |

The modules look at one system at several grains. `ExecutionLedger` takes the
Enforcer's decision as given (any call may be refused) and opens the execution
of a permitted call into its steps, with everything that may happen between two
of them. `GatewaySession` and `CompositePlan` take the execution of a call as
one step with its possible endings, which are the paths of `ExecutionLedger`,
and open the decision. `SessionTable` takes a call as served or not and opens
what a thread does before and after. `PlanCompiler` opens what the other
modules take as a constant, the rules of a plan.

### ExecutionLedger

| Model | Code |
|---|---|
| `mem[s]` | `Enforcer._attempts` of the session's channel; `_used` is the part that succeeded |
| `data[s]`, `disk[s]` | `SessionStore._data` and the JSON file |
| `table` | `_Handler.sessions` |
| `thread[s][t]` | how far `_handle_tool_call_session` is with token `t` |
| `dispatches`, `effect`, `told`, `dropped` | history: invocations, what became of them, what the agent was told, deletions half done |
| `Commit(o, document)` | `SessionStore._commit`: temporary file, fsync, `os.replace`, directory fsync, then `_data`; `o` says where it failed |
| `BeginCall`, `DispatchTool`, `ToolReturns`, `ToolRaises`, `RecordSuccess`, `MarkIndeterminate` | `_execute_authorized_tool` and `_record_authorized_result` |
| `AcceptPrompt`, `Restore`, `Evict`, `Delete`, `Crash` | first message, `restore_channel`, `_add_session`, `do_DELETE`, the end of the process |

A write that fails after `os.replace` leaves the new file in place and the old
document in memory. A later commit, of any session, then brings the old row
back to disk. This is why the invariants speak of document and file apart.

### GatewaySession

| Model | Code |
|---|---|
| `attempts`, `durable` | the Enforcer's ledger and what a restart would read |
| `store` | `EnvelopeStore`, by symbolic text |
| `asked`, `grants`, `denied` | `reauthorization_pending`, `_grants`, `_denied` |
| `held`, `confirmed`, `loop_counts` | `pending`; `confirmed` and `bulk_confirmed`; `loop_counts` |
| `consented`, `ran`, `fresh`, `overtaken` | history: approvals, dispatches, dispatches since the last restart, inversions of plan order |
| `Authorizes`, `Decides`, `Token` | `Enforcer.check(live=True)`: arity, guards, order, first free loop tuple, operands |
| `Missing`, `PassGate`, `HoldForConfirmation` | `_pre_execution_gate`: `_confirmation_gate`, then `_bulk_gate`, then policy |
| `PlannedCall`, `RunPlanned`, `RunGranted` | the rest of `_handle_tool_call_session` |
| `HoldForReauthorization`, `Reauthorize`, `Confirm` | `_hold_plan_external_call`, `_reauthorize_serialized`, `_confirm_serialized` |
| `Restart`, `DieDuringPlanned`, `DieDuringGranted` | `_accept_draft` with a restored ledger |

A rule has a call site, a tool, the text its result is stored under, guards, an
operand and at most one loop. Which operands are derived from untrusted data
(`Gated`) is a constant here and computed in `PlanCompiler`.

`Mandate` knows no rules, gates, files or counters. `Warrants` maps the plan to it:
one warrant per rule, iteration and operand that some observation may give
(`PlanWarrant`), and one per off-plan call (`GrantWarrant`). A warrant says which
calls must have returned in this life of the process, what must be approved, and
which iterations count against the cap. `made` is `ran`, `recent` is `fresh`, and
what policy `approve` waives is approved from the start.

### CompositePlan

A stage has a guard on a variable the gateway bound itself, possibly a list it
is unrolled over, and call sites. `stage`, `active`, `complete`, `failure` are
the fields of `_CompositeState`; `bindings` holds value and tool of each
variable (`binding_sources`); approvals, loop counts and attempts are kept per
stage as the code does. Every call is one action that ends, as the code does,
with the attempt to advance. Staged plans have no durable ledger
(`submit_user_prompt_composite` refuses one), so that nothing restarts here.

### SessionTable

`table` and `channels` are `_Handler.sessions`, `owners` is `session_owners`:
two dictionaries that change one after the other. A request moves through the
labels of `Pc`, one for each read or write another thread may come between:
`Lookup`/`CheckOwner`, `Whose`/`Index` (`_owner_of` tests and then indexes),
`Restore`, `Evict`/`EvictOwner`/`Insert` (`_add_session` under `_lock`),
`PromptAccepted`/`Record`, `Pop`/`RemoveStored`, `Peek`/`Tell`. `data` and `disk`
are the store as in `ExecutionLedger`. `acked` is history: the plan its caller
was told is accepted. A plan is restored by planning the prompt again, with
any result; the fingerprint decides (`Restorable`).

In `SessionRegister` there is one entry per session, which is `acked`, and a request
is what its client knows of it (`Seen`): kind, session, caller, and, once there is
one, the reply with the owner and plan it was served by. The only steps are those
that answer.

### McpTransport

A client is one request of one thread: it waits for `_lock`, checks the
subprocess (`Restart`), writes, reads, and retries or gives up. `inbox`, `working`
and `outbox` are the pipes and the server between them; `Die` may come at any
point and leaves what was printed readable. `Noise` is a line that answers nobody.
`RemoteCall` keeps of all this whose turn it is (`lock`), how often each request was
carried out, its verdict, and whether the server has printed stray lines.

### DeferredRun

The four executors over one `Enforcer`: `mode` says which. `deferred` is the queue
of a batch with the operands it was asked about, `live` the grants not yet
redeemed, `dispatched` the history the properties count.

### Planning

The loop of each planner is its rounds, with what may fail in each: generation,
parsing, repair, the prechecks, the runtime probe, the judge, tightening and its
audit, the questions of interactive structuring. `codeFile`, `metaFile` and
`auditFile` are the cache, shared by the sessions and left torn by a crash
between truncation and write. A program is the set of calls it makes, or `Garbage`.

### PlanCompiler

Programs are small syntax trees (assignments, sends, one level of branches),
and every pass is an operator: `Hoisted`, `Normalized` (with `VersionAt` for
`_ssa_rename`), the semantic checks, the slice of each call with its guards,
`SiteRules`, the taint map. `Reference` runs the program as written. The actions
are an agent's: it reads and sends in any order, and the rules are checked
against the results signed so far. The operators were compared with the code
by enumerating, in both, the programs of at most three statements after the
first read and the agent states each of them lets an agent reach: model and
code accept 690 programs and reach 13,616 states.

### ExperimentRun

`disk` holds manifest, results file, plans, cache and summary; `proc` is the running
process with its rows and the cells it has left (`todo`, as indices of `Work`, the
list of all cells). A kill may come between any two
writes and within one (`Tears`: half a line, or a line without its newline).
`Accepted` is the analyzer's verdict on a file.

## 3. Runs

| Run | Instance | Distinct states | Shows |
|---|---|---|---|
| `ledger` | two sessions, two and one calls, one store | 626,939 | five ledger invariants and the refinement of `AtMostOnce` |
| `confirmations` | a value looked up twice, then paid; an off-plan tool with two operands; policies human and reject | 196,716 | derived operands and off-plan calls run only as approved |
| `order` | an alert with two rules, of which a check finds the second due or neither, before a loop of three sends with cap 1; all policies | 65,594 | iterations are spent once, order is kept, nothing follows an unknown outcome out of turn, and the refinement of `Mandate` (with it, that the cap asks) |
| `composite` | two lookups, a fan-out of two calls over the first one's list with cap 2, a stage the second answer may close | 1,697 | stages in order, exact fan-out, inherited taint is confirmed, where a plan may come to rest |
| `mcp` | three requests, two of them tool calls, two restarts, one stray line | 22,946 | at most one send of a tool call, no answer of another, every request ends, and the refinement of `RemoteCall` (with it, that answers are earned) |
| `sessions` | two ids, two principals, two plans, two threads, a table of one, four requests, a crash | 506,245 | the owner only, acknowledged means durable, and the refinement of `SessionRegister` (with it, one plan for good) |
| `deferred` | six calls with one text read twice, gated and logged; six further calls, three of them per run | 712,526 | approvals are not exceeded, sites run once, operands are current, grants are spent once |
| `planner` | two sessions with different suites, seven strategies, budgets 0 and 1, four drafts, a crash | 312,471 | only vetted plans are accepted, every prompt is answered |
| `compiler` | 2,665 programs of up to five statements | 37,785 | effects are the program's, the honest agent is served, no taint is missed |
| `experiments` | four runners, two tasks, two goals, two transcripts, three starts, an outage | 3,577,455 | paid rows are kept, artifacts back rows, an undisturbed file is accepted |
| `merges`, `normalizing` | wider sets of programs | | findings 1 and 2 |

Why the bounds are enough. Two sessions are the least number for one commit to
rewrite another's row, for one to evict the other from a table of one, and for
one to fill the cache another reads. A plan of two calls is the least for a
later write to carry an earlier call's state. A loop is below, at and above
its cap, and a collection holds one value twice, so that counting by value and
by position differ; the fan-out's list may also be empty, too short, too long, with
one element twice, or no list.
Two restarts and three requests let a retry meet a second death and another
thread's answer. Four requests are an opening, a prompt and a call of one
session, with the eviction by another in between, or the prompt of a
second caller. In `deferred` the text of two calls coincides, so that the second
reading replaces the first one's envelope between deferral and commit.
`MaxLoop`, `MaxPending`, `MaxActions`, `MaxNoise`, `MaxRequests`, `MaxCrashes`,
`MaxStarts` and `MaxErrors` are bounds of the model where its comment says so;
commit outcomes, phases and failures are complete. `sessions` uses symmetry over
ids, principals, plans and threads, which occur in no property but by equality;
the run states no liveness.

The programs of `compiler` are one read into the test variable followed by up to
four statements, out of fifteen. Three operators state its scope, and why:
`ReadsOnce` (two places that read one tool share the text their results are
stored under), `Ordered` (merged definitions stand in order and before their
uses: finding 1) and `ElseIsPlain` (an `else` uses no renamed variable: finding 2).

Deadlock is checked in `ledger`, `confirmations` and `order`. The other systems
really stop: a plan or a program comes to its end, all requests, prompts and
process starts of the instance are used up. `RestsOnlyOnUnknown`,
`EveryRequestEnds`, `EveryPromptIsAnswered` and `FinishedMeansAnswered` say what
holds where they stop.

Fairness. `McpTransport` assumes it of the threads inside `rpc`, which the
operating system schedules, and of a live server that has a request to serve
or an answer to write; none of clients, noise or death. The second assumption
is needed: `readline` has no timeout, so that a server that stays alive and
silent keeps the lock, and every session that uses it, for ever. `Planning`
assumes that a session's thread goes on (`WF_vars(Work(s))`), a model's answer
being part of its step, and nothing of crashes. All other properties are safety
properties: between two requests the program does nothing of its own accord.

## 4. Findings

Two are runs of `PROJECT.json`; each of the others has a configuration that
gives its counterexample (`tlc -config X.cfg M` with the MC module the
configuration's constants come from). Those of 1 to 7 and
13 were also observed by running the program.

1. `MergesAreExact` (`MCMerges.cfg`). A slice takes every definition of a name
   as a choice, wherever it stands (`pauth/slicer.py:218`). If `x` is `'a'` and
   the body of `if c` is `send(x); x = 'b'`, the literal default is guarded by
   `not c`, so that with `c` true the rules permit `send('b')` and refuse the
   plan's own `send('a')`. The comment at `:101-104` says that an off-branch
   value matches none.
2. `NormalizingKeepsMeaning` (`MCNormalizing.cfg`). `_ssa_rename`
   (`pauth/normalize.py:133`) renames in a statement's body and never visits
   `stmt.orelse`, which goes on reading the old name. Lines 6-9 say the rewriting
   does not change what the code does.
3. `UnknownOutcomeStaysIndeterminate` (`MCLedgerOutcome.cfg`). When the final
   write of a call fails, the agent is told its outcome is indeterminate.
   `docs/SYSTEM_MODEL.md:660` says such an attempt stays `indeterminate`;
   `Enforcer.record` has already set it to succeeded, and `mark_indeterminate`
   leaves it so.
4. `BulkIsHeldForGood` (`MCBulkRestart.cfg`). The iteration count of a loop is
   lost in a restart, so that a loop over a literal collection gets another
   cap's worth of iterations; the docstring of `_bulk_gate` says it is held.
5. `NoExtraIteration` over an observed collection that a second call with the
   same text replaces (`MCLoopReread.cfg`): positions are spent, elements come
   back. `docs/SYSTEM_MODEL.md:558-566` speaks of consumed tuples of elements.
   Over a literal collection the property holds (run `order`).
6. `InPlanOrder` with a loop before an ordered effect (`MCLoopOrder.cfg`): one
   iteration counts as the loop having been executed. `:576` asks that all
   earlier calls have been. Without a loop before an effect it holds (`order`).
7. `OffPlanCallIsHeld` (`MCHiddenRequest.cfg`). Whether an off-plan call is put
   before the user depends on the classification of a text that contains the
   tool's name (`gateway/runtime/feedback.py:181`).
8. `LoopIsHeldOnce` (`MCCompositeLoops.cfg`). `loop_counts` and `bulk_confirmed`
   are keyed by a rule's key, which two stages may share: an approval of one
   stage's loop lets the loop of another run past the cap, where the docstring
   of `_bulk_gate` (`gateway.py:997-1000`) says a loop past the cap is held.
9. `OwnerIsServed` (`MCOwnerRefused.cfg`). `http_server.py:376-379` reads the
   session and then its owner; an eviction in between makes the owner of a
   session a stranger to it for that request (403), although the plan is in
   the store and the next request restores it.
10. `StreamIsBounded` (`MCStream.cfg`). `human_authorized.py:270-288` checks a
    streamed in-plan call and neither reserves nor records it, so that the
    agent may repeat it; the executor's other paths spend a call once.
11. `AnswersAreHeard` (`MCAnswers.cfg`). The cache path (`planner.py:302-321`) is
    made of the raw prompt. After an elicitation `interactive-structuring` may
    take code that was generated for other answers; `docs/SYSTEM_MODEL.md:399`
    says the answers are folded into what the generator gets.
12. Gaps of the experiment runners (`MCExperimentGaps.cfg`, one invariant at a
    time). A kill leaves a line without its newline, the resumed process appends
    to that line and ends with status 0 a file its analyzer refuses
    (`FinishedRunsAreAnalyzable`). An audit that fails to parse, after a resume
    that took the draft from the cache, is recorded as a second phase that was
    not reached (`PhaseTwoIsRecorded`). A kill between the last row and its
    summary leaves the summary of the row before, for good (`SummaryIsCurrent`).
    A kill between the manifest of a new design and the truncation of the old
    results lets a resume extend these under the new design
    (`OneDesignPerFile`). A directory whose process was killed before its
    manifest was whole can be neither resumed nor started
    (`InterruptedRunsResume`).
13. `OnlyVettedPlans` for suites with different tools (`MCOtherSuite.cfg`).
    `build_cache_path` (`planner.py:302-321`) leaves out the suite's name. A
    draft that fails the grammar of one suite in the last round is cached as it
    is; a session with another suite, whose grammar accepts it, takes it from
    there, and the gateway's own gate has no judge. The comment at
    `agentic_planner.py:843-851` says that "downstream" rejects such a draft on
    grammar. In run `planner` the suites accept the same drafts, and it holds.

## 5. Proofs

`ExecutionLedger_proofs` proves, for every set of sessions and tokens and every
plan, all properties of the run `ledger` and type correctness. Assumed are only
that the sentinel `NoRow` is no row and that a plan is a set of tokens per
session. The invariant is `LedgerInv`, since the wanted properties are not
inductive:

* `AtMostOnceDispatch` needs that a token which is free in memory was never
  dispatched, which is `DispatchIsFenced`;
* `DispatchIsFenced` must hold in memory, document and file at once, because a
  restore reads the document, a crash the file, and a commit that failed late
  sets them apart (`CommitFacts`, `OtherSession`);
* both need to know what the serving thread holds between its steps
  (`ThreadInv`), and that there is one request at a time (`OneRequest`);
* `SuccessIsWitnessed` and `ReportedSuccessIsDurable` need what the tool's
  outcome and the agent's verdict say of each other (`HistoryInv`, `ToldInv`);
* `StartedIsUndispatched` speaks of idle sessions and is strengthened to those
  that have not dispatched yet (`StartedInv`).

`Implementation` proves the refinement: `StepMovesCalls` shows that every step
moves every call along the abstract automaton, or leaves it.

`GatewaySession_proofs` proves, for every plan, suite, policy and bound,
`TypeOK`, `OperandsAreConfirmed`, `ReauthorizationIsExclusive` and
`BulkIsHeld`. Assumed are: the plan calls tools of the suite; two rules of one
site have the same tool and agree on being a loop, and no rule of another site
stands between them; what rules compare is observed; the bounds are natural
numbers. The inductive invariant is `SessionInv`: what the gates take as
approved was approved, or confirmed by policy `approve` (`GatesInv`); the number
of iterations since the restart is at most the counter until the loop is
confirmed (`CountInv`; the counter may run ahead, never behind); tokens of plan
calls and of off-plan calls are disjoint (`TokenFacts`).

The properties of the run `order` do not hold for every plan. The theorems
state the condition, which is what findings 5 and 6 violate and nothing else:

* `NoExtraIteration` under `SteadyLoops`: a collection is a literal, or is observed
  by one call site without a loop. `LoopInv` then fixes, for each loop, one
  sequence that its iterations went through by position;
* `InPlanOrder` and `NothingAfterUnknown` under `SteadyOrder`: an effect that others
  wait for is no loop, and each observation its guards read comes from one call
  site. A site that was passed over is then dead for good, although a restart
  forgets the observation (`Dead`, `OrderInv`), and one that ran was due for good
  (`DueInv`).

All three need `FenceInv` (a dispatched token is free in no copy of the ledger)
and `ObservedInv` (what is in the store was produced by a call).

`SessionKeepsItsMandate` proves, without any condition on the plan's loops and
order, that the session implements `Mandate`. It joins the properties above into
one statement and adds two: a call is made with an operand that a plan or a user
gave, and on observations of this life of the process only. `EvidenceInv` says where
an observation comes from: a call that returned since the last restart
(`EvidenceStays`, `EvidenceStep`). Then what the Enforcer decides is due
(`DecidedIsDue`), what passes the gates is approved (`PassedIsApproved`, with
`CountInv` of `SessionInv` for the cap), a grant is due (`GrantIsDue`, with `FenceInv`),
and each action maps to a step or a stutter (`RunPlannedKeeps` to `AnswersKeep`). A
process that dies in the middle of a call takes one step of `Mandate`, its `Restart`.
`OperandAssumption` is the form of a rule that the model gives it; `BulkIsHeld` and
`OperandsAreConfirmed` remain theorems of their own.

`CompositePlan_proofs` proves all four properties of the run `composite`, for
every plan that the validation accepts, every folding and policy.

* `NothingEarly`: variables are bound by the first answer only, so that what let
  a stage in holds for good (`Let`, `EntryInv`); the landing of an advance is
  reached through stages that were let in.
* `UntrustedIsConfirmed`: approvals are kept per stage (`ConsentInv`), and what was
  attempted stays backed by one (`Backed`), as the taint a stage inherits is
  fixed by the bindings that let it in.
* `RestsOnlyOnUnknown`: a stage in which nothing was attempted has a call left,
  because what its first site reads nobody has observed (`FirstCallIsLeft`).
* `FanoutIsExact`: the calls made with an element are put in one-to-one
  correspondence with the places of its template and list they are due at, so
  that they are counted for lists of any length (`FanInv`, `LeftInv`).

Of its assumptions, `PlanAssumption`, `StageAssumption` and `TemplateAssumption` are
what the validation and the executor's restrictions check; `FirstStageAssumption` and
`LoopAssumption` are of the model: a stage that only loops over an empty literal
collection is entered by the code and never left.

`DeferredRun_proofs` proves all four properties of the run `deferred` for any
program of reads and effects, in any of the four modes. The histories are
sequences that are counted in; the proofs count sets of indices, which grow by
the next one or not at all. `DispatchIsCurrent` follows from what each step checks.
`SitesRunOnce` needs that a site has no call before it is attempted (`SiteInv`).
`EffectsAreApproved` ties the calls of a batch to the approved actions the commit
has been through (`Handled`, `EffectInv`), `GrantsAreSpentOnce` the calls and the
grants that are left to the approvals (`GrantInv`), where `RemoveFacts` says that
taking one grant takes exactly one. Assumed: the program is a sequence in which
operands come from earlier sites.

`Planning_proofs` proves, for any sessions, suites, prompts, drafts and budgets,
`TypeOK`, which bounds the rounds of every loop, and what an accepted plan was put
through (`AcceptedPlans`): it authorizes something, compiles for the session's own
tools, carries stated values only, and a judge passed it, unless it is a draft
that another suite's grammar refused (finding 13). Hence `OnlyVettedPlans` where
suites agree (`SuitesAgree`). The invariant is about what is left behind: a loop,
an audit or a file, whole or torn, of which some later session may take its
program, holds only text no session can use, a program a judge has passed, or
such a draft (`Settled` in `LoopInv`, `AuditInv` and `FilesInv`).

`ExperimentRun_proofs` proves all four properties of the run `experiments`, for
any tasks, goals, agents, drafts, designs and any number of kills and outages.
Assumed: the lists of tasks, goals and planned tasks name nothing twice. `IInv`
has four parts:

* a results file is `Fit`: whole lines are rows of the work, plan files back them,
  and all rows of one cell but the last are outages;
* a process at work `Remembers` its file: it holds the last row of every cell, and
  nothing that is not in a file without a torn line; its `Queue` is of cells
  without a row that counts (`WorkInv`);
* a row about to be recorded is of the next cell, and its plans are on disk
  (`RowInv`);
* status 0 was the exit of a process whose file answers every cell, unless a line
  of it is torn (`DoneInv`).

That writing the plans of one cell leaves the rows of others backed rests on two
cells having no plan file in common (`PathsDiffer`), and this on the list of cells
naming none twice, which is arithmetic on nested loops (`TurnsDiffer`, `EveryTurn`).
`CleanRunsAreAnalyzable` is proved for populations with at least one plan; the
programs refuse to start with another number of plans than they were told
(`agentdojo_factorial.py:890-895`).

`McpTransport_proofs` proves, for any requests, threads and restart bound,
`TypeOK`, `CalledAtMostOnce`, `AnswersAreEarned` and `OneAtATime`. Assumed: calls
are requests, `Nobody` is none, the bounds are natural numbers. The invariant
`TransportInv` adds what the properties need of the pipes: a call that was not
sent is nowhere, and one in the server's input was not carried out and is
there once (`CallInv`); what is on its way back was carried out (`EarnedInv`);
without noise there is one message in all pipes at most, of the thread that
reads (`QuietInv`); a dead server holds no input (`DeadInv`).

`TransportIsRemoteCall` proves that the transport implements `RemoteCall`. The
verdicts need more than `CalledAtMostOnce`: that "refused" means never, and that
after "answer" and "unknown" the request is not carried out any more. `PipeInv` counts
for each request how often it was sent against how often it was carried out, and
says where it may be in the pipes at each label of its client; `TornInv` says whose
half line is left by a server that died while writing. A request that is still in
the input when its client has gone is left there by a mismatch with a stray line,
which is the one exception `RemoteCall` states. `FinishConcludes` and
`LosingMaps` map the ends of a turn, `CallsStep` keeps the invariant.

`SessionTable_proofs` proves, for any ids, principals, plans, threads, requests,
crashes and size of the table, with a store and without, `TypeOK`,
`OnlyTheOwner`, `AckedIsDurable` and `PlanOnce`. Assumed: the table holds at least
one session, `None` is no value of any other kind, and the two marks of a
channel without a plan are no plans. `SessionInv` has three layers:

* `AgreeInv`: table, owners and store may each have lost a session, but what
  they say of it agrees; `AckedIsDurable` ties them to the acknowledged plan;
* `OpenInv` and `LockPart`: no two threads past the lock are at one session
  (`Alone`), so that what another thread does to the session of this one is at
  most to evict it (`OnlyEvicts`), and the table's lock is held while one
  dictionary is ahead of the other;
* `OwnerPart` and `PlanPart`: what a thread has looked up may be gone by the time
  it is used, but is never replaced by another principal's. They are needed
  because the properties speak of the moment of use.

`OthersStay` carries the last two over every step of another thread, so that
each action has one lemma about the thread that takes it; the table as a
sequence without repetition is settled by `HeadLeaves`, `LastComes` and
`OneLeaves`.

`SessionIsRegister` proves that with a store the daemon implements
`SessionRegister`. What a thread looks up, restores or makes room for is invisible
(`SearchMaps`, `RoomMaps`); the step that answers is the step of the register: a
record that is written (`PromptMaps`), a call or a status that shows what it was
served by (`ShowMaps`), a removal from the store (`DeletionMaps`). That the plan in
hand is still the registered one at that moment is `PlanPart`; that whoever deletes
is still the owner is the part of `OwnerPart` about `Ending`. `PlanOnce` follows and is
also proved by itself (`PlanKept`). Without a store the statement is false, since an
eviction takes the only copy of the plan with it; hence the hypothesis `Stored`.

## 6. Checked only by TLC, and not modelled

No theorem speaks of liveness: `EveryRequestEnds` and `EveryPromptIsAnswered` need
fairness, which is out of the proof system's reach. Nor does one of `PlanCompiler`:
what its passes compute for every program is an induction over data, which is
out of reach too. `EffectsAreThePlans`, `HonestAgentIsServed` and
`GatesSeeEverySource` are checked for all programs up to a length.

Proved under a condition on the plan or the deployment, because without it the
property is false: `NoExtraIteration`, `InPlanOrder` and `NothingAfterUnknown`
(findings 5 and 6), `OnlyVettedPlans` (finding 13). The
instances of `order` and `planner` satisfy their conditions; TLC evaluates those
of `order` as assumptions of its MC module.

Left out of the modelled parts: signatures of envelopes and grants; nested loops
and loops in compiled programs; helper expressions; the format of a stored
document; authentication headers; the HTTP transport of MCP and the translation
of schemas; texts of prompts, feedback, confirmations and precheck rules; the
metrics of the experiments. `ExperimentRun` takes the file of the runs without
injection, which the cross design's analyzer also reads, as given. A refused
call changes nothing except the audit log and is not an action.

Not modelled:

* audit log: one append per decision, read by no decision;
* policy and protection, suite registry, serving configuration: static tables,
  environment variables and text filters without state;
* OpenAPI provider: translation of a description and HTTP requests;
* spec monitor: one read and one write of a baseline file, without a second actor;
* hooks, examples, deployment, adapters, metrics and one-shot evaluation
  scripts: no state of the program outlives a call.

## 7. Plan

1. Lemmas about single passes of `PlanCompiler` that need no induction: what a
   merged definition's guards say, and that renaming keeps a straight-line body.
2. Loops in `PlanCompiler`, against the same reference execution.
3. A promise of its own for `CompositePlan`: the `Mandate` of a plan whose warrants
   are settled stage by stage.
4. `DeferredRun` with the durable ledger, should its executors be given one.

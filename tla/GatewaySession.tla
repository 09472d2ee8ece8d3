---------------------------- MODULE GatewaySession ----------------------------
(***************************************************************************)
(* One session of the Gateway after its plan was accepted: how a tool call *)
(* is matched against the compiled rules, held for the user, executed and  *)
(* recorded, and what is left of all that when the daemon restarts.        *)
(*                                                                         *)
(* The Gateway serializes agent calls and user decisions with its          *)
(* _execution_lock, so each handler is one action, from the first check to *)
(* the last write.  ExecutionLedger opens the execution up; here the       *)
(* ledger is the Enforcer's copy (attempts) and what a restart would read  *)
(* (durable).                                                              *)
(*                                                                         *)
(* Abstracted: tools take one operand; a guard compares an observation     *)
(* with a value; loops are not nested; one rule stands for a call site     *)
(* (alternatives of a site share its token).  Loop results feed no later   *)
(* rule, so their envelopes are left out.  A Gateway has one plan, so that *)
(* a pending request never outlives its plan fingerprint.  A refused call  *)
(* changes nothing and is no action; neither is a call of a side-channel   *)
(* tool, which is refused before anything else is looked at.               *)
(***************************************************************************)
EXTENDS Naturals, Sequences, FiniteSets

CONSTANTS
  Rules,           \* the compiled rules, in plan order
  Symbols,         \* keys of the envelope store: texts of the plan's calls
  Results,         \* Results[tool]: what the tool may return
  ToolParams,      \* tools the suite exposes
  Effects,         \* tools that are side-effecting
  Gated,           \* tools whose operand is derived from an untrusted source
  Shadowed,        \* tools whose name contains a needle of an earlier reason
  Args,            \* operands the agent may send
  Malformed,       \* an operand list of the wrong length, or without a key
  BulkCap,         \* SourceTrust.bulk_max_iterations
  MaxLoop,         \* bound: longest collection a loop may range over
  MaxPending,      \* _MAX_PENDING_REAUTHORIZATIONS
  Policies,        \* confirmation policies a deployment may choose
  Orderings,       \* whether it may enforce call order
  Nothing          \* no value: not observed, not run, no loop

Site(i) == Rules[i].key
Sites == {Site(i) : i \in DOMAIN Rules}
Planned == {Rules[i].tool : i \in DOMAIN Rules}

\* A call is a tool with its operand.  Plans are compiled for the suite's
\* tools; a call of any other one is refused.
ASSUME PlannedAssumption == Planned \subseteq ToolParams
Calls == ToolParams \X (Args \cup {Malformed})

\* An operand or a collection: a literal of the plan, an observation, or the
\* loop variable.
Lit(v) == [op |-> "lit", v |-> v]
Obs(s) == [op |-> "obs", v |-> s]
Elem   == [op |-> "elem", v |-> Nothing]

\* Calls the user may be asked about: tools of the suite outside the plan.
OffPlan == (ToolParams \ Planned) \X Args

Paths(i) == IF Rules[i].loop = Nothing THEN {<<>>} ELSE {<<n>> : n \in 1..MaxLoop}
Token(i, p) == <<Site(i), p>>
PlanTokens == UNION {{Site(i)} \X Paths(i) : i \in DOMAIN Rules}
ExternalToken(c) == <<"reauthorization", c>>
Tokens == PlanTokens \cup {ExternalToken(c) : c \in OffPlan}

\* A site key is a tool and a position in the plan, "tool#n"; the rules of a
\* site are compiled together.
ASSUME SiteAssumption ==
  /\ \A i, j \in DOMAIN Rules : Site(i) = Site(j) =>
       Rules[i].tool = Rules[j].tool /\ (Rules[i].loop = Nothing <=> Rules[j].loop = Nothing)
  /\ "reauthorization" \notin Sites
ASSUME PlanOrderAssumption ==
  /\ DOMAIN Rules = 1..Len(Rules)
  /\ \A i, j, k \in DOMAIN Rules :
       i < k /\ k < j /\ Site(i) = Site(j) => Site(k) = Site(i)

\* What rules are stored under and compare is in the envelope store; an
\* observation that was not made equals no value of a guard.
ASSUME SymbolAssumption ==
  \A i \in DOMAIN Rules :
    /\ Rules[i].sym \in Symbols
    /\ \A g \in Rules[i].guard : g.on \in Symbols /\ g.is # Nothing
ASSUME BoundsAssumption == {BulkCap, MaxLoop, MaxPending} \subseteq Nat

Attempt == {"none", "started", "succeeded", "indeterminate"}

\* What a tool was invoked with, and what came of it.
Dispatch == [arg : Args, outcome : {"returned", "unknown"}]
ASSUME NothingAssumption == Nothing \notin Dispatch

\* Approvals of the user: of an operand, of a loop, of an off-plan call.
Items ==
  ({"operand", "external"} \X (ToolParams \X Args)) \cup ({"bulk"} \X Sites)

VARIABLES
  policy,          \* Gateway._confirmation_policy
  ordering,        \* PAUTH_ENFORCE_CALL_ORDER
  attempts,        \* Enforcer._attempts; _used holds those that succeeded
  durable,         \* the attempts a restart would restore
  store,           \* EnvelopeStore: the value observed for a symbol
  asked,           \* reauthorization_pending: off-plan calls awaiting the user
  grants,          \* reauthorization_grants
  denied,          \* reauthorization_denied
  held,            \* pending: confirmations awaiting the user
  confirmed,       \* confirmed operands and, as bulk items, bulk_confirmed
  loop_counts,     \* iterations let through, by loop site
  \* History.
  consented,       \* what the user ever approved
  ran,             \* ran[t]: operand and outcome of the dispatch of t
  fresh,           \* tokens dispatched since the last restart
  overtaken        \* <<j, i>>: site i ran first although j comes first

config   == <<policy, ordering>>
requests == <<asked, grants, denied>>
gates    == <<held, confirmed, loop_counts>>
history  == <<consented, ran, fresh, overtaken>>
vars == <<config, attempts, durable, store, requests, gates, history>>

TypeOK ==
  /\ policy \in Policies /\ ordering \in Orderings
  /\ attempts \in [Tokens -> Attempt]
  /\ durable \in [Tokens -> Attempt]
  /\ DOMAIN store = Symbols
  /\ asked \subseteq OffPlan /\ grants \subseteq OffPlan /\ denied \subseteq OffPlan
  /\ Cardinality(asked) <= MaxPending
  /\ held \subseteq Items /\ confirmed \subseteq Items
  /\ loop_counts \in [Sites -> 0..BulkCap]
  /\ consented \subseteq Items
  /\ ran \in [Tokens -> Dispatch \cup {Nothing}]
  /\ fresh \subseteq {t \in Tokens : ran[t] # Nothing}
  /\ overtaken \subseteq (Sites \X Sites)

Init ==
  /\ policy \in Policies /\ ordering \in Orderings
  /\ attempts = [t \in Tokens |-> "none"] /\ durable = attempts
  /\ store = [s \in Symbols |-> Nothing]
  /\ asked = {} /\ grants = {} /\ denied = {}
  /\ held = {} /\ confirmed = {} /\ loop_counts = [k \in Sites |-> 0]
  /\ consented = {} /\ overtaken = {}
  /\ ran = [t \in Tokens |-> Nothing] /\ fresh = {}

-----------------------------------------------------------------------------
(* Enforcer.check *)

\* The observations an expression needs are in the envelope store.
Resolved(e) == e.op = "obs" => store[e.v] # Nothing
Value(e, element) ==
  CASE e.op = "lit" -> e.v [] e.op = "obs" -> store[e.v] [] e.op = "elem" -> element

GuardsHold(i) == \A g \in Rules[i].guard : store[g.on] = g.is

\* Mutant of Skippable: a guard that cannot be evaluated yet counts as false.
SkippableUnresolved(i) == \E g \in Rules[i].guard : store[g.on] # g.is

\* _site_skippable: some guard is concretely false.
Skippable(i) == \E g \in Rules[i].guard : store[g.on] \notin {Nothing, g.is}

\* Mutant of SiteUsed: an unknown outcome counts as executed.
SiteAttempted(i) == \E p \in Paths(i) : attempts[Token(i, p)] # "none"

\* _site_used counts a loop from its first iteration on.
SiteUsed(i) == \E p \in Paths(i) : attempts[Token(i, p)] = "succeeded"

\* An ordered site j that the plan puts before the ordered site i; the rules of
\* a site have one place in the order.
Precedes(j, i) ==
  /\ j < i /\ Site(j) # Site(i)
  /\ Rules[j].tool \in Effects /\ Rules[i].tool \in Effects

OrderOK(i) ==
  ordering => \A j \in DOMAIN Rules : Precedes(j, i) => SiteUsed(j) \/ Skippable(j)

\* The paths of rule i that the observed collection has.
ActivePaths(i) ==
  {p \in Paths(i) :
     Rules[i].loop # Nothing =>
       Resolved(Rules[i].loop) /\ p[1] \in DOMAIN Value(Rules[i].loop, Nothing)}

Element(i, p) == IF p = <<>> THEN Nothing ELSE Value(Rules[i].loop, Nothing)[p[1]]

\* Mutant of Matches: a loop spends iterations, not the tuples they matched.
MatchesAnyIteration(i, c) ==
  {p \in ActivePaths(i) :
     /\ attempts[Token(i, p)] = "none"
     /\ Resolved(Rules[i].arg)
     /\ \E q \in ActivePaths(i) : Value(Rules[i].arg, Element(i, q)) = c[2]}

Matches(i, c) ==
  {p \in ActivePaths(i) :
     /\ attempts[Token(i, p)] = "none"
     /\ Resolved(Rules[i].arg)
     /\ Value(Rules[i].arg, Element(i, p)) = c[2]}

Authorizes(i, c) ==
  /\ Rules[i].tool = c[1] /\ c[2] # Malformed
  /\ GuardsHold(i) /\ OrderOK(i)
  /\ Matches(i, c) # {}

\* The first rule that authorizes c decides, and its first free tuple that
\* matches makes the token.
Decides(i, c) ==
  Authorizes(i, c) /\ \A j \in 1..(i - 1) : ~Authorizes(j, c)
First(i, c) ==
  {p \in Matches(i, c) : \A q \in Matches(i, c) : q # <<>> => p[1] <= q[1]}

-----------------------------------------------------------------------------
(* _pre_execution_gate: operands first, then the size of a loop *)

Operand(c) == <<"operand", c>>
Bulk(i) == <<"bulk", Site(i)>>

\* Mutant of Unconfirmed: an approval covers the tool, not the value shown.
UnconfirmedTool(c) ==
  c[1] \in Gated /\ \A v \in Args : Operand(<<c[1], v>>) \notin confirmed

Unconfirmed(c) == c[1] \in Gated /\ Operand(c) \notin confirmed
Counted(i) == Rules[i].loop # Nothing /\ Bulk(i) \notin confirmed
OverCap(i) == Counted(i) /\ loop_counts[Site(i)] >= BulkCap

\* What the gate holds call c of rule i for.
Missing(i, c) ==
  (IF Unconfirmed(c) THEN {Operand(c)} ELSE {}) \cup
  (IF OverCap(i) THEN {Bulk(i)} ELSE {})

\* The gate lets the call through; policy approve confirms on the spot.
PassGate(i, c) ==
  /\ policy # "approve" => Missing(i, c) = {}
  /\ confirmed' = confirmed \cup Missing(i, c)
  /\ loop_counts' = IF Counted(i) /\ ~OverCap(i)
                      THEN [loop_counts EXCEPT ![Site(i)] = @ + 1]
                      ELSE loop_counts
  /\ UNCHANGED held

-----------------------------------------------------------------------------
(* _execute_authorized_tool and the recording of its result *)

\* How an execution ends: the reservation could not be written; the tool
\* raised or its result could not be wrapped; the success could not be
\* written; or everything was recorded.
Ending == {"unwritten", "raised", "unrecorded", "recorded"}

Settled(e) ==
  CASE e = "unwritten" -> "started"
    [] e = "raised"    -> "indeterminate"
    [] OTHER           -> "succeeded"

\* A write that fails may or may not have reached the file, so a restart may
\* find the row as it was before that write.
Persisted(t, e) ==
  LET row(a) == [attempts EXCEPT ![t] = a] IN
  CASE e = "unwritten"  -> {durable, row("started")}
    [] e = "raised"     -> {row("started"), row("indeterminate")}
    [] e = "unrecorded" -> {row("started"), row("succeeded")}
    [] e = "recorded"   -> {row("succeeded")}

\* The tool behind token t was invoked with the operand of c.
Dispatched(t, c, outcome) ==
  /\ ran' = [ran EXCEPT ![t] = [arg |-> c[2], outcome |-> outcome]]
  /\ overtaken' = overtaken \cup
       {<<t[1], Site(i)>> : i \in
         {i \in DOMAIN Rules :
            /\ \E j \in DOMAIN Rules : t[1] = Site(j) /\ Precedes(j, i)
            /\ \E p \in Paths(i) : ran[Token(i, p)] # Nothing}}

Execute(t, c, e) ==
  /\ attempts' = [attempts EXCEPT ![t] = Settled(e)]
  /\ durable' \in Persisted(t, e)
  /\ IF e = "unwritten"
       THEN UNCHANGED <<ran, fresh, overtaken>>
       ELSE /\ Dispatched(t, c, IF e = "raised" THEN "unknown" ELSE "returned")
            /\ fresh' = fresh \cup {t}
  /\ UNCHANGED consented

\* A call its plan authorizes is executed.  Enforcer.record stores the envelope before it
\* marks the attempt, and so also when that mark cannot be written.
RunPlanned(c, i, p, e) ==
  /\ PassGate(i, c)
  /\ Execute(Token(i, p), c, e)
  /\ IF e \in {"unrecorded", "recorded"} /\ Rules[i].loop = Nothing
       THEN \E v \in Results[c[1]] : store' = [store EXCEPT ![Rules[i].sym] = v]
       ELSE UNCHANGED store
  /\ UNCHANGED <<config, requests>>

\* An off-plan call the user approved: the grant is spent first, whatever
\* becomes of the call, and its result is no evidence for later rules.
RunGranted(c, e) ==
  /\ c \in grants
  /\ grants' = grants \ {c}
  /\ IF attempts[ExternalToken(c)] = "none"
       THEN Execute(ExternalToken(c), c, e)
       ELSE UNCHANGED <<attempts, durable, history>>
  /\ UNCHANGED <<config, store, asked, denied, gates>>

-----------------------------------------------------------------------------
(* Calls that wait for the user *)

\* The plan authorizes c, but its operand or its loop needs a confirmation.
HoldForConfirmation(c, i) ==
  /\ policy = "human" /\ c \notin grants
  /\ Decides(i, c) /\ Missing(i, c) # {}
  /\ held' = held \cup (IF Unconfirmed(c) THEN {Operand(c)} ELSE {Bulk(i)})
  /\ UNCHANGED <<config, attempts, durable, store, requests, confirmed,
                 loop_counts, history>>

\* classify_reason finds NO_RULE in "no rule exists for tool ...", unless the
\* name of the tool holds a needle it looks for earlier ("replay",
\* "complete").
NoRule(c) == c[1] \notin Planned /\ c[1] \notin Shadowed

\* Mutant of Askable: a refusal of the user does not last.
AskableAgain(c) ==
  /\ c \in OffPlan
  /\ attempts[ExternalToken(c)] = "none"
  /\ c \notin asked /\ Cardinality(asked) < MaxPending

\* Mutant of Askable: the queue has no limit.
AskableAlways(c) ==
  /\ c \in OffPlan
  /\ attempts[ExternalToken(c)] = "none"
  /\ c \notin denied \cup asked

\* _hold_plan_external_call makes a new request: a known tool with the right
\* number of operands, no attempt or refusal of this very call, room left.
Askable(c) ==
  /\ c \in OffPlan
  /\ attempts[ExternalToken(c)] = "none"
  /\ c \notin denied \cup asked
  /\ Cardinality(asked) < MaxPending

HoldForReauthorization(c) ==
  /\ c \notin grants /\ NoRule(c) /\ Askable(c)
  /\ asked' = asked \cup {c}
  /\ UNCHANGED <<config, attempts, durable, store, grants, denied, gates, history>>

\* reauthorize: an exact, single-use grant, or a lasting refusal.
Reauthorize(c, approved) ==
  /\ c \in asked
  /\ asked' = asked \ {c}
  /\ IF approved
       THEN grants' = grants \cup {c} /\ UNCHANGED denied
       ELSE denied' = denied \cup {c} /\ UNCHANGED grants
  /\ consented' = IF approved THEN consented \cup {<<"external", c>>} ELSE consented
  /\ UNCHANGED <<config, attempts, durable, store, gates, ran, fresh, overtaken>>

\* confirm: an approved item stays confirmed, a rejected one may be held anew.
Confirm(item, approved) ==
  /\ item \in held
  /\ held' = held \ {item}
  /\ IF approved
       THEN /\ confirmed' = confirmed \cup {item}
            /\ consented' = consented \cup {item}
       ELSE UNCHANGED <<confirmed, consented>>
  /\ UNCHANGED <<config, attempts, durable, store, requests, loop_counts,
                 ran, fresh, overtaken>>

-----------------------------------------------------------------------------
(* Crashes *)

\* Mutant of Normalized: a reservation without an outcome is given back.
NormalizedAsFree(row) ==
  [t \in Tokens |-> IF row[t] = "started" THEN "none" ELSE row[t]]

\* configure_execution_state: remnants become indeterminate, and are written
\* back before any call is checked.
Normalized(row) ==
  [t \in Tokens |-> IF row[t] = "started" THEN "indeterminate" ELSE row[t]]

\* A new Gateway compiles the stored prompt again and takes over the row:
\* observations, requests, grants, refusals and confirmations are lost.
Restored(row) ==
  /\ attempts' = row /\ durable' = row
  /\ store' = [s \in Symbols |-> Nothing]
  /\ asked' = {} /\ grants' = {} /\ denied' = {}
  /\ held' = {} /\ confirmed' = {} /\ loop_counts' = [k \in Sites |-> 0]
  /\ fresh' = {}

\* The daemon restarts between two calls, or the session was evicted.
Restart ==
  /\ Restored(Normalized(durable))
  /\ UNCHANGED <<config, consented, ran, overtaken>>

\* The daemon dies in the middle of call c, its reservation t on disk, its
\* tool invoked or not.
Die(c, t) ==
  /\ Restored(Normalized([attempts EXCEPT ![t] = "started"]))
  /\ Dispatched(t, c, "unknown") \/ UNCHANGED <<ran, overtaken>>
  /\ UNCHANGED <<config, consented>>

DieDuringPlanned(c, i, p) ==
  /\ policy # "approve" => Missing(i, c) = {}
  /\ Die(c, Token(i, p))

\* A call that rule i authorizes is made with its first tuple.
PlannedCall(c, i) ==
  /\ c \notin grants /\ Decides(i, c)
  /\ \E p \in First(i, c) :
       \/ \E e \in Ending : RunPlanned(c, i, p, e)
       \/ DieDuringPlanned(c, i, p)

DieDuringGranted(c) ==
  /\ c \in grants /\ attempts[ExternalToken(c)] = "none"
  /\ Die(c, ExternalToken(c))

Next ==
  \/ \E c \in Calls, i \in DOMAIN Rules :
       PlannedCall(c, i) \/ HoldForConfirmation(c, i)
  \/ \E c \in OffPlan : HoldForReauthorization(c)
  \/ \E c \in asked, approved \in BOOLEAN : Reauthorize(c, approved)
  \/ \E c \in grants :
       (\E e \in Ending : RunGranted(c, e)) \/ DieDuringGranted(c)
  \/ \E item \in held, approved \in BOOLEAN : Confirm(item, approved)
  \/ Restart

Spec == Init /\ [][Next]_vars

-----------------------------------------------------------------------------
(* Properties *)

RanWith(t, v) == ran[t] # Nothing /\ ran[t].arg = v

\* Collections a loop of the plan may be given, by the plan or by a tool.
Collections(i) ==
  IF Rules[i].loop.op = "lit" THEN {Rules[i].loop.v}
  ELSE UNION {Results[Rules[j].tool] :
                j \in {j \in DOMAIN Rules : Rules[j].sym = Rules[i].loop.v}}

Occurrences(v, seq) == Cardinality({n \in DOMAIN seq : seq[n] = v})

\* A loop runs its tool with a value as often as some collection it may range
\* over holds that value, however its iterations fail or are interrupted.
NoExtraIteration ==
  \A i \in DOMAIN Rules, v \in Args :
    Rules[i].loop # Nothing =>
      \E seq \in Collections(i) :
        Cardinality({p \in Paths(i) : RanWith(Token(i, p), v)})
          <= Occurrences(v, seq)

\* Policy human needs the user's approval of item x, policy reject allows none.
Approved(x) == policy = "approve" \/ (policy = "human" /\ x \in consented)

\* A value derived from untrusted data reached a tool only after the user
\* approved this value for this tool, and never where policy is reject.
OperandsAreConfirmed ==
  \A i \in DOMAIN Rules : \A p \in Paths(i) :
    Rules[i].tool \in Gated /\ ran[Token(i, p)] # Nothing
      => Approved(Operand(<<Rules[i].tool, ran[Token(i, p)].arg>>))

\* An off-plan call is requested, granted, refused or attempted: one of these
\* at a time; and it only ran because the user approved that very call.
ReauthorizationIsExclusive ==
  \A c \in OffPlan :
    /\ c \in asked \cup grants \cup denied => attempts[ExternalToken(c)] = "none"
    /\ c \in asked => c \notin grants \cup denied
    /\ c \in grants => c \notin denied
    /\ ran[ExternalToken(c)] # Nothing => <<"external", c>> \in consented

Iterations(i, tokens) == Cardinality({t \in tokens : t[1] = Site(i)})

\* Between two restarts, a loop runs past the cap only with the user's approval.
BulkIsHeld ==
  \A i \in DOMAIN Rules :
    Rules[i].loop # Nothing /\ Iterations(i, fresh) > BulkCap => Approved(Bulk(i))

\* What the cap is documented to be: past a number of calls, the user is asked.
BulkIsHeldForGood ==
  \A i \in DOMAIN Rules :
    Rules[i].loop # Nothing /\ policy = "human"
    /\ Iterations(i, {t \in Tokens : ran[t] # Nothing}) > BulkCap
      => Bulk(i) \in consented

\* Where call order is enforced, no side effect follows one that the plan
\* puts after it, even across restarts.
InPlanOrder == ordering => overtaken = {}

\* Where call order is enforced, a side effect of unknown outcome keeps every
\* later one from running.
NothingAfterUnknown ==
  \A i, j \in DOMAIN Rules :
    ordering /\ Precedes(j, i) /\ (\E p \in Paths(i) : ran[Token(i, p)] # Nothing)
      => \/ \A p \in Paths(j) : ran[Token(j, p)] = Nothing
         \/ \E p \in Paths(j) : /\ ran[Token(j, p)] # Nothing
                                /\ ran[Token(j, p)].outcome = "returned"

\* What tests and comments say of off-plan calls: a well-formed call of a
\* known tool that no rule names is put before the user, and how its refusal
\* is worded makes no difference.
OffPlanCallIsHeld ==
  \A c \in OffPlan :
    c \notin grants /\ Askable(c)
      => ENABLED HoldForReauthorization(c)

-----------------------------------------------------------------------------
(* Plans for which loops and call order are exact. *)

\* Rules whose result is stored under text s, which two call sites may share.
Producers(s) == {k \in DOMAIN Rules : Rules[k].sym = s /\ Rules[k].loop = Nothing}
ObservedOnce(s) == \A j, k \in Producers(s) : Site(j) = Site(k)

\* Loops hand their tool the elements of one collection: a literal of the plan,
\* or the result of a call whose text no second call site shares.
SteadyLoops ==
  \A i \in DOMAIN Rules : Rules[i].loop # Nothing =>
    /\ Rules[i].arg = Elem
    /\ \A j \in DOMAIN Rules : Site(j) = Site(i) =>
         Rules[j].loop = Rules[i].loop /\ Rules[j].arg = Rules[i].arg
    /\ Rules[i].loop.op \in {"lit", "obs"}
    /\ Rules[i].loop.op = "obs" =>
         Rules[i].loop.v \in Symbols /\ ObservedOnce(Rules[i].loop.v)
    /\ Collections(i) # {} /\ \A seq \in Collections(i) : seq \in Seq(Args)

\* An effect that others have to wait for is no loop, and what decides whether
\* it is made is observed once.
SteadyOrder ==
  \A i, j \in DOMAIN Rules : Precedes(j, i) =>
    /\ Rules[j].loop = Nothing
    /\ \A g \in Rules[j].guard : ObservedOnce(g.on)

-----------------------------------------------------------------------------
(* The inductive invariant of the properties that hold for every plan. *)

\* What the gates take as confirmed was approved; only policy human holds.
GatesInv ==
  /\ held # {} => policy = "human"
  /\ \A x \in confirmed : Approved(x)
  /\ \A c \in grants : <<"external", c>> \in consented

\* Until a loop is confirmed, its iterations since the restart are counted.
CountInv ==
  /\ IsFiniteSet(asked) /\ IsFiniteSet(fresh)
  /\ \A i \in DOMAIN Rules :
       Rules[i].loop # Nothing /\ Bulk(i) \notin confirmed
         => Iterations(i, fresh) <= loop_counts[Site(i)]

SessionInv ==
  /\ TypeOK
  /\ GatesInv
  /\ CountInv
  /\ OperandsAreConfirmed
  /\ ReauthorizationIsExclusive
-----------------------------------------------------------------------------
(* The session as a mandate *)

\* A rule reads literals, observations and, in a loop, the loop variable.
Reads(i) ==
  {e.v : e \in {e \in {Rules[i].arg} \cup ({Rules[i].loop} \ {Nothing}) : e.op = "obs"}}
  \cup {g.on : g \in Rules[i].guard}
ASSUME OperandAssumption ==
  \A i \in DOMAIN Rules :
    /\ Rules[i].arg.op \in {"lit", "obs", "elem"} /\ Reads(i) \subseteq Symbols
    /\ Rules[i].arg.op = "elem" => Rules[i].loop # Nothing
    /\ Rules[i].loop # Nothing => Rules[i].loop.op \in {"lit", "obs"}

\* Operands rule i may be called with at p: none is of the agent's choosing.
Offered(i, p) ==
  CASE Rules[i].arg.op = "lit" -> {Rules[i].arg.v}
    [] Rules[i].arg.op = "obs" ->
         UNION {Results[Rules[k].tool] : k \in Producers(Rules[i].arg.v)}
    [] Rules[i].arg.op = "elem" ->
         {seq[p[1]] : seq \in {seq \in Collections(i) : p[1] \in DOMAIN seq}}

PlanWarrant(i, p, v) ==
  [slot  |-> Token(i, p), arg |-> v,
   after |-> {{Token(k, <<>>) : k \in Producers(s)} : s \in Reads(i)},
   asks  |-> IF Rules[i].tool \in Gated THEN {Operand(<<Rules[i].tool, v>>)} ELSE {},
   turns |-> IF Rules[i].loop = Nothing THEN {} ELSE {t \in Tokens : t[1] = Site(i)},
   bulk  |-> IF Rules[i].loop = Nothing THEN {} ELSE {Bulk(i)}]

GrantWarrant(c) ==
  [slot |-> ExternalToken(c), arg |-> c[2], after |-> {},
   asks |-> {<<"external", c>>}, turns |-> {}, bulk |-> {}]

PlanWarrants ==
  UNION {UNION {{PlanWarrant(i, p, v) : v \in Offered(i, p)} : p \in Paths(i)} :
           i \in DOMAIN Rules}
Warrants == PlanWarrants \cup {GrantWarrant(c) : c \in OffPlan}

\* Policy approve asks nothing about the calls of the plan.
Waived(p) == IF p = "approve" THEN {x \in Items : x[1] # "external"} ELSE {}

Mandate == INSTANCE Mandate WITH
  Cap      <- BulkCap,
  Standing <- {Waived(p) : p \in Policies},
  made     <- [t \in {t \in Tokens : ran[t] # Nothing} |-> ran[t]],
  recent   <- fresh,
  open     <- held \cup {<<"external", c>> : c \in asked},
  approved <- consented \cup Waived(policy)

\* Over failures and restarts, a session makes each call once at most, with an
\* operand of its plan or of the user, from what was observed in this life of
\* the process, as approved; and asks about calls only that are still due.
KeepsTheMandate == Mandate!Spec
=============================================================================

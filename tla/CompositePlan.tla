----------------------------- MODULE CompositePlan -----------------------------
(***************************************************************************)
(* A plan in stages: the rules of a stage authorize calls only while it is *)
(* the current one, a stage is entered when the calls of the one before it *)
(* are spent and its guard holds of what the gateway observed itself, and  *)
(* a fan-out stage is its template unrolled over an observed list.         *)
(*                                                                         *)
(* Staged plans have no durable ledger: submit_user_prompt_composite       *)
(* refuses a gateway that has one, so that nothing here fails to persist   *)
(* and nothing survives a restart.  Handlers run under _execution_lock.    *)
(*                                                                         *)
(* Abstracted: one operand per tool; a guard compares one variable with a  *)
(* value; a site has one loop at most and one rule; a template is a row of *)
(* calls whose results no other rule reads; call order is not enforced     *)
(* (GatewaySession has it).  The composite one-shot check, "consumed",     *)
(* repeats what the ledger of the stage refuses already and is left out.   *)
(***************************************************************************)
EXTENDS Integers, Sequences, FiniteSets, Functions, FiniteSetsExt

CONSTANTS
  Stages,          \* plan.stages: [guard, list, max, sites]
  Results,         \* Results[tool]: what the tool may return
  Values,          \* scalars: operands and elements of lists
  Untrusted,       \* SourceTrust: tools whose results are not trusted
  Control,         \* side-effecting tools: their operand can be gated
  BulkCap,         \* SourceTrust.bulk_max_iterations
  Policies,        \* confirmation policies of a deployment
  Opaque,          \* a result, or an element of one, that is no scalar
  Nothing          \* no guard, no list, no loop, no variable, no value

StageIds == DOMAIN Stages
Templates == UNION {Range(Stages[k].sites) : k \in StageIds}
Tools   == {s.tool : s \in Templates}
Symbols == {s.sym : s \in Templates} \ {Nothing}
Vars    == {s.var : s \in Templates} \ {Nothing}

\* An operand: a constant of the plan, an observation, the element of a loop
\* or of the list a template is unrolled over.
Lit(v) == [op |-> "lit", v |-> v]
Obs(s) == [op |-> "obs", v |-> s]
Elem   == [op |-> "elem", v |-> Nothing]

IsList(v) == v \notin Values \cup {Opaque, Nothing}
Observable == UNION {Results[t] : t \in Tools}

ASSUME SiteAssumption ==
  \A s \in Templates : DOMAIN s = {"tool", "arg", "sym", "when", "loop", "var"}
ASSUME ValueAssumption == Nothing \notin Values /\ Nothing \notin Observable
ASSUME ResultAssumption ==
  \A r \in Observable : IsList(r) => r \in Seq(Values \cup {Opaque})
ASSUME CapAssumption == BulkCap \in Nat
\* The variables a stage is known to bind before it runs: assigned from a tool
\* its code, or its template, calls only once.
Binds(k) ==
  {s.var : s \in {s \in Range(Stages[k].sites) :
     Cardinality({i \in DOMAIN Stages[k].sites : Stages[k].sites[i].tool = s.tool}) = 1}}
  \ {Nothing}
Known(k) == UNION {Binds(i) : i \in 1..(k - 1)}

\* validate_plan: the first stage has neither guard nor fan-out, the others
\* read what an earlier one is known to bind, a list has room for an instance.
Valid(k) ==
  /\ Stages[k].guard # Nothing => k > 1 /\ Stages[k].guard.on \in Known(k)
  /\ Stages[k].list # Nothing =>
       k > 1 /\ Stages[k].list \in Known(k) /\ Stages[k].max \in Nat \ {0}
ASSUME PlanAssumption ==
  Stages \in Seq(Range(Stages)) \ {<<>>} /\ \A k \in StageIds : Valid(k)

\* The observations a call reads: its operand, its collection, its guard.
Reads(site) ==
  {e.v : e \in {e \in {site.arg} \cup ({site.loop} \ {Nothing}) : e.op = "obs"}}
  \cup {g.on : g \in {site.when} \ {Nothing}}

\* The code of a stage is self-contained: it has no parameters but the list of
\* a fan-out, and every name is defined before it is used.
SelfContained(k) ==
  /\ Stages[k].sites \in Seq(Range(Stages[k].sites))
  /\ \A j \in DOMAIN Stages[k].sites :
       Reads(Stages[k].sites[j]) \subseteq {Stages[k].sites[i].sym : i \in 1..(j - 1)}
ASSUME StageAssumption == \A k \in StageIds : SelfContained(k)

\* Of the model: the first stage calls some tool, and a literal collection has
\* an element.  (A stage that does nothing but loop over an empty one has a rule
\* and no call to make: the code enters it and never leaves it.)
ASSUME FirstStageAssumption == Stages[1].sites # <<>>
ASSUME LoopAssumption ==
  \A s \in Templates : s.loop # Nothing =>
    \/ s.loop.op = "obs"
    \/ s.loop.op = "lit" /\ IsList(s.loop.v) /\ DOMAIN s.loop.v # {}

\* Of the model: a template is a row of calls that read constants and its element.
ASSUME TemplateAssumption ==
  \A k \in StageIds : Stages[k].list # Nothing =>
    \A s \in Range(Stages[k].sites) :
      s.when = Nothing /\ s.loop = Nothing /\ s.arg \in {Elem, Lit(s.arg.v)}

VARIABLES
  policy,          \* Gateway._confirmation_policy
  stage,           \* stage_idx + 1, the current stage
  active,          \* the enforcer is not None
  complete,        \* no call will be authorized any more
  failure,         \* the activation of a stage failed
  store,           \* EnvelopeStore, shared by the stages
  bindings,        \* bindings with binding_sources: a value and its tool
  attempts,        \* <<stage, site, position>> -> operand and outcome
  held,            \* pending confirmations
  confirmed,       \* confirmed operands and, by key, bulk_confirmed
  loop_counts,     \* loop_counts, by key
  consented        \* history: <<stage, item>> the user approved

progress == <<stage, active, complete, failure, bindings>>
gates == <<held, confirmed, loop_counts>>
vars  == <<policy, progress, store, attempts, gates, consented>>

-----------------------------------------------------------------------------
(* The code of a stage *)

Bound(x) == bindings[x] # Nothing

\* Mutant of Instances: the overflow of a list is run as well.
InstancesUncapped(k) == Len(bindings[Stages[k].list].v)

\* n = min(len(observed), max_instances)
Instances(k) == Min({Len(bindings[Stages[k].list].v), Stages[k].max})

\* An instance of a template: its element written in, its locals renamed, so
\* that no later stage reads one of them.
Folded(site, element) ==
  [site EXCEPT !.arg = IF site.arg = Elem THEN Lit(element) ELSE @, !.var = Nothing]

\* The sites of stage k; those of a template, once per instance.
Code(k) ==
  LET sites == Stages[k].sites
      width == Len(sites) IN
  IF Stages[k].list = Nothing THEN sites
  ELSE [j \in 1..(Instances(k) * width) |->
          Folded(sites[((j - 1) % width) + 1],
                 bindings[Stages[k].list].v[((j - 1) \div width) + 1])]

\* instantiate_fanout or prepare raises: what was bound is no list, or an
\* element does not fold to a constant.
Broken(k) ==
  /\ Stages[k].list # Nothing
  /\ \/ ~IsList(bindings[Stages[k].list].v)
     \/ \E j \in DOMAIN Code(k) : Code(k)[j].arg = Lit(Opaque)

\* The key of a rule, "tool#n": n counts the calls of the tool in the stage.
Key(k, j) ==
  <<Code(k)[j].tool, Cardinality({i \in 1..j : Code(k)[i].tool = Code(k)[j].tool})>>

\* assignment_map: variables assigned from a tool the stage calls only once.
Assigned(k, tool) ==
  {Code(k)[j].var : j \in {j \in DOMAIN Code(k) :
     \A i \in DOMAIN Code(k) : Code(k)[i].tool = tool <=> i = j}} \ {Nothing}

-----------------------------------------------------------------------------
(* Enforcer.check and completed_site_keys *)

Collection(site) ==
  IF site.loop.op = "lit" THEN site.loop.v ELSE store[site.loop.v]

\* The tokens of a site: none while its collection is not observed.
Positions(site) ==
  IF site.loop = Nothing THEN {0}
  ELSE IF IsList(Collection(site)) THEN DOMAIN Collection(site) ELSE {}

Operand(site, n) ==
  CASE site.arg.op = "lit"  -> site.arg.v
    [] site.arg.op = "obs"  -> store[site.arg.v]
    [] site.arg.op = "elem" -> Collection(site)[n]

GuardHolds(site) == site.when # Nothing => store[site.when.on] = site.when.is
Spent(k, j, n) == <<k, j, n>> \in DOMAIN attempts

\* The tokens of site j that a call of its tool with v could take.
Matches(k, j, v) ==
  {n \in Positions(Code(k)[j]) :
     /\ GuardHolds(Code(k)[j])
     /\ ~Spent(k, j, n) /\ Operand(Code(k)[j], n) = v}

\* Token <<j, n>> of stage k is the one the call is decided by.
Decides(k, j, n, v) ==
  /\ n \in Matches(k, j, v)
  /\ \A m \in Matches(k, j, v) : n <= m
  /\ \A i \in 1..(j - 1) : Code(k)[i].tool = Code(k)[j].tool => Matches(k, i, v) = {}

Skipped(site) ==
  site.when # Nothing /\ store[site.when.on] \notin {Nothing, site.when.is}

\* site_complete: off the path of the plan, or every token was attempted,
\* whatever came of it.  What is not observed yet is not complete.
SiteComplete(k, j) ==
  LET site == Code(k)[j] IN
  \/ Skipped(site)
  \/ /\ GuardHolds(site)
     /\ site.loop # Nothing => IsList(Collection(site))
     /\ \A n \in Positions(site) : Spent(k, j, n)

StageComplete(k) == \A j \in DOMAIN Code(k) : SiteComplete(k, j)

-----------------------------------------------------------------------------
(* Taint of a stage: what has to be confirmed in it *)

\* The untrusted tools whose results reach the operand of a site.
OperandSources(k, site) ==
  LET read == {e.v : e \in {e \in {site.arg} \cup ({site.loop} \ {Nothing}) : e.op = "obs"}}
  IN {s.tool : s \in {s \in Range(Code(k)) : s.sym \in read}} \cap Untrusted

\* Mutant of Inherited: the folded constants of a template carry no source.
InheritedGuardOnly(k) ==
  {bindings[g.on].from : g \in {Stages[k].guard} \ {Nothing}} \cap Untrusted

\* The list of a fan-out and the variable of the guard taint the whole stage.
Inherited(k) ==
  LET read == {g.on : g \in {Stages[k].guard} \ {Nothing}} \cup ({Stages[k].list} \ {Nothing})
  IN {bindings[x].from : x \in read} \cap Untrusted

\* gated_operands of stage k, by tool.
Gated(k) ==
  {s.tool : s \in {s \in Range(Code(k)) :
     s.tool \in Control /\ OperandSources(k, s) \cup Inherited(k) # {}}}

-----------------------------------------------------------------------------
(* _composite_advance *)

\* A guard that cannot be evaluated is as good as false.
Enters(k) ==
  Stages[k].guard # Nothing =>
    /\ Bound(Stages[k].guard.on)
    /\ bindings[Stages[k].guard.on].v = Stages[k].guard.is
Ready(k) == Stages[k].list # Nothing => Bound(Stages[k].list)

\* A stage that compiles to no rule is left as soon as it is entered.
NoRules(k) == Enters(k) /\ Ready(k) /\ ~Broken(k) /\ Code(k) = <<>>

\* Mutant of Landing: a stage without rules is not left.
LandingNext(s) == s + 1

\* The stage at which the loop of _composite_advance stops, from s on.
Landing(s) ==
  Min({k \in (s + 1)..(Len(Stages) + 1) : k \in StageIds => ~NoRules(k)})

\* Stage s is done and the next one that has rules is k: enter it, unless the
\* plan is over, its guard is not true, its list was never bound, or it does
\* not compile.
EnterOrEnd(k) ==
  IF k \notin StageIds
    THEN complete' = TRUE /\ stage' = k - 1 /\ UNCHANGED <<active, failure>>
  ELSE IF ~Enters(k)'
    THEN complete' = TRUE /\ active' = FALSE /\ stage' = k - 1 /\ UNCHANGED failure
  ELSE IF ~Ready(k)'
    THEN stage' = k - 1 /\ UNCHANGED <<active, complete, failure>>
  ELSE IF Broken(k)'
    THEN complete' = TRUE /\ active' = FALSE /\ failure' = TRUE /\ stage' = k - 1
  ELSE stage' = k /\ UNCHANGED <<active, complete, failure>>

\* Primed, the conditions are those after the call that was just recorded.
AdvanceFrom(s) ==
  IF StageComplete(s)'
    THEN \E k \in 1..(Len(Stages) + 1) : k = Landing(s)' /\ EnterOrEnd(k)
    ELSE UNCHANGED <<stage, active, complete, failure>>

-----------------------------------------------------------------------------
(* _handle_tool_call_composite *)

OperandItem(tool, v) == <<"operand", <<tool, v>>>>
BulkItem(key) == <<"bulk", key>>

Unconfirmed(k, j, v) ==
  Code(k)[j].tool \in Gated(k) /\ OperandItem(Code(k)[j].tool, v) \notin confirmed
Counted(k, j) == Code(k)[j].loop # Nothing /\ BulkItem(Key(k, j)) \notin confirmed
Count(key) == IF key \in DOMAIN loop_counts THEN loop_counts[key] ELSE 0
OverCap(k, j) == Counted(k, j) /\ Count(Key(k, j)) >= BulkCap

\* What the gate holds the call for.
Missing(k, j, v) ==
  (IF Unconfirmed(k, j, v) THEN {OperandItem(Code(k)[j].tool, v)} ELSE {}) \cup
  (IF OverCap(k, j) THEN {BulkItem(Key(k, j))} ELSE {})

\* A dictionary after f[x] = e.
Put(f, x, e) == [y \in DOMAIN f \cup {x} |-> IF y = x THEN e ELSE f[y]]

PassGate(k, j, v) ==
  /\ policy # "approve" => Missing(k, j, v) = {}
  /\ confirmed' = confirmed \cup Missing(k, j, v)
  /\ loop_counts' = IF Counted(k, j) /\ ~OverCap(k, j)
                      THEN Put(loop_counts, Key(k, j), Count(Key(k, j)) + 1)
                      ELSE loop_counts
  /\ UNCHANGED held

Ran(k, j, n, v, outcome) ==
  attempts' = Put(attempts, <<k, j, n>>, [value |-> v, outcome |-> outcome])

\* Mutant of Bind: the last answer counts, not the first.
BindLast(k, tool, r) ==
  bindings' = [x \in Vars |->
    IF x \in Assigned(k, tool) THEN [v |-> r, from |-> tool] ELSE bindings[x]]

\* A variable is bound by the first answer of its tool, and for good.
Bind(k, tool, r) ==
  bindings' = [x \in Vars |->
    IF x \in Assigned(k, tool) /\ ~Bound(x) THEN [v |-> r, from |-> tool] ELSE bindings[x]]

\* The call is authorized, runs and returns r.
Return(k, j, n, v, r) ==
  LET site == Code(k)[j] IN
  /\ active /\ ~complete
  /\ Decides(k, j, n, v)
  /\ PassGate(k, j, v)
  /\ Ran(k, j, n, v, "succeeded")
  /\ store' = IF site.sym = Nothing \/ site.loop # Nothing THEN store
              ELSE [store EXCEPT ![site.sym] = r]
  /\ Bind(k, site.tool, r)
  /\ AdvanceFrom(k)
  /\ UNCHANGED <<policy, consented>>

\* The tool raises: the token is spent, nothing is observed, and the plan
\* does not advance before another call of the stage succeeds.
Raise(k, j, n, v) ==
  /\ active /\ ~complete
  /\ Decides(k, j, n, v)
  /\ PassGate(k, j, v)
  /\ Ran(k, j, n, v, "indeterminate")
  /\ UNCHANGED <<policy, progress, store, consented>>

\* Operands first, then the size of a loop; one confirmation at a time.
Hold(k, j, n, v) ==
  /\ policy = "human" /\ active /\ ~complete
  /\ Decides(k, j, n, v) /\ Missing(k, j, v) # {}
  /\ held' = held \cup {IF Unconfirmed(k, j, v) THEN OperandItem(Code(k)[j].tool, v)
                        ELSE BulkItem(Key(k, j))}
  /\ UNCHANGED <<policy, progress, store, attempts, confirmed, loop_counts, consented>>

Confirm(item, approved) ==
  /\ item \in held
  /\ held' = held \ {item}
  /\ confirmed' = IF approved THEN confirmed \cup {item} ELSE confirmed
  /\ consented' = IF approved THEN consented \cup {<<stage, item>>} ELSE consented
  /\ UNCHANGED <<policy, progress, store, attempts, loop_counts>>

\* submit_user_prompt_composite: the first stage is activated.
Init ==
  /\ policy \in Policies
  /\ stage = 1
  /\ active = TRUE /\ complete = FALSE /\ failure = FALSE
  /\ store = [s \in Symbols |-> Nothing]
  /\ bindings = [x \in Vars |-> Nothing]
  /\ attempts = <<>> /\ held = {} /\ confirmed = {} /\ loop_counts = <<>>
  /\ consented = {}

Call(k, j, n, v) ==
  \/ \E r \in Results[Code(k)[j].tool] : Return(k, j, n, v, r)
  \/ Raise(k, j, n, v)
  \/ Hold(k, j, n, v)

Next ==
  \/ \E k \in {stage} : \E j \in DOMAIN Code(k) :
       \E n \in Positions(Code(k)[j]), v \in Values : Call(k, j, n, v)
  \/ \E item \in held, approved \in BOOLEAN : Confirm(item, approved)

Spec == Init /\ [][Next]_vars

-----------------------------------------------------------------------------
(* Properties *)

Attempted(k) == {t \in DOMAIN attempts : t[1] = k}
Left(k) == k < stage \/ (k = stage /\ complete)

\* Inactivity: a stage that authorized a call was let in by its guard and its
\* list, and by those of every stage before it, and no later observation
\* takes that back.
NothingEarly ==
  \A k \in StageIds : Attempted(k) # {} =>
    \A i \in 1..k : Enters(i) /\ Ready(i)

\* The elements a fan-out is to cover, and the calls with operand v they are due:
\* one for each of them and each call of the template it makes an operand v of.
Covered(k) == {n \in DOMAIN bindings[Stages[k].list].v : n <= Stages[k].max}
Expected(k, v) ==
  Cardinality({x \in (DOMAIN Stages[k].sites) \X Covered(k) :
     Folded(Stages[k].sites[x[1]], bindings[Stages[k].list].v[x[2]]).arg = Lit(v)})
Dispatches(k, v) == Cardinality({t \in Attempted(k) : attempts[t].value = v})

\* Bounded authority: a fan-out runs its template for the first max_instances
\* elements that were observed and for nothing else, and it is not left
\* before every one of them had its turn, unless it is never entered.
FanoutIsExact ==
  \A k \in StageIds, v \in Values : Stages[k].list # Nothing =>
    /\ Attempted(k) # {} => Dispatches(k, v) <= Expected(k, v)
    /\ Left(k) /\ Attempted(k) # {} => Dispatches(k, v) = Expected(k, v)

\* What an untrusted tool had a hand in, by the operand, through the list of a
\* fan-out or through the guard of the stage, is only run with the user's
\* approval of that very operand.
UntrustedIsConfirmed ==
  \A t \in DOMAIN attempts :
    LET k == t[1]
        site == Code(k)[t[2]]
        read == {bindings[x] : x \in {x \in Vars :
                   \/ x = Stages[k].list
                   \/ Stages[k].guard # Nothing /\ x = Stages[k].guard.on}} IN
    site.tool \in Control
    /\ (OperandSources(k, site) # {} \/ \E b \in read : b.from \in Untrusted)
    => \/ policy = "approve"
       \/ /\ policy = "human"
          /\ \E i \in 1..k : <<i, OperandItem(site.tool, attempts[t].value)>> \in consented

\* A stage whose calls are all spent is where a plan rests only if it is over,
\* if the outcome of one of the calls is unknown, or if the list of a later
\* fan-out was never bound.
RestsOnlyOnUnknown ==
  ~complete /\ StageComplete(stage) =>
    \/ \E t \in Attempted(stage) : attempts[t].outcome = "indeterminate"
    \/ stage < Len(Stages) /\ ~Ready(Landing(stage))

\* What _bulk_gate says of itself: a loop that exceeds the cap is held once.
LoopIsHeldOnce ==
  \A k \in StageIds : policy = "human" =>
    \A j \in DOMAIN Stages[k].sites :
      Cardinality({t \in Attempted(k) : t[2] = j}) > BulkCap =>
        <<k, BulkItem(Key(k, j))>> \in consented
=============================================================================

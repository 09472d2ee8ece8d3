------------------------------- MODULE DeferredRun -------------------------------
(***************************************************************************)
(* The executors that run a generated program themselves, instead of an    *)
(* agent calling one tool at a time.                                       *)
(*                                                                         *)
(*   direct   every call is checked, reserved, executed and recorded.      *)
(*   batched  a gated effect is checked and put aside; when the program    *)
(*            has ended, the user is asked about everything put aside, and *)
(*            what was approved is checked again and executed.             *)
(*   human    direct, then proposals beyond the plan: the user mints one   *)
(*            grant for each, and an executor that may be another service  *)
(*            acts by redeeming grants.                                    *)
(*   stream   an agent's calls; what the plan does not authorize becomes a *)
(*            proposal of its own.                                         *)
(*                                                                         *)
(* Abstracted: programs are straight lines of calls, one call site each    *)
(* (what a check does with guards, loops and order is in GatewaySession);  *)
(* signatures of grants; the sink, which these executors do not configure. *)
(***************************************************************************)
EXTENDS Naturals, Sequences, SequencesExt, FiniteSetsExt

CONSTANTS
  Program,         \* the calls of run(): tool, symbol of the call, operands
  Results,         \* Results[tool]: what the tool may return
  Effects,         \* tools that are side-effecting
  Untrusted,       \* tools with an operand from an untrusted source
  Control,         \* by tool: the operands a grant is bound to
  Text,            \* by value: its text, in which grants compare operands
  Extra,           \* calls that may be proposed, redeemed or streamed
  MaxActions,      \* bound: proposals, redemptions or streamed calls of a run
  Modes,
  None

Lit(v) == [op |-> "lit", v |-> v]
Var(i) == [op |-> "var", v |-> i]     \* what the i-th call returned

Site == 1..Len(Program)
Deferred == "deferred"                \* _DEFERRED, in place of a result
Call(tool, args) == [tool |-> tool, args |-> args]

ASSUME ProgramAssumption ==
  \A i \in Site : \A k \in DOMAIN Program[i].args :
    LET o == Program[i].args[k] IN o.op = "var" => o.v \in 1..(i - 1)
ASSUME SiteAssumption == Program \in Seq(ToSet(Program)) /\ None \notin Site
ASSUME ModeAssumption == Modes \subseteq {"direct", "batched", "human", "stream"}
ASSUME BoundsAssumption == MaxActions \in Nat

VARIABLES
  mode,
  phase,           \* run, barrier, commit, propose, redeem, stream, ended
  at,              \* the call of the program that comes next
  locals,          \* what the calls so far returned to the program
  store,           \* EnvelopeStore: the value observed for a symbol
  attempts,        \* Enforcer._attempts
  deferred,        \* the actions put aside, in program order
  next,            \* how many of them the barrier or the commit has handled
  live,            \* GrantLedger._live
  actions,         \* proposals, redemptions and streamed calls so far
  \* History.
  dispatched,      \* calls that were made: what, in which way, and its site
  minted           \* the grants the user ever gave

program == <<mode, at, locals>>
enforcer == <<store, attempts>>
batch == <<deferred, next>>
grants == <<live, minted>>
vars == <<phase, program, enforcer, batch, grants, actions, dispatched>>

Symbols == {Program[i].sym : i \in Site}

Init ==
  /\ mode \in Modes
  /\ phase = IF mode = "stream" THEN "stream" ELSE "run"
  /\ at = 1 /\ locals = [i \in Site |-> None]
  /\ store = [s \in Symbols |-> None]
  /\ attempts = [i \in Site |-> "none"]
  /\ deferred = <<>> /\ next = 0
  /\ live = <<>> /\ actions = 0
  /\ dispatched = <<>> /\ minted = <<>>

-----------------------------------------------------------------------------
(* The enforcer *)

\* An operand of a rule is a literal or the observation of a symbol.
Expected(o) == IF o.op = "lit" THEN o.v ELSE store[Program[o.v].sym]

Matches(c, i) ==
  /\ Program[i].tool = c.tool /\ Len(Program[i].args) = Len(c.args)
  /\ \A k \in DOMAIN c.args :
       Expected(Program[i].args[k]) # None /\ Expected(Program[i].args[k]) = c.args[k]

\* check(live=False) and check(live=True): the first site wins.
Authorizing(c) == {i \in Site : Matches(c, i)}
Available(c) == {i \in Authorizing(c) : attempts[i] = "none"}

Ran(c, how, i) ==
  dispatched' = Append(dispatched,
    [call |-> c, how |-> how, site |-> i, current |-> i # None /\ Matches(c, i)])

\* Mutant of Reserved: a call that did not return may be made again.
ReservedNever(i, outcome) ==
  IF outcome = "returned" THEN "succeeded" ELSE "none"

\* begin, the tool, and what becomes of the token: record, mark_indeterminate,
\* or the exception of a record that cannot be made.
Outcomes == {"returned", "raised", "unrecordable"}
Reserved(i, outcome) ==
  CASE outcome = "returned" -> "succeeded"
    [] outcome = "raised" -> "indeterminate"
    [] outcome = "unrecordable" -> "started"

Execute(c, how, i, outcome, result) ==
  /\ Ran(c, how, i)
  /\ attempts' = [attempts EXCEPT ![i] = Reserved(i, outcome)]
  /\ store' = (IF outcome = "returned"
                 THEN [store EXCEPT ![Program[i].sym] = result] ELSE store)

-----------------------------------------------------------------------------
(* The program *)

\* The call the program makes next, with the values of its variables.
NextCall == Call(Program[at].tool,
  [k \in DOMAIN Program[at].args |->
     LET o == Program[at].args[k] IN IF o.op = "lit" THEN o.v ELSE locals[o.v]])

\* The program is left, at its end, by a denial or by an exception; a batched
\* run goes on to the barrier all the same.
Ended ==
  phase' = CASE mode = "direct" -> "ended"
             [] mode = "batched" -> "barrier"
             [] mode = "human" -> "propose"

Returns(value) ==
  /\ locals' = [locals EXCEPT ![at] = value] /\ at' = at + 1
  /\ IF at = Len(Program) THEN Ended ELSE UNCHANGED phase

Gated(c) ==
  mode = "batched" /\ c.tool \in Effects \cap Untrusted

\* A denial, or a second attempt, ends the program.
CallDenied ==
  /\ phase = "run" /\ Available(NextCall) = {}
  /\ Ended
  /\ UNCHANGED <<program, enforcer, batch, grants, actions, dispatched>>

\* A gated effect is authorized, and put aside without a reservation.
CallDeferred ==
  /\ phase = "run" /\ Available(NextCall) # {} /\ Gated(NextCall)
  /\ deferred' = Append(deferred, [call |-> NextCall, approved |-> FALSE])
  /\ Returns(Deferred)
  /\ UNCHANGED <<mode, enforcer, next, grants, actions, dispatched>>

CallExecuted ==
  /\ phase = "run" /\ Available(NextCall) # {} /\ ~Gated(NextCall)
  /\ \E outcome \in Outcomes, result \in Results[NextCall.tool] :
       /\ Execute(NextCall, "inline", Min(Available(NextCall)), outcome, result)
       /\ IF outcome = "unrecordable"
            THEN Ended /\ UNCHANGED <<locals, at>>
            ELSE Returns(IF outcome = "returned" THEN result ELSE None)
  /\ UNCHANGED <<mode, batch, grants, actions>>

-----------------------------------------------------------------------------
(* The barrier and the commit *)

\* The user is shown one operand of one action after the other, ...
Confirm ==
  /\ phase = "barrier" /\ next < Len(deferred)
  /\ \E answer \in BOOLEAN :
       deferred' = [deferred EXCEPT ![next + 1].approved = answer]
  /\ next' = next + 1
  /\ UNCHANGED <<phase, program, enforcer, grants, actions, dispatched>>

\* ... and about all of them before anything is done.
Handover ==
  /\ phase = "barrier" /\ next = Len(deferred)
  /\ phase' = "commit" /\ next' = 0
  /\ UNCHANGED <<program, enforcer, deferred, grants, actions, dispatched>>

\* Mutant of Committable: what was authorized when it was put aside still is.
CommittableOnce(c) == {i \in Site : Program[i].tool = c.tool /\ attempts[i] = "none"}

\* The action is checked again: its site may be spent, its operand replaced.
Committable(c) == Available(c)

\* Mutant of Approved: whatever was put aside is done.
ApprovedAll(action) == TRUE

Approved(action) == action.approved

\* A record that cannot be made ends the commit, and what is left of it.
Commit ==
  /\ phase = "commit" /\ next < Len(deferred)
  /\ LET action == deferred[next + 1]
         sites == Committable(action.call)
     IN IF Approved(action) /\ sites # {}
          THEN \E outcome \in Outcomes, result \in Results[action.call.tool] :
                 /\ Execute(action.call, "commit", Min(sites), outcome, result)
                 /\ phase' = IF outcome = "unrecordable" THEN "ended" ELSE phase
          ELSE UNCHANGED <<phase, enforcer, dispatched>>
  /\ next' = next + 1
  /\ UNCHANGED <<program, deferred, grants, actions>>

Committed ==
  /\ phase = "commit" /\ next = Len(deferred)
  /\ phase' = "ended"
  /\ UNCHANGED <<program, enforcer, batch, grants, actions, dispatched>>

-----------------------------------------------------------------------------
(* Grants *)

\* What a grant is bound to: the tool and the texts of its control operands.
Bound(c) ==
  <<c.tool, [k \in 1..Len(Control[c.tool]) |-> Text[c.args[Control[c.tool][k]]]]>>

\* A proposal the user approves is minted into one grant.
Mint(c) == live' = Append(live, Bound(c)) /\ minted' = Append(minted, Bound(c))

Propose ==
  /\ phase = "propose" /\ actions < MaxActions
  /\ actions' = actions + 1
  /\ \E c \in Extra : Mint(c) \/ UNCHANGED grants
  /\ UNCHANGED <<phase, program, enforcer, batch, dispatched>>

Proposed ==
  /\ phase = "propose"
  /\ phase' = "redeem" /\ actions' = 0
  /\ UNCHANGED <<program, enforcer, batch, grants, dispatched>>

\* Mutant of Spent: a grant is looked up, and kept.
SpentNever(grant) == live

\* One redemption takes one grant.
Spent(grant) == RemoveFirst(live, grant)

\* The executor may be handed anything: what was approved, that once more,
\* or other operands.  Without a grant nothing happens; with one, the call is
\* made and the grant is gone, whatever becomes of the call.
Redeem ==
  /\ phase = "redeem" /\ actions < MaxActions
  /\ actions' = actions + 1
  /\ \E c \in Extra :
       IF Bound(c) \in ToSet(live)
         THEN live' = Spent(Bound(c)) /\ Ran(c, "granted", None)
         ELSE UNCHANGED <<live, dispatched>>
  /\ UNCHANGED <<phase, program, enforcer, batch, minted>>

Redeemed ==
  /\ phase = "redeem" /\ phase' = "ended"
  /\ UNCHANGED <<program, enforcer, batch, grants, actions, dispatched>>

-----------------------------------------------------------------------------
(* The stream: nothing in it reserves or records *)

\* Reads are made whether or not the plan has them.
StreamRead(c) == c.tool \notin Effects /\ Ran(c, "read", None) /\ UNCHANGED grants

StreamPlanned(c) ==
  /\ c.tool \in Effects /\ Authorizing(c) # {}
  /\ Ran(c, "stream", Min(Authorizing(c)))
  /\ UNCHANGED grants

\* An approved call is minted a grant, which is redeemed at once.
StreamAsked(c) ==
  /\ c.tool \in Effects /\ Authorizing(c) = {}
  /\ \/ /\ minted' = Append(minted, Bound(c)) /\ UNCHANGED live
        /\ Ran(c, "granted", None)
     \/ UNCHANGED <<grants, dispatched>>

Stream ==
  /\ phase = "stream" /\ actions < MaxActions
  /\ actions' = actions + 1
  /\ \E c \in Extra : StreamRead(c) \/ StreamPlanned(c) \/ StreamAsked(c)
  /\ UNCHANGED <<phase, program, enforcer, batch>>

Next ==
  \/ CallDenied \/ CallDeferred \/ CallExecuted
  \/ Confirm \/ Handover \/ Commit \/ Committed
  \/ Propose \/ Proposed \/ Redeem \/ Redeemed
  \/ Stream

Spec == Init /\ [][Next]_vars

-----------------------------------------------------------------------------
(* Properties *)

CallsOf(c) == {n \in DOMAIN dispatched : dispatched[n].call = c}
Approvals(c) == {n \in DOMAIN deferred : deferred[n].call = c /\ deferred[n].approved}

\* A gated effect is made no more often than the user approved an action with
\* that tool and those operands, and never while the program still runs.
EffectsAreApproved ==
  mode = "batched" => \A n \in DOMAIN dispatched :
    LET c == dispatched[n].call IN
    Gated(c) => Cardinality(CallsOf(c)) <= Cardinality(Approvals(c))

RunsOf(i) == {n \in DOMAIN dispatched : dispatched[n].site = i}

\* A call site is spent by its first attempt, however often its call is put
\* aside, raises or cannot be recorded.
SitesRunOnce ==
  mode # "stream" => \A i \in Site : Cardinality(RunsOf(i)) <= 1

\* What is made under the plan has the operands observed at that moment, not
\* those observed when it was put aside.
DispatchIsCurrent ==
  \A n \in DOMAIN dispatched : dispatched[n].site # None => dispatched[n].current

CallsGranted(b) ==
  {n \in DOMAIN dispatched : dispatched[n].how = "granted" /\ Bound(dispatched[n].call) = b}
Unspent(b) == {n \in DOMAIN live : live[n] = b}
EverMinted(b) == {n \in DOMAIN minted : minted[n] = b}

\* The user's grants are spent one by one: for each tool and its control
\* operands there are no more calls than there were approvals.
GrantsAreSpentOnce ==
  \A n \in DOMAIN dispatched : dispatched[n].how = "granted" =>
    LET b == Bound(dispatched[n].call) IN
    Cardinality(CallsGranted(b)) + Cardinality(Unspent(b)) <= Cardinality(EverMinted(b))

\* A streamed agent repeats no call of the plan more often than the plan has it.
StreamIsBounded ==
  \A n \in DOMAIN dispatched : dispatched[n].how = "stream" =>
    LET c == dispatched[n].call IN
    Cardinality({m \in CallsOf(c) : dispatched[m].how = "stream"})
      <= Cardinality(Authorizing(c))
=============================================================================

------------------------- MODULE CompositePlan_proofs -------------------------
(***************************************************************************)
(* Proofs about plans in stages, for every plan that validate_plan accepts *)
(* and whatever the tools return: no stage runs before its time, what an   *)
(* untrusted tool had a hand in runs as approved, and a plan comes to rest *)
(* only where it is over or waits for what nobody knows.                   *)
(*                                                                         *)
(* All three rest on one fact: a variable is bound once.  What let a stage *)
(* in therefore goes on holding, and so do the code of the stage (its      *)
(* template unrolled over a bound list) and the taint it inherits.         *)
(***************************************************************************)
EXTENDS CompositePlan, TLAPS, WellFoundedInduction, SequenceTheorems, FiniteSetTheorems

\* What has been bound lets stage k in: its guard holds, its list is there and
\* has elements to unroll the template over.
Let(k) == Enters(k) /\ Ready(k) /\ ~ Broken(k)

Answer(b) == b = Nothing \/ b.v \in Observable

TypeInv ==
  /\ stage \in 1..Len(Stages)
  /\ DOMAIN bindings = Vars
  /\ \A x \in Vars : Answer(bindings[x])
  /\ \A t \in DOMAIN attempts : t[1] \in 1..stage

EntryInv == \A i \in 1..stage : Let(i)

-----------------------------------------------------------------------------
(***************************************************************************)
(* Plans and their stages.                                                 *)
(***************************************************************************)

LEMMA LessThan == OpToRel(<, Nat) = {p \in Nat \X Nat : p[1] < p[2]}
  BY DEF OpToRel

LEMMA MinIsLeast ==
  ASSUME NEW S \in SUBSET Nat, S # {}
  PROVE  Min(S) \in S /\ \A x \in S : Min(S) <= x
<1>1. PICK m \in S : \A y \in S : <<y, m>> \notin OpToRel(<, Nat)
  BY WFMin, NatLessThanWellFounded
<1>2. \A y \in S : m <= y
  <2> SUFFICES ASSUME NEW y \in S, y < m PROVE FALSE
    OBVIOUS
  <2>1. <<y, m>> \in {p \in Nat \X Nat : p[1] < p[2]}
    OBVIOUS
  <2> QED
    BY <1>1, <2>1, LessThan, Zenon
<1> QED
  BY <1>2 DEF Min

LEMMA StageFacts ==
  /\ Len(Stages) \in Nat /\ Len(Stages) >= 1
  /\ StageIds = 1..Len(Stages)
<1>1. Stages \in Seq(Range(Stages)) /\ Stages # <<>>
  BY PlanAssumption
<1> QED
  BY <1>1, EmptySeq, LenProperties DEF StageIds

LEMMA SiteFacts ==
  ASSUME NEW k \in StageIds
  PROVE  /\ Len(Stages[k].sites) \in Nat
         /\ DOMAIN Stages[k].sites = 1..Len(Stages[k].sites)
         /\ Stages[k].sites # <<>> <=> Len(Stages[k].sites) >= 1
<1>1. Stages[k].sites \in Seq(Range(Stages[k].sites))
  BY StageAssumption DEF SelfContained
<1> QED
  BY <1>1, EmptySeq, LenProperties

\* What a stage is entered by is a variable of an earlier one.
LEMMA EntryReadsVars ==
  ASSUME NEW k \in StageIds
  PROVE  /\ Stages[k].guard # Nothing => Stages[k].guard.on \in Vars
         /\ Stages[k].list # Nothing => Stages[k].list \in Vars
<1>1. Valid(k)
  BY PlanAssumption
<1>2. ASSUME NEW i \in StageIds PROVE Binds(i) \subseteq Vars
  <2>1. \A site \in Range(Stages[i].sites) : site \in Templates
    BY <1>2 DEF Templates
  <2>2. Binds(i) \subseteq {site.var : site \in Range(Stages[i].sites)} \ {Nothing}
    BY Zenon DEF Binds
  <2> QED
    BY <2>1, <2>2 DEF Vars
<1>3. Known(k) \subseteq Vars
  <2>1. \A i \in 1..(k - 1) : i \in StageIds
    BY StageFacts
  <2> QED
    BY <1>2, <2>1 DEF Known
<1> QED
  BY <1>1, <1>3 DEF Valid

LEMMA FirstIsLet ==
  1 \in StageIds /\ Let(1)
<1>1. 1 \in StageIds
  BY StageFacts
<1>2. Valid(1)
  BY <1>1, PlanAssumption
<1> QED
  BY <1>1, <1>2 DEF Valid, Let, Enters, Ready, Broken

-----------------------------------------------------------------------------
(***************************************************************************)
(* What is bound stays bound, and with it the stages that were let in.     *)
(***************************************************************************)

\* No step takes a binding back.
BindingsStay ==
  \A x \in Vars : Bound(x) => bindings'[x] = bindings[x]

LEMMA CodeStays ==
  ASSUME BindingsStay, NEW k \in StageIds, Ready(k)
  PROVE  Code(k)' = Code(k)
<1>1. CASE Stages[k].list = Nothing
  BY <1>1 DEF Code
<1>2. CASE Stages[k].list # Nothing
  <2>1. bindings'[Stages[k].list] = bindings[Stages[k].list]
    BY <1>2, EntryReadsVars DEF BindingsStay, Ready, Bound
  <2>2. Instances(k)' = Instances(k)
    BY <2>1 DEF Instances
  <2> QED
    BY <1>2, <2>1, <2>2 DEF Code
<1> QED
  BY <1>1, <1>2

LEMMA LetStays ==
  ASSUME BindingsStay, NEW k \in StageIds, Let(k)
  PROVE  Let(k)'
<1>1. Enters(k)' /\ Ready(k)'
  BY EntryReadsVars DEF BindingsStay, Let, Enters, Ready, Bound
<1>2. Code(k)' = Code(k)
  BY CodeStays DEF Let
<1>3. Stages[k].list # Nothing => bindings'[Stages[k].list] = bindings[Stages[k].list]
  BY EntryReadsVars DEF BindingsStay, Let, Ready, Bound
<1>4. ~ Broken(k)'
  BY <1>2, <1>3 DEF Let, Broken
<1> QED
  BY <1>1, <1>4 DEF Let

\* The stage the plan advances to is the next one with rules.
Lands(s) ==
  /\ Landing(s) \in (s + 1)..(Len(Stages) + 1)
  /\ Landing(s) \in StageIds => ~ NoRules(Landing(s))
  /\ \A i \in (s + 1)..(Landing(s) - 1) : i \in StageIds /\ NoRules(i)

LEMMA LandsOnce ==
  ASSUME NEW s \in StageIds
  PROVE  Lands(s)
<1> DEFINE S == {k \in (s + 1)..(Len(Stages) + 1) : k \in StageIds => ~ NoRules(k)}
<1>1. S \in SUBSET Nat /\ Len(Stages) + 1 \in S
  BY StageFacts
<1>2. Min(S) \in S /\ \A x \in S : Min(S) <= x
  <2> HIDE DEF S
  <2> QED
    BY <1>1, MinIsLeast
<1>3. Landing(s) = Min(S)
  BY DEF Landing
<1> HIDE DEF S
<1>4. PICK m : m = Landing(s)
  OBVIOUS
<1>5. m \in S /\ \A x \in S : m <= x
  BY <1>2, <1>3, <1>4
<1>6. \A i \in (s + 1)..(m - 1) : i \in StageIds /\ NoRules(i)
  BY <1>5, StageFacts DEF S
<1> QED
  BY <1>4, <1>5, <1>6 DEF S, Lands

\* In every state, and so in the next one.
LEMMA LandsThen == (\A s \in StageIds : Lands(s))'
<1>1. \A s \in StageIds : Lands(s)
  BY LandsOnce
<1> QED
  BY <1>1, PTL

-----------------------------------------------------------------------------
(***************************************************************************)
(* The steps.                                                              *)
(***************************************************************************)

LEMMA PutFacts ==
  ASSUME NEW f, NEW x, NEW e
  PROVE  /\ DOMAIN Put(f, x, e) = DOMAIN f \cup {x}
         /\ Put(f, x, e)[x] = e
         /\ \A y \in DOMAIN f : y # x => Put(f, x, e)[y] = f[y]
  BY DEF Put

\* Where the advance of a finished stage s may leave the plan: every stage up to
\* there has been let in.
LEMMA AdvanceLetsIn ==
  ASSUME NEW s \in StageIds, \A i \in 1..s : Let(i)', stage = s, AdvanceFrom(s)
  PROVE  /\ stage' \in s..Len(Stages)
         /\ \A i \in 1..stage' : Let(i)'
<1>1. CASE ~ StageComplete(s)'
  BY <1>1, StageFacts DEF AdvanceFrom
<1>2. CASE StageComplete(s)'
  <2>1. PICK k \in 1..(Len(Stages) + 1) : k = Landing(s)' /\ EnterOrEnd(k)
    BY <1>2 DEF AdvanceFrom
  <2>2. k \in (s + 1)..(Len(Stages) + 1) /\ \A i \in (s + 1)..(k - 1) : i \in StageIds /\ NoRules(i)'
    BY <2>1, LandsThen DEF Lands
  <2>3. \A i \in 1..(k - 1) : Let(i)'
    BY <2>2, StageFacts DEF NoRules, Let
  <2>4. \/ stage' = k - 1
        \/ k \in StageIds /\ stage' = k /\ Let(k)'
    BY <2>1 DEF EnterOrEnd, Let
  <2> QED
    BY <2>2, <2>3, <2>4, StageFacts
<1> QED
  BY <1>1, <1>2

LEMMA BindKeeps ==
  ASSUME TypeInv, NEW k, NEW tool, NEW r \in Observable, Bind(k, tool, r)
  PROVE  /\ BindingsStay
         /\ DOMAIN bindings' = Vars
         /\ \A x \in Vars : Answer(bindings'[x])
  BY DEF TypeInv, Bind, BindingsStay, Bound, Answer

-----------------------------------------------------------------------------
(***************************************************************************)
(* The code of a stage that was let in.                                    *)
(***************************************************************************)

\* The template of a fan-out has a list of its own to be unrolled over.
LEMMA ListFacts ==
  ASSUME TypeInv, NEW k \in StageIds, Let(k), Stages[k].list # Nothing
  PROVE  Instances(k) \in Nat
<1> DEFINE list == bindings[Stages[k].list]
<1>1. list # Nothing /\ Stages[k].list \in Vars
  BY EntryReadsVars DEF Let, Ready, Bound
<1>2. list.v \in Observable /\ IsList(list.v)
  BY <1>1 DEF TypeInv, Answer, Let, Broken
<1>3. Len(list.v) \in Nat
  BY <1>2, ResultAssumption, LenProperties
<1>4. Stages[k].max \in Nat
  BY PlanAssumption DEF Valid
<1>5. Instances(k) \in {Len(list.v), Stages[k].max}
  BY <1>3, <1>4, MinIsLeast DEF Instances
<1> QED
  BY <1>3, <1>4, <1>5

\* A call of a stage is a call of its template, up to operand and variable.
SameCall(a, b) == a.tool = b.tool /\ a.sym = b.sym /\ a.when = b.when /\ a.loop = b.loop

LEMMA FoldedIsSame ==
  ASSUME NEW site \in Templates, NEW element
  PROVE  SameCall(Folded(site, element), site)
<1>1. DOMAIN site = {"tool", "arg", "sym", "when", "loop", "var"}
  BY SiteAssumption
<1> QED
  BY <1>1 DEF Folded, SameCall

LEMMA Unrolled ==
  ASSUME NEW w \in Nat, NEW n \in Nat, NEW j \in 1..(n * w)
  PROVE  /\ w >= 1
         /\ ((j - 1) % w) + 1 \in 1..w
         /\ j = 1 => ((j - 1) % w) + 1 = 1
<1>1. w >= 1
  OBVIOUS
<1>2. j \in Int /\ j >= 1
  OBVIOUS
<1>3. ((j - 1) % w) \in 0..(w - 1) /\ (j = 1 => (0 % w) = 0)
  BY <1>1, <1>2
<1> QED
  BY <1>1, <1>3

LEMMA CodeFacts ==
  ASSUME TypeInv, NEW k \in StageIds, Let(k)
  PROVE  /\ \A j \in DOMAIN Code(k) : \E site \in Range(Stages[k].sites) : SameCall(Code(k)[j], site)
         /\ Code(k) # <<>> =>
              /\ Stages[k].sites # <<>>
              /\ 1 \in DOMAIN Code(k) /\ SameCall(Code(k)[1], Stages[k].sites[1])
<1> DEFINE sites == Stages[k].sites
           width == Len(sites)
<1>0. /\ width \in Nat /\ DOMAIN sites = 1..width
      /\ sites # <<>> <=> width >= 1
      /\ \A i \in DOMAIN sites : sites[i] \in Range(sites) /\ sites[i] \in Templates
  BY SiteFacts DEF Range, Templates
<1>1. CASE Stages[k].list = Nothing
  BY <1>0, <1>1 DEF Code, SameCall
<1>2. CASE Stages[k].list # Nothing
  <2> DEFINE N == Instances(k) * width
             Site(j) == ((j - 1) % width) + 1
             Element(j) == bindings[Stages[k].list].v[((j - 1) \div width) + 1]
  <2>1. N \in Nat /\ (width = 0 => N = 0)
    BY <1>0, <1>2, ListFacts
  <2>2. Code(k) = [j \in 1..N |-> Folded(sites[Site(j)], Element(j))]
    BY <1>2 DEF Code
  <2>3. ASSUME NEW j \in 1..N PROVE Site(j) \in DOMAIN sites
    BY <1>0, <1>2, <2>3, ListFacts, Unrolled
  <2>4. \A j \in 1..N : SameCall(Code(k)[j], sites[Site(j)])
    <3> HIDE DEF N, Site, Element, sites
    <3> QED
      BY <1>0, <2>2, <2>3, FoldedIsSame
  <2>5. Code(k) # <<>> => 1 \in 1..N
    <3> HIDE DEF N, Site, Element
    <3> QED
      BY <2>1, <2>2
  <2>6. Code(k) # <<>> => Site(1) = 1 /\ sites # <<>>
    <3> SUFFICES ASSUME Code(k) # <<>> PROVE Site(1) = 1 /\ sites # <<>>
      OBVIOUS
    <3>1. 1 \in 1..(Instances(k) * width)
      BY <2>5
    <3>2. width >= 1 /\ Site(1) = 1
      BY <1>0, <1>2, <3>1, ListFacts, Unrolled
    <3> QED
      BY <1>0, <3>2
  <2>7. DOMAIN Code(k) = 1..N
    <3> HIDE DEF N, Site, Element
    <3> QED
      BY <2>2
  <2> HIDE DEF N, Site, Element
  <2> QED
    BY <1>0, <2>3, <2>4, <2>5, <2>6, <2>7
<1> QED
  BY <1>1, <1>2

LEMMA CallsATool ==
  ASSUME TypeInv, NEW k \in StageIds, Let(k), NEW j \in DOMAIN Code(k)
  PROVE  Results[Code(k)[j].tool] \subseteq Observable
<1>1. PICK site \in Range(Stages[k].sites) : SameCall(Code(k)[j], site)
  BY CodeFacts
<1>2. site \in Templates
  BY DEF Templates
<1>3. Code(k)[j].tool \in Tools
  BY <1>1, <1>2 DEF Tools, SameCall
<1> QED
  BY <1>3 DEF Observable

-----------------------------------------------------------------------------
(***************************************************************************)
(* Every step keeps what was bound and lets a stage in before it acts.     *)
(***************************************************************************)

\* A call of the current stage, and how it ended.
Ends(k, j, n, v) ==
  \/ \E r \in Results[Code(k)[j].tool] : Return(k, j, n, v, r)
  \/ Raise(k, j, n, v)

LEMMA ReturnStep ==
  ASSUME TypeInv, EntryInv, NEW k \in StageIds, k = stage, NEW j \in DOMAIN Code(k), NEW n, NEW v,
         NEW r \in Results[Code(k)[j].tool], Return(k, j, n, v, r)
  PROVE  TypeInv' /\ EntryInv' /\ BindingsStay
<1>1. Let(k) /\ \A i \in 1..k : i \in StageIds /\ Let(i)
  BY StageFacts DEF EntryInv
<1>2. r \in Observable
  BY <1>1, CallsATool
<1>3. /\ BindingsStay /\ DOMAIN bindings' = Vars
      /\ \A x \in Vars : Answer(bindings'[x])
  <2>1. Bind(k, Code(k)[j].tool, r)
    BY DEF Return
  <2> QED
    BY <1>2, <2>1, BindKeeps
<1>4. \A i \in 1..k : Let(i)'
  BY <1>1, <1>3, LetStays
<1>5. stage' \in k..Len(Stages) /\ \A i \in 1..stage' : Let(i)'
  <2>1. AdvanceFrom(k)
    BY DEF Return
  <2> QED
    BY <1>4, <2>1, AdvanceLetsIn
<1>6. DOMAIN attempts' = DOMAIN attempts \cup {<<k, j, n>>}
  BY PutFacts DEF Return, Ran
<1>7. \A t \in DOMAIN attempts' : t[1] \in 1..stage'
  BY <1>5, <1>6, StageFacts DEF TypeInv
<1> QED
  BY <1>3, <1>5, <1>7, StageFacts DEF TypeInv, EntryInv

LEMMA RaiseStep ==
  ASSUME TypeInv, EntryInv, NEW k \in StageIds, k = stage, NEW j, NEW n, NEW v, Raise(k, j, n, v)
  PROVE  TypeInv' /\ EntryInv' /\ BindingsStay
<1>1. UNCHANGED <<stage, bindings>>
  BY DEF Raise, progress
<1>2. DOMAIN attempts' = DOMAIN attempts \cup {<<k, j, n>>}
  BY PutFacts DEF Raise, Ran
<1>3. TypeInv'
  BY <1>1, <1>2, StageFacts DEF TypeInv
<1>4. BindingsStay
  BY <1>1 DEF BindingsStay
<1>5. EntryInv'
  BY <1>1, <1>4, LetStays, StageFacts DEF EntryInv, TypeInv
<1> QED
  BY <1>3, <1>4, <1>5

LEMMA IdleStep ==
  ASSUME TypeInv, EntryInv, UNCHANGED <<stage, bindings, attempts>>
  PROVE  TypeInv' /\ EntryInv' /\ BindingsStay
<1>1. TypeInv' /\ BindingsStay
  BY DEF TypeInv, BindingsStay
<1> QED
  BY <1>1, LetStays, StageFacts DEF EntryInv, TypeInv

\* The ways a step can go: a call ends, or nothing but the gates moves.
LEMMA Steps ==
  ASSUME TypeInv, [Next]_vars
  PROVE  \/ \E j \in DOMAIN Code(stage) : \E n, v : Ends(stage, j, n, v)
         \/ /\ UNCHANGED <<policy, progress, store, attempts>>
            /\ \/ \E j \in DOMAIN Code(stage) : \E n, v : Hold(stage, j, n, v)
               \/ \E item, approved : Confirm(item, approved)
               \/ UNCHANGED vars
<1>1. CASE UNCHANGED vars
  BY <1>1 DEF vars
<1>2. CASE \E item \in held, approved \in BOOLEAN : Confirm(item, approved)
  BY <1>2 DEF Confirm
<1>3. ASSUME NEW k \in {stage}, NEW j \in DOMAIN Code(k), NEW n, NEW v, Call(k, j, n, v)
      PROVE  \/ Ends(k, j, n, v)
             \/ UNCHANGED <<policy, progress, store, attempts>> /\ Hold(k, j, n, v)
  BY <1>3 DEF Call, Ends, Hold
<1> QED
  BY <1>1, <1>2, <1>3 DEF Next

LEMMA EntryStep ==
  ASSUME TypeInv, EntryInv, [Next]_vars
  PROVE  TypeInv' /\ EntryInv' /\ BindingsStay
<1>1. stage \in StageIds
  BY StageFacts DEF TypeInv
<1>2. ASSUME NEW k \in StageIds, k = stage, NEW j \in DOMAIN Code(k), NEW n, NEW v, Ends(k, j, n, v)
      PROVE  TypeInv' /\ EntryInv' /\ BindingsStay
  BY <1>2, ReturnStep, RaiseStep DEF Ends
<1>3. CASE UNCHANGED <<policy, progress, store, attempts>>
  BY <1>3, IdleStep DEF progress
<1> QED
  BY <1>1, <1>2, <1>3, Steps

LEMMA EntryInit ==
  Init => TypeInv /\ EntryInv
<1> SUFFICES ASSUME Init PROVE TypeInv /\ EntryInv
  OBVIOUS
<1>1. stage = 1 /\ DOMAIN attempts = {} /\ bindings = [x \in Vars |-> Nothing]
  BY DEF Init
<1> QED
  BY <1>1, FirstIsLet, StageFacts DEF TypeInv, EntryInv, Answer

THEOREM EntryInvariant == Spec => [](TypeInv /\ EntryInv)
<1>1. TypeInv /\ EntryInv /\ [Next]_vars => (TypeInv /\ EntryInv)'
  BY EntryStep
<1> QED
  BY <1>1, EntryInit, PTL DEF Spec

\* No rule of a stage authorizes a call before the guards and lists of this stage
\* and of those before it have let it in; and what let them in holds for good,
\* since a variable is bound by the first answer only (_composite_advance).
THEOREM StagesAreInactive == Spec => []NothingEarly
<1>1. TypeInv /\ EntryInv => NothingEarly
  <2> SUFFICES ASSUME TypeInv, EntryInv, NEW k \in StageIds, NEW t \in DOMAIN attempts, t[1] = k,
                      NEW i \in 1..k
               PROVE  Enters(i) /\ Ready(i)
    BY DEF NothingEarly, Attempted
  <2>1. i \in 1..stage
    BY StageFacts DEF TypeInv
  <2> QED
    BY <2>1 DEF EntryInv, Let
<1> QED
  BY <1>1, EntryInvariant, PTL

-----------------------------------------------------------------------------
(***************************************************************************)
(* What an untrusted tool had a hand in runs as approved.                  *)
(***************************************************************************)

\* The variables a stage is let in by.
Reading(k) ==
  {x \in Vars : \/ x = Stages[k].list
                \/ Stages[k].guard # Nothing /\ x = Stages[k].guard.on}

Tainted(k, site) ==
  /\ site.tool \in Control
  /\ \/ OperandSources(k, site) # {}
     \/ \E x \in Reading(k) : bindings[x].from \in Untrusted

Consented(k, item) ==
  \/ policy = "approve"
  \/ policy = "human" /\ \E i \in 1..k : <<i, item>> \in consented

\* An attempt at a tainted call, its stage still having the code it ran with.
Backed(t) ==
  LET site == Code(t[1])[t[2]] IN
  Tainted(t[1], site) => Consented(t[1], OperandItem(site.tool, attempts[t].value))

\* A hold and a confirmed item are the user's, and come before the calls they
\* are for.
ConsentInv ==
  /\ held # {} => policy = "human"
  /\ \A item \in confirmed : Consented(stage, item)
  /\ \A t \in DOMAIN attempts : t[2] \in DOMAIN Code(t[1]) /\ Backed(t)

LEMMA ReadingIsBound ==
  ASSUME NEW k \in StageIds, Let(k), NEW x \in Reading(k)
  PROVE  x \in Vars /\ x # Nothing /\ Bound(x)
  BY DEF Reading, Vars, Let, Enters, Ready

LEMMA TaintedIsGated ==
  ASSUME NEW k \in StageIds, NEW site \in Range(Code(k)), Tainted(k, site)
  PROVE  site.tool \in Gated(k)
<1>1. OperandSources(k, site) \cup Inherited(k) # {}
  <2>1. CASE OperandSources(k, site) # {}
    BY <2>1
  <2>2. ASSUME NEW x \in Reading(k), bindings[x].from \in Untrusted
        PROVE  bindings[x].from \in Inherited(k)
    BY <2>2 DEF Inherited, Reading, Vars
  <2> QED
    BY <2>1, <2>2 DEF Tainted
<1> QED
  BY <1>1 DEF Gated, Tainted

LEMMA TaintStays ==
  ASSUME BindingsStay, NEW k \in StageIds, Let(k), NEW site
  PROVE  Tainted(k, site)' <=> Tainted(k, site)
<1>1. OperandSources(k, site)' = OperandSources(k, site)
  <2>1. Code(k)' = Code(k)
    BY CodeStays DEF Let
  <2> QED
    BY <2>1 DEF OperandSources
<1>2. \A x \in Reading(k) : bindings'[x] = bindings[x]
  BY ReadingIsBound DEF BindingsStay
<1> QED
  BY <1>1, <1>2 DEF Tainted

\* The gate lets a tainted call of the current stage pass as the user wants it.
LEMMA GateAsksTheUser ==
  ASSUME ConsentInv, NEW k \in StageIds, k = stage, NEW j \in DOMAIN Code(k), NEW v,
         PassGate(k, j, v), Tainted(k, Code(k)[j])
  PROVE  Consented(k, OperandItem(Code(k)[j].tool, v))
<1>1. CASE policy = "approve"
  BY <1>1 DEF Consented
<1>2. CASE policy # "approve"
  <2>1. Code(k)[j].tool \in Gated(k)
    BY TaintedIsGated DEF Range
  <2>2. OperandItem(Code(k)[j].tool, v) \in confirmed
    BY <1>2, <2>1 DEF PassGate, Missing, Unconfirmed
  <2> QED
    BY <2>2 DEF ConsentInv
<1> QED
  BY <1>1, <1>2

\* Nothing is confirmed at the gate but where the deployment approves of it all.
LEMMA GateConfirms ==
  ASSUME ConsentInv, NEW k, NEW j, NEW v, PassGate(k, j, v), UNCHANGED policy
  PROVE  policy = "approve" \/ confirmed' = confirmed
  BY DEF PassGate

LEMMA ConsentStays ==
  ASSUME UNCHANGED policy, consented \subseteq consented', NEW k, NEW l, 1..k \subseteq 1..l,
         NEW item, Consented(k, item)
  PROVE  Consented(l, item)'
  BY DEF Consented

\* What was attempted is still backed.
LEMMA BackedStays ==
  ASSUME TypeInv, EntryInv, ConsentInv, BindingsStay, UNCHANGED policy, consented \subseteq consented',
         NEW t \in DOMAIN attempts, attempts'[t] = attempts[t]
  PROVE  (t[2] \in DOMAIN Code(t[1]))' /\ Backed(t)'
<1>1. t[1] \in StageIds /\ Let(t[1])
  BY StageFacts DEF TypeInv, EntryInv
<1>2. Code(t[1])' = Code(t[1])
  BY <1>1, CodeStays DEF Let
<1> DEFINE site == Code(t[1])[t[2]]
<1>3. Tainted(t[1], site)' <=> Tainted(t[1], site)
  <2>1. PICK s : s = site
    OBVIOUS
  <2>2. Tainted(t[1], s)' <=> Tainted(t[1], s)
    BY <1>1, TaintStays
  <2> QED
    BY <1>2, <2>1, <2>2 DEF Tainted, OperandSources
<1> QED
  BY <1>2, <1>3 DEF ConsentInv, Backed, Consented, OperandItem

LEMMA RanFacts ==
  ASSUME NEW k, NEW j, NEW n, NEW v, NEW o, Ran(k, j, n, v, o)
  PROVE  /\ DOMAIN attempts' = DOMAIN attempts \cup {<<k, j, n>>}
         /\ attempts'[<<k, j, n>>].value = v
         /\ \A t \in DOMAIN attempts : t # <<k, j, n>> => attempts'[t] = attempts[t]
<1> DEFINE x == <<k, j, n>>
           e == [value |-> v, outcome |-> o]
<1>1. e.value = v
  OBVIOUS
<1>2. attempts' = Put(attempts, x, e)
  BY DEF Ran
<1>3. /\ DOMAIN attempts' = DOMAIN attempts \cup {x}
      /\ attempts'[x] = e
      /\ \A t \in DOMAIN attempts : t # x => attempts'[t] = attempts[t]
  <2> HIDE DEF x, e
  <2> QED
    BY <1>2 DEF Put
<1> QED
  BY <1>1, <1>3

\* An attempt is recorded with the operand the gate saw.
LEMMA EndsBacked ==
  ASSUME TypeInv, EntryInv, ConsentInv, BindingsStay, NEW k \in StageIds, k = stage,
         NEW j \in DOMAIN Code(k), NEW n, NEW v, Ends(k, j, n, v), stage' \in k..Len(Stages)
  PROVE  ConsentInv'
<1>1. PassGate(k, j, v) /\ UNCHANGED <<policy, consented>> /\ \E o : Ran(k, j, n, v, o)
  BY DEF Ends, Return, Raise
<1>2. Let(k) /\ Code(k)' = Code(k)
  BY CodeStays, StageFacts DEF EntryInv, Let
<1>3. Tainted(k, Code(k)[j]) => Consented(k, OperandItem(Code(k)[j].tool, v))
  BY GateAsksTheUser, <1>1
<1>4. /\ DOMAIN attempts' = DOMAIN attempts \cup {<<k, j, n>>}
      /\ attempts'[<<k, j, n>>].value = v
      /\ \A t \in DOMAIN attempts : t # <<k, j, n>> => attempts'[t] = attempts[t]
  <2>1. PICK o : Ran(k, j, n, v, o)
    BY <1>1
  <2> QED
    BY <2>1, RanFacts
<1>5. ASSUME NEW t \in DOMAIN attempts' PROVE (t[2] \in DOMAIN Code(t[1]))' /\ Backed(t)'
  <2>1. CASE t = <<k, j, n>>
    <3>1. PICK s : s = Code(k)[j]
      OBVIOUS
    <3>2. Tainted(k, s)' <=> Tainted(k, s)
      BY <1>2, TaintStays
    <3>3. t[1] = k /\ t[2] = j
      BY <2>1
    <3>4. (Code(t[1])[t[2]])' = s /\ (j \in DOMAIN Code(k))'
      BY <1>2, <3>1, <3>3
    <3> QED
      BY <1>1, <1>2, <1>3, <1>4, <2>1, <3>1, <3>2, <3>3, <3>4 DEF Backed, Consented, OperandItem, Tainted, OperandSources
  <2>2. CASE t # <<k, j, n>>
    BY <1>1, <1>4, <2>2, BackedStays
  <2> QED
    BY <2>1, <2>2
<1>6. ASSUME NEW item \in confirmed' PROVE Consented(stage, item)'
  <2>1. 1..stage \subseteq 1..(stage')
    BY StageFacts
  <2> QED
    BY <1>1, <2>1, GateConfirms, ConsentStays DEF ConsentInv, Consented
<1>7. (held # {} => policy = "human")'
  BY <1>1 DEF PassGate, ConsentInv
<1> QED
  BY <1>5, <1>6, <1>7 DEF ConsentInv

LEMMA AdvanceMoves ==
  ASSUME NEW s \in StageIds, stage = s, AdvanceFrom(s)
  PROVE  stage' \in s..Len(Stages)
<1>1. CASE ~ StageComplete(s)'
  BY <1>1, StageFacts DEF AdvanceFrom
<1>2. CASE StageComplete(s)'
  <2>1. PICK k \in 1..(Len(Stages) + 1) : k = Landing(s)' /\ EnterOrEnd(k)
    BY <1>2 DEF AdvanceFrom
  <2>2. k \in (s + 1)..(Len(Stages) + 1)
    BY <2>1, LandsThen DEF Lands
  <2> QED
    BY <2>1, <2>2, StageFacts DEF EnterOrEnd
<1> QED
  BY <1>1, <1>2

LEMMA ConsentStep ==
  ASSUME TypeInv, EntryInv, ConsentInv, [Next]_vars
  PROVE  ConsentInv'
<1>1. stage \in StageIds /\ TypeInv' /\ BindingsStay
  BY EntryStep, StageFacts DEF TypeInv
<1>2. ASSUME NEW j \in DOMAIN Code(stage), NEW n, NEW v, Ends(stage, j, n, v)
      PROVE  ConsentInv'
  <2>1. stage' \in stage..Len(Stages)
    <3>1. CASE \E r \in Results[Code(stage)[j].tool] : Return(stage, j, n, v, r)
      BY <1>1, <1>2, <3>1, AdvanceMoves DEF Return
    <3>2. CASE Raise(stage, j, n, v)
      BY <1>1, <3>2, StageFacts DEF Raise, progress
    <3> QED
      BY <1>2, <3>1, <3>2 DEF Ends
  <2> QED
    BY <1>1, <1>2, <2>1, EndsBacked
<1>3. CASE UNCHANGED <<policy, progress, store, attempts>>
  <2>1. ASSUME consented \subseteq consented' PROVE \A t \in DOMAIN attempts' : (t[2] \in DOMAIN Code(t[1]))' /\ Backed(t)'
    BY <1>1, <1>3, <2>1, BackedStays
  <2>2. ASSUME NEW j \in DOMAIN Code(stage), NEW n, NEW v, Hold(stage, j, n, v)
        PROVE  ConsentInv'
    BY <1>3, <2>1, <2>2 DEF Hold, ConsentInv, Consented, progress
  <2>3. ASSUME NEW item, NEW approved, Confirm(item, approved)
        PROVE  ConsentInv'
    <3>1. UNCHANGED <<policy, stage>> /\ policy = "human" /\ consented \subseteq consented'
      BY <1>3, <2>3 DEF Confirm, ConsentInv, progress
    <3>2. ASSUME NEW i \in confirmed' PROVE Consented(stage, i)'
      <4>1. CASE i \in confirmed
        BY <3>1, <4>1 DEF ConsentInv, Consented
      <4>2. CASE i \notin confirmed
        BY <1>1, <2>3, <3>1, <4>2, StageFacts DEF Confirm, Consented
      <4> QED
        BY <4>1, <4>2
    <3> QED
      BY <2>1, <3>1, <3>2 DEF ConsentInv
  <2>4. CASE UNCHANGED vars
    BY <2>1, <2>4 DEF vars, gates, ConsentInv, Consented, progress
  <2> QED
    BY <1>2, <1>3, <2>2, <2>3, <2>4, Steps
<1> QED
  BY <1>2, <1>3, Steps

LEMMA ConsentInit ==
  Init => ConsentInv
  BY DEF Init, ConsentInv

\* The operand of a side-effecting call that an untrusted tool had a hand in, by
\* the operand itself, the list of the fan-out or the guard of the stage, is one
\* the user approved of in that stage or an earlier one, unless the deployment
\* approves of everything (_handle_tool_call_composite with composite_gate).
THEOREM UntrustedRunsAsApproved == Spec => []UntrustedIsConfirmed
<1>1. TypeInv /\ EntryInv /\ ConsentInv /\ [Next]_vars => ConsentInv'
  BY ConsentStep
<1>2. ConsentInv => UntrustedIsConfirmed
  BY DEF ConsentInv, Backed, Tainted, Consented, Reading, UntrustedIsConfirmed
<1> QED
  BY <1>1, <1>2, ConsentInit, EntryInvariant, PTL DEF Spec

-----------------------------------------------------------------------------
(***************************************************************************)
(* Where a plan comes to rest.                                             *)
(***************************************************************************)

\* RestsOnlyOnUnknown, with a name for the current stage.
RestInv ==
  \A s \in StageIds : s = stage /\ ~ complete /\ StageComplete(s) =>
    \/ \E t \in Attempted(s) : attempts[t].outcome = "indeterminate"
    \/ s < Len(Stages) /\ ~ Ready(Landing(s))

\* A stage that has rules and no attempt has a call left: what its first site
\* reads was not observed by anyone before, so it reads nothing.
LEMMA FirstCallIsLeft ==
  ASSUME TypeInv, NEW k \in StageIds, Let(k), Code(k) # <<>>,
         \A t \in DOMAIN attempts : t[1] # k
  PROVE  ~ StageComplete(k)
<1> DEFINE first == Stages[k].sites[1]
<1>1. /\ Stages[k].sites # <<>>
      /\ 1 \in DOMAIN Code(k) /\ SameCall(Code(k)[1], first)
  BY CodeFacts
<1>2. 1 \in DOMAIN Stages[k].sites /\ first \in Templates
  BY <1>1, SiteFacts DEF Range, Templates
<1>3. Reads(first) \subseteq {Stages[k].sites[i].sym : i \in 1..(1 - 1)}
  BY <1>2, StageAssumption DEF SelfContained
<1>4. Reads(first) = {}
  BY <1>3
<1>5. first.when = Nothing
  BY <1>4 DEF Reads
<1>6. first.loop # Nothing => first.loop.op # "obs"
  BY <1>4 DEF Reads
<1>7. first.loop # Nothing =>
        first.loop.op = "lit" /\ IsList(first.loop.v) /\ DOMAIN first.loop.v # {}
  BY <1>2, <1>6, LoopAssumption
<1>8. \E n : n \in Positions(Code(k)[1])
  BY <1>1, <1>7 DEF Positions, Collection, SameCall
<1>9. \A n : ~ Spent(k, 1, n)
  <2>1. ASSUME NEW n, <<k, 1, n>> \in DOMAIN attempts PROVE <<k, 1, n>>[1] # k
    BY <2>1
  <2> QED
    BY <2>1 DEF Spent
<1> QED
  BY <1>1, <1>5, <1>8, <1>9 DEF StageComplete, SiteComplete, Skipped, SameCall

LEMMA FirstCallIsLeftThen ==
  (\A k \in StageIds :
     TypeInv /\ Let(k) /\ Code(k) # <<>> /\ (\A t \in DOMAIN attempts : t[1] # k)
       => ~ StageComplete(k))'
<1>1. \A k \in StageIds :
        TypeInv /\ Let(k) /\ Code(k) # <<>> /\ (\A t \in DOMAIN attempts : t[1] # k)
          => ~ StageComplete(k)
  BY FirstCallIsLeft
<1> QED
  BY <1>1, PTL

\* The plan that left a finished stage is over, waits for the list of a later
\* one, or has a call to make.
LEMMA AdvanceRests ==
  ASSUME TypeInv', NEW s \in StageIds, stage = s, AdvanceFrom(s),
         \A t \in DOMAIN attempts' : t[1] \in 1..s
  PROVE  RestInv'
<1>1. CASE ~ StageComplete(s)'
  BY <1>1 DEF AdvanceFrom, RestInv
<1>2. CASE StageComplete(s)'
  <2>1. PICK k \in 1..(Len(Stages) + 1) : k = Landing(s)' /\ EnterOrEnd(k)
    BY <1>2 DEF AdvanceFrom
  <2>2. k \in (s + 1)..(Len(Stages) + 1) /\ (k \in StageIds => ~ NoRules(k)')
    BY <2>1, LandsThen DEF Lands
  <2>3. CASE complete'
    BY <2>3 DEF RestInv
  <2>4. CASE k \in StageIds /\ ~ Ready(k)' /\ stage' = k - 1
    <3>1. k - 1 \in StageIds /\ k - 1 < Len(Stages)
      BY <2>2, <2>4, StageFacts
    <3>2. PICK r : r = Landing(k - 1)'
      OBVIOUS
    <3>3. r \in k..(Len(Stages) + 1) /\ \A i \in k..(r - 1) : NoRules(i)'
      <4>1. Lands(k - 1)'
        BY <3>1, LandsThen
      <4>2. (k - 1) + 1 = k
        BY <2>2, StageFacts
      <4> QED
        BY <3>2, <4>1, <4>2 DEF Lands
    <3>4. r = k
      BY <2>2, <2>4, <3>3, StageFacts
    <3> QED
      BY <2>4, <3>1, <3>2, <3>4 DEF RestInv
  <2>5. CASE k \in StageIds /\ Let(k)' /\ stage' = k
    <3>1. (Code(k) # <<>>)'
      BY <2>2, <2>5 DEF NoRules, Let
    <3>2. \A t \in DOMAIN attempts' : t[1] # k
      BY <2>2, StageFacts
    <3>3. ~ StageComplete(k)'
      BY <2>5, <3>1, <3>2, FirstCallIsLeftThen
    <3> QED
      BY <2>5, <3>3 DEF RestInv
  <2> QED
    BY <2>1, <2>3, <2>4, <2>5 DEF EnterOrEnd, Let
<1> QED
  BY <1>1, <1>2

LEMMA RestStays ==
  ASSUME RestInv, UNCHANGED <<stage, complete, store, bindings, attempts>>
  PROVE  RestInv'
<1>1. \A k : Code(k)' = Code(k) /\ (Ready(k)' <=> Ready(k)) /\ (Enters(k)' <=> Enters(k))
  BY DEF Code, Instances, Ready, Enters, Bound
<1>2. \A k : Broken(k)' <=> Broken(k)
  BY <1>1 DEF Broken
<1>3. \A k : NoRules(k)' <=> NoRules(k)
  BY <1>1, <1>2 DEF NoRules
<1>4. \A s : Landing(s)' = Landing(s)
  BY <1>3 DEF Landing
<1>5. \A site : /\ Positions(site)' = Positions(site)
                /\ (IsList(Collection(site)))' <=> IsList(Collection(site))
                /\ GuardHolds(site)' <=> GuardHolds(site)
                /\ Skipped(site)' <=> Skipped(site)
  BY DEF Positions, Collection, GuardHolds, Skipped, IsList
<1>6. \A k, j : SiteComplete(k, j)' <=> SiteComplete(k, j)
  BY <1>1, <1>5 DEF SiteComplete, Spent
<1>7. \A k : StageComplete(k)' <=> StageComplete(k)
  BY <1>1, <1>6 DEF StageComplete
<1> QED
  BY <1>1, <1>4, <1>7 DEF RestInv, Attempted

LEMMA RestStep ==
  ASSUME TypeInv, EntryInv, RestInv, [Next]_vars
  PROVE  RestInv'
<1>1. stage \in StageIds /\ TypeInv'
  BY EntryStep, StageFacts DEF TypeInv
<1>2. ASSUME NEW j \in DOMAIN Code(stage), NEW n, NEW v, NEW r, Return(stage, j, n, v, r)
      PROVE  RestInv'
  <2>1. DOMAIN attempts' = DOMAIN attempts \cup {<<stage, j, n>>}
    BY <1>2, RanFacts DEF Return
  <2>2. \A t \in DOMAIN attempts' : t[1] \in 1..stage
    BY <1>1, <2>1, StageFacts DEF TypeInv
  <2> QED
    BY <1>1, <1>2, <2>2, AdvanceRests DEF Return
<1>3. ASSUME NEW k, k = stage, NEW j \in DOMAIN Code(k), NEW n, NEW v, Raise(k, j, n, v)
      PROVE  RestInv'
  <2>1. PICK t : t = <<k, j, n>>
    OBVIOUS
  <2>2. t[1] = k /\ stage' = k
    BY <1>3, <2>1 DEF Raise, progress
  <2>3. t \in DOMAIN attempts'
    BY <1>3, <2>1, RanFacts DEF Raise
  <2>4. attempts'[t].outcome = "indeterminate"
    <3>1. attempts' = Put(attempts, t, [value |-> v, outcome |-> "indeterminate"])
      BY <1>3, <2>1 DEF Raise, Ran
    <3>2. attempts'[t] = [value |-> v, outcome |-> "indeterminate"]
      BY <3>1 DEF Put
    <3> QED
      BY <3>2
  <2> QED
    BY <2>2, <2>3, <2>4 DEF RestInv, Attempted
<1>4. CASE UNCHANGED <<policy, progress, store, attempts>>
  BY <1>4, RestStays DEF progress
<1> QED
  BY <1>2, <1>3, <1>4, Steps DEF Ends

LEMMA RestInit ==
  Init => RestInv
<1> SUFFICES ASSUME Init PROVE RestInv
  OBVIOUS
<1>1. stage = 1 /\ DOMAIN attempts = {}
  BY DEF Init
<1>2. 1 \in StageIds /\ Let(1) /\ TypeInv
  BY FirstIsLet, EntryInit
<1>3. Stages[1].list = Nothing
  BY <1>2, PlanAssumption DEF Valid
<1>4. Code(1) # <<>>
  BY <1>3, FirstStageAssumption DEF Code
<1>5. ~ StageComplete(1)
  BY <1>1, <1>2, <1>4, FirstCallIsLeft
<1> QED
  BY <1>1, <1>5 DEF RestInv

\* A plan whose stage has no call left to make is over, or a tool of that stage
\* raised and nobody knows what it did, or a list it needs was never observed:
\* the loop of _composite_advance strands no plan in a finished stage.
THEOREM NoPlanIsStranded == Spec => []RestsOnlyOnUnknown
<1>1. TypeInv /\ EntryInv /\ RestInv /\ [Next]_vars => RestInv'
  BY RestStep
<1>2. TypeInv /\ RestInv => RestsOnlyOnUnknown
  BY StageFacts DEF TypeInv, RestInv, RestsOnlyOnUnknown
<1> QED
  BY <1>1, <1>2, RestInit, EntryInvariant, PTL DEF Spec

-----------------------------------------------------------------------------
(***************************************************************************)
(* Call j of an unrolled template of w calls is call Place(w, j)[1] of     *)
(* instance Place(w, j)[2].                                                *)
(***************************************************************************)

Place(w, j) == <<((j - 1) % w) + 1, ((j - 1) \div w) + 1>>

LEMMA Times ==
  ASSUME NEW w \in Nat, NEW a \in Nat, NEW b \in Nat, a < b
  PROVE  w * a + w <= w * b
<1>1. PICK c \in Nat : b = a + 1 + c
  <2>1. b - a - 1 \in Nat /\ b = a + 1 + (b - a - 1)
    OBVIOUS
  <2> QED
    BY <2>1
<1>2. w * b = w * a + w + w * c
  BY <1>1
<1>3. w * c \in Nat /\ w * a \in Nat
  OBVIOUS
<1> QED
  BY <1>2, <1>3

LEMMA Division ==
  ASSUME NEW w \in Nat, w >= 1, NEW a \in Nat
  PROVE  /\ a \div w \in Nat /\ a % w \in 0..(w - 1)
         /\ a = w * (a \div w) + (a % w)
  OBVIOUS

LEMMA DivisionIsUnique ==
  ASSUME NEW w \in Nat, NEW q \in Nat, NEW r \in 0..(w - 1), NEW p \in Nat, NEW s \in 0..(w - 1),
         w * q + r = w * p + s
  PROVE  q = p /\ r = s
<1>0. w * q \in Nat /\ w * p \in Nat
  OBVIOUS
<1>1. ~ (q < p)
  <2>1. q < p => w * q + w <= w * p
    BY Times
  <2> QED
    BY <1>0, <2>1
<1>2. ~ (p < q)
  <2>1. p < q => w * p + w <= w * q
    BY Times
  <2> QED
    BY <1>0, <2>1
<1>3. q = p
  BY <1>1, <1>2
<1>4. w * p = w * q
  BY <1>3
<1> QED
  BY <1>0, <1>3, <1>4

LEMMA PlaceFacts ==
  ASSUME NEW w \in Nat, NEW n \in Nat, NEW j \in 1..(n * w)
  PROVE  /\ Place(w, j)[1] \in 1..w /\ Place(w, j)[2] \in 1..n
         /\ j = w * (Place(w, j)[2] - 1) + Place(w, j)[1]
<1>1. w >= 1 /\ j - 1 \in Nat /\ n * w \in Nat
  OBVIOUS
<1>2. PICK q, r : q = (j - 1) \div w /\ r = (j - 1) % w
  OBVIOUS
<1>3. q \in Nat /\ r \in 0..(w - 1) /\ j - 1 = w * q + r
  BY <1>1, <1>2, Division
<1>4. q < n
  <2>1. n = q \/ n < q => w * n <= w * q
    <3>1. n < q => w * n + w <= w * q
      BY <1>3, Times
    <3>2. w * n \in Nat /\ w * q \in Nat
      BY <1>3
    <3> QED
      BY <3>1, <3>2
  <2>2. w * n = n * w
    OBVIOUS
  <2>3. w * q < n * w
    <3>1. w * q \in Nat
      BY <1>3
    <3> QED
      BY <1>1, <1>3, <3>1
  <2>4. w * q \in Nat
    BY <1>3
  <2> QED
    BY <1>1, <1>3, <2>1, <2>2, <2>3, <2>4
<1>5. Place(w, j)[1] = r + 1 /\ Place(w, j)[2] = q + 1
  BY <1>2 DEF Place
<1>6. w * q \in Nat /\ (q + 1) - 1 = q
  BY <1>3
<1> QED
  BY <1>1, <1>3, <1>4, <1>5, <1>6

LEMMA EveryPlace ==
  ASSUME NEW w \in Nat, NEW n \in Nat, NEW x \in (1..w) \X (1..n)
  PROVE  \E j \in 1..(n * w) : Place(w, j) = x
<1>0. PICK a \in 1..w, b \in 1..n : x = <<a, b>>
  OBVIOUS
<1> DEFINE j == w * (b - 1) + a
<1>1. b - 1 \in Nat /\ w * (b - 1) \in Nat /\ w * n \in Nat /\ w * n = n * w
  OBVIOUS
<1>2. w * (b - 1) + w <= w * n
  <2>1. b - 1 < n
    OBVIOUS
  <2> QED
    BY <1>1, <2>1, Times
<1>3. j \in 1..(n * w)
  BY <1>1, <1>2
<1>4. j = w * (Place(w, j)[2] - 1) + Place(w, j)[1] /\ Place(w, j)[1] \in 1..w /\ Place(w, j)[2] \in 1..n
  <2> HIDE DEF j
  <2> QED
    BY <1>3, PlaceFacts
<1>5. PICK c, d : c = Place(w, j)[1] /\ d = Place(w, j)[2]
  OBVIOUS
<1>6. /\ c - 1 \in 0..(w - 1) /\ a - 1 \in 0..(w - 1) /\ d - 1 \in Nat
      /\ w * (d - 1) + (c - 1) = w * (b - 1) + (a - 1)
  <2>1. c \in 1..w /\ d \in 1..n /\ w * (b - 1) + a = w * (d - 1) + c
    BY <1>4, <1>5
  <2>2. PICK y \in Nat, z \in Nat : y = w * (d - 1) /\ z = w * (b - 1)
    BY <1>1, <2>1
  <2>3. y + (c - 1) = z + (a - 1)
    BY <2>1, <2>2
  <2> QED
    BY <2>1, <2>2, <2>3
<1>7. c - 1 = a - 1 /\ d - 1 = b - 1
  BY <1>1, <1>6, DivisionIsUnique
<1>8. c \in 1..w /\ d \in 1..n
  BY <1>4, <1>5
<1>9. c = a /\ d = b
  BY <1>7, <1>8
<1> QED
  <2> HIDE DEF j
  <2>1. Place(w, j) = <<a, b>>
    BY <1>5, <1>9 DEF Place
  <2> QED
    BY <1>0, <1>3, <2>1

-----------------------------------------------------------------------------
(***************************************************************************)
(* A fan-out runs its template once for each element it covers.            *)
(***************************************************************************)

FanOut(k) == Stages[k].list # Nothing
Width(k) == Len(Stages[k].sites)
\* Call j of a fan-out, as its template has it.
Unfolded(k, x) == Folded(Stages[k].sites[x[1]], bindings[Stages[k].list].v[x[2]])

\* A call of a fan-out has one position, no guard and the operand of its element.
FanInv ==
  \A t \in DOMAIN attempts : FanOut(t[1]) =>
    /\ t = <<t[1], t[2], 0>> /\ t[2] \in DOMAIN Code(t[1])
    /\ Code(t[1])[t[2]].arg = Lit(attempts[t].value)

\* A fan-out is left when every call of it was attempted.
LeftInv ==
  \A k \in StageIds : FanOut(k) /\ Left(k) =>
    \A j \in DOMAIN Code(k) : <<k, j, 0>> \in DOMAIN attempts

LEMMA LitIsInjective ==
  ASSUME NEW a, NEW b, Lit(a) = Lit(b)
  PROVE  a = b
<1>1. Lit(a).v = a /\ Lit(b).v = b
  BY DEF Lit
<1> QED
  BY <1>1

LEMMA TemplateCall ==
  ASSUME NEW k \in StageIds, FanOut(k), NEW site \in Range(Stages[k].sites), NEW element
  PROVE  LET call == Folded(site, element) IN
         call.when = Nothing /\ call.loop = Nothing /\ call.arg = Lit(call.arg.v)
<1>1. site \in Templates
  BY DEF Templates
<1>2. DOMAIN site = {"tool", "arg", "sym", "when", "loop", "var"}
  BY <1>1, SiteAssumption
<1>3. site.when = Nothing /\ site.loop = Nothing /\ site.arg \in {Elem, Lit(site.arg.v)}
  BY TemplateAssumption DEF FanOut
<1> DEFINE call == Folded(site, element)
<1>4. /\ call.when = site.when /\ call.loop = site.loop
      /\ call.arg = IF site.arg = Elem THEN Lit(element) ELSE site.arg
  BY <1>2 DEF Folded
<1>5. \E x : call.arg = Lit(x)
  BY <1>3, <1>4
<1>6. \A x : Lit(x).v = x
  BY DEF Lit
<1> HIDE DEF call
<1>7. call.arg = Lit(call.arg.v)
  BY <1>5, <1>6
<1> QED
  BY <1>3, <1>4, <1>7 DEF call

LEMMA FanoutCode ==
  ASSUME TypeInv, NEW k \in StageIds, Let(k), FanOut(k)
  PROVE  /\ Width(k) \in Nat /\ DOMAIN Stages[k].sites = 1..Width(k)
         /\ Instances(k) \in Nat /\ Covered(k) = 1..Instances(k)
         /\ DOMAIN Code(k) = 1..(Instances(k) * Width(k))
         /\ \A j \in DOMAIN Code(k) : Code(k)[j] = Unfolded(k, Place(Width(k), j))
<1>1. Width(k) \in Nat /\ DOMAIN Stages[k].sites = 1..Width(k)
  BY SiteFacts DEF Width
<1>2. Instances(k) \in Nat
  BY ListFacts DEF FanOut
<1>3. Covered(k) = 1..Instances(k)
  <2> DEFINE list == bindings[Stages[k].list].v
  <2>1. list \in Seq(Values \cup {Opaque})
    <3>1. bindings[Stages[k].list] # Nothing /\ Stages[k].list \in Vars
      BY EntryReadsVars DEF Let, Ready, Bound, FanOut
    <3> QED
      BY <3>1, ResultAssumption DEF TypeInv, Answer, Let, Broken, FanOut
  <2>2. Len(list) \in Nat /\ DOMAIN list = 1..Len(list)
    BY <2>1, LenProperties
  <2>3. Stages[k].max \in Nat
    BY PlanAssumption DEF Valid, FanOut
  <2>4. /\ Instances(k) \in {Len(list), Stages[k].max}
        /\ Instances(k) <= Len(list) /\ Instances(k) <= Stages[k].max
    <3> HIDE DEF list
    <3>1. Instances(k) = Min({Len(list), Stages[k].max})
      BY DEF Instances, list
    <3> QED
      BY <2>2, <2>3, <3>1, MinIsLeast
  <2>5. Covered(k) = {n \in DOMAIN list : n <= Stages[k].max}
    BY DEF Covered
  <2> HIDE DEF list
  <2> QED
    BY <1>2, <2>2, <2>3, <2>4, <2>5
<1>4. Code(k) = [j \in 1..(Instances(k) * Width(k)) |-> Unfolded(k, Place(Width(k), j))]
  BY DEF Code, FanOut, Width, Unfolded, Place
<1>5. /\ DOMAIN Code(k) = 1..(Instances(k) * Width(k))
      /\ \A j \in DOMAIN Code(k) : Code(k)[j] = Unfolded(k, Place(Width(k), j))
  BY <1>4
<1> QED
  BY <1>1, <1>2, <1>3, <1>5

LEMMA FanoutCalls ==
  ASSUME TypeInv, NEW k \in StageIds, Let(k), FanOut(k), NEW j \in DOMAIN Code(k)
  PROVE  /\ Place(Width(k), j) \in (DOMAIN Stages[k].sites) \X Covered(k)
         /\ Code(k)[j].when = Nothing /\ Code(k)[j].loop = Nothing
         /\ Code(k)[j].arg = Lit(Code(k)[j].arg.v)
<1>1. j \in 1..(Instances(k) * Width(k)) /\ Code(k)[j] = Unfolded(k, Place(Width(k), j))
  BY FanoutCode
<1>2. PICK a, b : a = Place(Width(k), j)[1] /\ b = Place(Width(k), j)[2]
  OBVIOUS
<1>3. a \in DOMAIN Stages[k].sites /\ b \in Covered(k)
  BY <1>1, <1>2, FanoutCode, PlaceFacts
<1>4. Place(Width(k), j) = <<a, b>>
  BY <1>2 DEF Place
<1>5. Stages[k].sites[a] \in Range(Stages[k].sites)
  BY <1>3 DEF Range
<1>6. Code(k)[j] = Folded(Stages[k].sites[a], bindings[Stages[k].list].v[b])
  BY <1>1, <1>2 DEF Unfolded
<1> QED
  BY <1>3, <1>4, <1>5, <1>6, TemplateCall

LEMMA RanValue ==
  ASSUME NEW k, NEW j, NEW n, NEW v, Decides(k, j, n, v), NEW a,
         Code(k)[j].loop = Nothing, Code(k)[j].arg = Lit(a)
  PROVE  n = 0 /\ v = a
<1>1. n \in Positions(Code(k)[j]) /\ Operand(Code(k)[j], n) = v
  BY DEF Decides, Matches
<1>2. Code(k)[j].arg.op = "lit" /\ Code(k)[j].arg.v = a
  BY DEF Lit
<1> QED
  BY <1>1, <1>2 DEF Positions, Operand

LEMMA FanoutCallsThen ==
  (\A k \in StageIds : \A j \in DOMAIN Code(k) :
     TypeInv /\ Let(k) /\ FanOut(k) => Code(k)[j].when = Nothing /\ Code(k)[j].loop = Nothing)'
<1>1. \A k \in StageIds : \A j \in DOMAIN Code(k) :
        TypeInv /\ Let(k) /\ FanOut(k) => Code(k)[j].when = Nothing /\ Code(k)[j].loop = Nothing
  BY FanoutCalls
<1> QED
  BY <1>1, PTL

\* What was attempted stays as it was, in a stage whose code stays as well.
LEMMA FanStays ==
  ASSUME TypeInv, EntryInv, FanInv, BindingsStay, NEW t \in DOMAIN attempts, attempts'[t] = attempts[t],
         FanOut(t[1])
  PROVE  /\ t = <<t[1], t[2], 0>> /\ (t[2] \in DOMAIN Code(t[1]))'
         /\ (Code(t[1])[t[2]].arg = Lit(attempts[t].value))'
<1>1. t[1] \in StageIds /\ Let(t[1])
  BY StageFacts DEF TypeInv, EntryInv
<1>2. Code(t[1])' = Code(t[1])
  BY <1>1, CodeStays DEF Let
<1> QED
  BY <1>2 DEF FanInv

LEMMA EndsFan ==
  ASSUME TypeInv, EntryInv, FanInv, BindingsStay, NEW k \in StageIds, k = stage,
         NEW j \in DOMAIN Code(k), NEW n, NEW v, Ends(k, j, n, v)
  PROVE  FanInv'
<1>1. Decides(k, j, n, v) /\ \E o : Ran(k, j, n, v, o)
  BY DEF Ends, Return, Raise
<1>2. Let(k) /\ Code(k)' = Code(k)
  BY CodeStays, StageFacts DEF EntryInv, Let
<1>3. /\ DOMAIN attempts' = DOMAIN attempts \cup {<<k, j, n>>}
      /\ attempts'[<<k, j, n>>].value = v
      /\ \A t \in DOMAIN attempts : t # <<k, j, n>> => attempts'[t] = attempts[t]
  <2>1. PICK o : Ran(k, j, n, v, o)
    BY <1>1
  <2> QED
    BY <2>1, RanFacts
<1>4. FanOut(k) => n = 0 /\ Code(k)[j].arg = Lit(v)
  <2> SUFFICES ASSUME FanOut(k) PROVE n = 0 /\ Code(k)[j].arg = Lit(v)
    OBVIOUS
  <2>1. Code(k)[j].loop = Nothing /\ Code(k)[j].arg = Lit(Code(k)[j].arg.v)
    BY <1>2, FanoutCalls
  <2>2. PICK a : a = Code(k)[j].arg.v
    OBVIOUS
  <2>3. n = 0 /\ v = a
    BY <1>1, <2>1, <2>2, RanValue
  <2> QED
    BY <2>1, <2>2, <2>3
<1>5. ASSUME NEW t \in DOMAIN attempts', FanOut(t[1])
      PROVE  /\ t = <<t[1], t[2], 0>> /\ (t[2] \in DOMAIN Code(t[1]))'
             /\ (Code(t[1])[t[2]].arg = Lit(attempts[t].value))'
  <2>1. CASE t = <<k, j, n>>
    <3>1. t[1] = k /\ t[2] = j
      BY <2>1
    <3>2. n = 0 /\ Code(k)[j].arg = Lit(v)
      BY <1>4, <1>5, <3>1
    <3>3. attempts'[t].value = v
      BY <1>3, <2>1
    <3> QED
      BY <1>2, <2>1, <3>1, <3>2, <3>3
  <2>2. CASE t # <<k, j, n>>
    BY <1>3, <1>5, <2>2, FanStays
  <2> QED
    BY <2>1, <2>2
<1> QED
  BY <1>5 DEF FanInv, FanOut

LEMMA FanStep ==
  ASSUME TypeInv, EntryInv, FanInv, [Next]_vars
  PROVE  FanInv'
<1>1. stage \in StageIds /\ BindingsStay
  BY EntryStep, StageFacts DEF TypeInv
<1>2. CASE UNCHANGED <<policy, progress, store, attempts>>
  <2>1. ASSUME NEW t \in DOMAIN attempts', FanOut(t[1])
        PROVE  /\ t = <<t[1], t[2], 0>> /\ (t[2] \in DOMAIN Code(t[1]))'
               /\ (Code(t[1])[t[2]].arg = Lit(attempts[t].value))'
    BY <1>1, <1>2, <2>1, FanStays
  <2> QED
    BY <2>1 DEF FanInv, FanOut
<1> QED
  BY <1>1, <1>2, EndsFan, Steps

\* Where the advance takes the plan, every fan-out behind it has run.
LEMMA AdvanceLeaves ==
  ASSUME TypeInv', EntryInv', LeftInv, BindingsStay, EntryInv, NEW s \in StageIds, stage = s, ~ complete,
         DOMAIN attempts \subseteq DOMAIN attempts', AdvanceFrom(s)
  PROVE  LeftInv'
<1> SUFFICES ASSUME NEW k \in StageIds, FanOut(k), Left(k)', NEW j \in (DOMAIN Code(k))'
             PROVE  <<k, j, 0>> \in DOMAIN attempts'
  BY DEF LeftInv, FanOut
<1>1. CASE k < s
  <2>1. Left(k) /\ Let(k)
    BY <1>1, StageFacts DEF Left, EntryInv
  <2>2. Code(k)' = Code(k)
    BY <2>1, CodeStays DEF Let
  <2> QED
    BY <2>1, <2>2 DEF LeftInv
<1>2. CASE k = s
  <2>1. StageComplete(s)'
    BY <1>2, StageFacts DEF AdvanceFrom, Left
  <2>2. Let(k)'
    BY StageFacts DEF EntryInv, Left, TypeInv
  <2>3. (Code(k)[j].when = Nothing /\ Code(k)[j].loop = Nothing)'
    BY <2>2, FanoutCallsThen DEF FanOut
  <2> QED
    BY <1>2, <2>1, <2>3 DEF StageComplete, SiteComplete, Skipped, Positions, Spent
<1>3. CASE k > s
  <2>1. StageComplete(s)'
    BY <1>3, StageFacts DEF AdvanceFrom, Left
  <2>2. PICK l \in 1..(Len(Stages) + 1) : l = Landing(s)' /\ EnterOrEnd(l)
    BY <2>1 DEF AdvanceFrom
  <2>3. l \in (s + 1)..(Len(Stages) + 1) /\ \A i \in (s + 1)..(l - 1) : i \in StageIds /\ NoRules(i)'
    BY <2>2, LandsThen DEF Lands
  <2>4. stage' = l - 1 \/ (stage' = l /\ ~ complete')
    BY <2>2 DEF EnterOrEnd
  <2>5. k \in (s + 1)..(l - 1)
    BY <1>3, <2>3, <2>4, StageFacts DEF Left
  <2>6. (Code(k) = <<>>)'
    BY <2>3, <2>5 DEF NoRules
  <2> QED
    BY <2>6
<1> QED
  BY <1>1, <1>2, <1>3, StageFacts

LEMMA LeftStays ==
  ASSUME EntryInv, LeftInv, BindingsStay, stage \in StageIds, UNCHANGED <<stage, complete>>,
         DOMAIN attempts \subseteq DOMAIN attempts'
  PROVE  LeftInv'
<1> SUFFICES ASSUME NEW k \in StageIds, FanOut(k), Left(k)', NEW j \in (DOMAIN Code(k))'
             PROVE  <<k, j, 0>> \in DOMAIN attempts'
  BY DEF LeftInv, FanOut
<1>1. Left(k) /\ Let(k)
  BY StageFacts DEF Left, EntryInv
<1>2. Code(k)' = Code(k)
  BY <1>1, CodeStays DEF Let
<1> QED
  BY <1>1, <1>2 DEF LeftInv

LEMMA LeftStep ==
  ASSUME TypeInv, EntryInv, LeftInv, [Next]_vars
  PROVE  LeftInv'
<1>1. stage \in StageIds /\ TypeInv' /\ EntryInv' /\ BindingsStay
  BY EntryStep, StageFacts DEF TypeInv
<1>2. ASSUME NEW j \in DOMAIN Code(stage), NEW n, NEW v, NEW r, Return(stage, j, n, v, r)
      PROVE  LeftInv'
  <2>1. DOMAIN attempts \subseteq DOMAIN attempts'
    BY <1>2, RanFacts DEF Return
  <2> QED
    BY <1>1, <1>2, <2>1, AdvanceLeaves DEF Return
<1>3. ASSUME NEW j \in DOMAIN Code(stage), NEW n, NEW v, Raise(stage, j, n, v)
      PROVE  LeftInv'
  <2>1. DOMAIN attempts \subseteq DOMAIN attempts'
    BY <1>3, RanFacts DEF Raise
  <2> QED
    BY <1>1, <1>3, <2>1, LeftStays DEF Raise, progress
<1>4. CASE UNCHANGED <<policy, progress, store, attempts>>
  BY <1>1, <1>4, LeftStays DEF progress
<1> QED
  BY <1>2, <1>3, <1>4, Steps DEF Ends

LEMMA FanInit ==
  Init => FanInv /\ LeftInv
<1> SUFFICES ASSUME Init PROVE FanInv /\ LeftInv
  OBVIOUS
<1>1. DOMAIN attempts = {} /\ stage = 1 /\ complete = FALSE
  BY DEF Init
<1>2. \A k \in StageIds : ~ Left(k)
  BY <1>1, StageFacts DEF Left
<1> QED
  BY <1>1, <1>2 DEF FanInv, LeftInv

\* The calls a fan-out made with operand v, each at the place of its template
\* it is due at.
LEMMA FanoutCounts ==
  ASSUME TypeInv, EntryInv, FanInv, LeftInv, NEW k \in StageIds, FanOut(k), Attempted(k) # {}, NEW v
  PROVE  /\ Dispatches(k, v) <= Expected(k, v)
         /\ Left(k) => Dispatches(k, v) = Expected(k, v)
<1> DEFINE Made == {t \in Attempted(k) : attempts[t].value = v}
           Due  == {x \in (DOMAIN Stages[k].sites) \X Covered(k) :
                      Folded(Stages[k].sites[x[1]], bindings[Stages[k].list].v[x[2]]).arg = Lit(v)}
           at   == [t \in Made |-> Place(Width(k), t[2])]
<1>1. Let(k)
  BY StageFacts DEF TypeInv, EntryInv, Attempted
<1>2. /\ Width(k) \in Nat /\ DOMAIN Stages[k].sites = 1..Width(k)
      /\ Instances(k) \in Nat /\ Covered(k) = 1..Instances(k)
      /\ DOMAIN Code(k) = 1..(Instances(k) * Width(k))
      /\ \A j \in DOMAIN Code(k) : Code(k)[j] = Unfolded(k, Place(Width(k), j))
  BY <1>1, FanoutCode
<1>3. \A t \in Made : /\ t \in DOMAIN attempts /\ t = <<k, t[2], 0>> /\ t[2] \in DOMAIN Code(k)
                      /\ Code(k)[t[2]].arg = Lit(v)
  BY DEF FanInv, Attempted
<1>4. IsFiniteSet(Due)
  <2>1. IsFiniteSet(DOMAIN Stages[k].sites) /\ IsFiniteSet(Covered(k))
    BY <1>2, FS_Interval
  <2>2. IsFiniteSet((DOMAIN Stages[k].sites) \X Covered(k))
    BY <2>1, FS_Product
  <2> QED
    BY <2>2, FS_Subset
<1>5. at \in [Made -> Due]
  <2> SUFFICES ASSUME NEW t \in Made PROVE Place(Width(k), t[2]) \in Due
    OBVIOUS
  <2>1. PICK x : x = Place(Width(k), t[2])
    OBVIOUS
  <2>2. x \in (DOMAIN Stages[k].sites) \X Covered(k)
    BY <1>1, <1>3, <2>1, FanoutCalls
  <2>3. Unfolded(k, x).arg = Lit(v)
    BY <1>2, <1>3, <2>1
  <2> QED
    BY <2>1, <2>2, <2>3 DEF Unfolded
<1>6. at \in Injection(Made, Due)
  <2> SUFFICES ASSUME NEW t \in Made, NEW r \in Made, at[t] = at[r] PROVE t = r
    BY <1>5, Zenon DEF Injection, IsInjective
  <2>1. PICK i, j : i = t[2] /\ j = r[2]
    OBVIOUS
  <2>2. i \in 1..(Instances(k) * Width(k)) /\ j \in 1..(Instances(k) * Width(k))
    BY <1>2, <1>3, <2>1
  <2>3. Place(Width(k), i) = Place(Width(k), j)
    BY <2>1
  <2>4. PICK x : x = Place(Width(k), i)
    OBVIOUS
  <2>5. i = Width(k) * (x[2] - 1) + x[1] /\ j = Width(k) * (x[2] - 1) + x[1]
    BY <1>2, <2>2, <2>3, <2>4, PlaceFacts
  <2> QED
    BY <1>3, <2>1, <2>5
<1>7. Left(k) => at \in Surjection(Made, Due)
  <2> SUFFICES ASSUME Left(k), NEW x \in Due PROVE \E t \in Made : at[t] = x
    BY <1>5, Zenon DEF Surjection
  <2>1. x \in (1..Width(k)) \X (1..Instances(k))
    <3>1. x \in (DOMAIN Stages[k].sites) \X Covered(k)
      OBVIOUS
    <3> QED
      BY <1>2, <3>1
  <2>2. PICK j \in 1..(Instances(k) * Width(k)) : Place(Width(k), j) = x
    BY <1>2, <2>1, EveryPlace
  <2>3. Code(k)[j].arg = Lit(v)
    BY <1>2, <2>2 DEF Unfolded
  <2>4. PICK t : t = <<k, j, 0>>
    OBVIOUS
  <2>5. t \in DOMAIN attempts /\ t[1] = k /\ t[2] = j
    BY <1>2, <2>2, <2>4 DEF LeftInv
  <2>6. attempts[t].value = v
    <3>1. Code(k)[j].arg = Lit(attempts[t].value)
      BY <2>5 DEF FanInv
    <3> QED
      BY <2>3, <3>1, LitIsInjective
  <2>7. t \in Made
    BY <2>5, <2>6 DEF Attempted
  <2> QED
    BY <2>2, <2>5, <2>7
<1> HIDE DEF Made, Due, at
<1>8. /\ Cardinality(Made) <= Cardinality(Due)
      /\ Cardinality(Made) = Cardinality(Due) <=> at \in Surjection(Made, Due)
  BY <1>4, <1>6, FS_Injection
<1>9. Dispatches(k, v) = Cardinality(Made) /\ Expected(k, v) = Cardinality(Due)
  BY DEF Made, Due, Dispatches, Expected
<1> QED
  BY <1>7, <1>8, <1>9

\* A fan-out calls its template once for each of the first max_instances elements
\* of the list the gateway observed, with no other operand and no second time, and
\* it is left only after all of them had their turn (instantiate_fanout and
\* _composite_advance).
THEOREM FanoutsAreExact == Spec => []FanoutIsExact
<1>1. TypeInv /\ EntryInv /\ FanInv /\ LeftInv /\ [Next]_vars => (FanInv /\ LeftInv)'
  BY FanStep, LeftStep
<1>2. TypeInv /\ EntryInv /\ FanInv /\ LeftInv => FanoutIsExact
  BY FanoutCounts DEF FanoutIsExact, FanOut
<1> QED
  BY <1>1, <1>2, FanInit, EntryInvariant, PTL DEF Spec
=============================================================================

--------------------------- MODULE DeferredRun_proofs ---------------------------
(***************************************************************************)
(* Proofs about the executors that run a program themselves, for every     *)
(* program, whatever the tools return and whenever they raise: what is     *)
(* made was observed, approved and granted, as often as that and no more.  *)
(*                                                                         *)
(* The properties count, so that the proofs are about sets of indices: of  *)
(* the calls that were made, the actions put aside and the grants.  Every  *)
(* step adds at most one index to such a set, the next one of a sequence.  *)
(***************************************************************************)
EXTENDS DeferredRun, TLAPS, WellFoundedInduction, SequenceTheorems, FiniteSetTheorems

-----------------------------------------------------------------------------
(***************************************************************************)
(* Sequences and the indices of what is in them.                           *)
(***************************************************************************)

IsSeq(s) == s \in Seq(ToSet(s))

LEMMA SeqFacts ==
  ASSUME NEW s, IsSeq(s)
  PROVE  Len(s) \in Nat /\ DOMAIN s = 1..Len(s)
  BY LenProperties DEF IsSeq

LEMMA FunctionIsSeq ==
  ASSUME NEW L \in Nat, NEW f, DOMAIN f = 1..L, f = [n \in 1..L |-> f[n]]
  PROVE  IsSeq(f) /\ Len(f) = L
<1>1. \A n \in 1..L : f[n] \in ToSet(f)
  BY DEF ToSet
<1>2. f \in Seq(ToSet(f))
  BY <1>1
<1> QED
  BY <1>2, LenProperties DEF IsSeq

LEMMA AppendFacts ==
  ASSUME NEW s, IsSeq(s), NEW e
  PROVE  /\ IsSeq(Append(s, e))
         /\ Len(s) \in Nat /\ DOMAIN s = 1..Len(s)
         /\ DOMAIN Append(s, e) = 1..(Len(s) + 1)
         /\ \A n \in 1..Len(s) : Append(s, e)[n] = s[n]
         /\ Append(s, e)[Len(s) + 1] = e
<1> DEFINE T == ToSet(s) \cup {e}
           a == Append(s, e)
<1>1. s \in Seq(T)
  BY SeqMonotonic, Zenon DEF IsSeq
<1>2. /\ Len(s) \in Nat /\ DOMAIN s = 1..Len(s)
      /\ a \in Seq(T) /\ Len(a) = Len(s) + 1
      /\ \A n \in 1..Len(s) : a[n] = s[n]
      /\ a[Len(s) + 1] = e
  BY <1>1, AppendProperties, LenProperties
<1>3. Len(a) \in Nat /\ DOMAIN a = 1..(Len(s) + 1) /\ a = [n \in 1..Len(a) |-> a[n]]
  BY <1>2, LenProperties
<1>4. IsSeq(a)
  <2> HIDE DEF a
  <2> QED
    BY <1>2, <1>3, FunctionIsSeq
<1> QED
  BY <1>2, <1>3, <1>4

\* A set of indices that gains the next one, or does not.
LEMMA NextIndex ==
  ASSUME NEW n \in Nat, NEW A \in SUBSET (1..n)
  PROVE  /\ IsFiniteSet(A) /\ Cardinality(A) \in Nat
         /\ IsFiniteSet(A \cup {n + 1})
         /\ Cardinality(A \cup {n + 1}) = Cardinality(A) + 1
<1>1. IsFiniteSet(1..n)
  BY FS_Interval
<1>2. IsFiniteSet(A)
  BY <1>1, FS_Subset
<1>3. n + 1 \notin A
  OBVIOUS
<1> QED
  BY <1>2, <1>3, FS_AddElement, FS_CardinalityType

LEMMA LessThan == OpToRel(<, Nat) = {p \in Nat \X Nat : p[1] < p[2]}
  BY DEF OpToRel

LEMMA MinIsLeast ==
  ASSUME NEW S \in SUBSET Nat, S # {}
  PROVE  Min(S) \in S /\ \A x \in S : Min(S) <= x
<1>1. PICK m \in S : \A y \in S : <<y, m>> \notin OpToRel(<, Nat)
  BY WFMin, NatLessThanWellFounded
<1>2. \A y \in S : m <= y
  <2> SUFFICES ASSUME NEW y \in S, y < m PROVE FALSE
    OBVIOUS
  <2>1. <<y, m>> \in {p \in Nat \X Nat : p[1] < p[2]}
    OBVIOUS
  <2> QED
    BY <1>1, <2>1, LessThan, Zenon
<1> QED
  BY <1>2 DEF Min

LEMMA SiteFacts ==
  Site \subseteq Nat /\ None \notin Site
<1>1. IsSeq(Program)
  BY SiteAssumption DEF IsSeq
<1> QED
  BY <1>1, SeqFacts, SiteAssumption DEF Site

\* The site a call is decided by is one that authorizes it and is not spent.
LEMMA SiteIsAvailable ==
  ASSUME NEW c
  PROVE  /\ Available(c) # {} =>
              /\ Min(Available(c)) \in Site /\ Matches(c, Min(Available(c)))
              /\ attempts[Min(Available(c))] = "none"
         /\ Authorizing(c) # {} =>
              Min(Authorizing(c)) \in Site /\ Matches(c, Min(Authorizing(c)))
<1>1. Available(c) \in SUBSET Nat /\ Authorizing(c) \in SUBSET Nat
  BY SiteFacts DEF Available, Authorizing
<1> QED
  BY <1>1, MinIsLeast DEF Available, Authorizing

-----------------------------------------------------------------------------
(***************************************************************************)
(* The phases of a mode, and the sequences.                                *)
(***************************************************************************)

PhaseInv ==
  /\ mode \in {"direct", "batched", "human", "stream"}
  /\ \/ mode = "direct" /\ phase \in {"run", "ended"}
     \/ mode = "batched" /\ phase \in {"run", "barrier", "commit", "ended"}
     \/ mode = "human" /\ phase \in {"run", "propose", "redeem", "ended"}
     \/ mode = "stream" /\ phase = "stream"

SeqInv ==
  /\ IsSeq(dispatched) /\ IsSeq(deferred) /\ IsSeq(live) /\ IsSeq(minted)
  /\ next \in 0..Len(deferred)
  /\ phase = "run" => next = 0
  /\ DOMAIN attempts = Site

\* What a call that is made adds to the sets that are counted.
LEMMA RanFacts ==
  ASSUME IsSeq(dispatched), NEW c, NEW how, NEW i, Ran(c, how, i)
  PROVE  /\ IsSeq(dispatched)' /\ Len(dispatched) \in Nat
         /\ \A d : /\ CallsOf(d) \in SUBSET (1..Len(dispatched))
                   /\ CallsOf(d)' =
                        IF c = d THEN CallsOf(d) \cup {Len(dispatched) + 1} ELSE CallsOf(d)
         /\ \A s : /\ RunsOf(s) \in SUBSET (1..Len(dispatched))
                   /\ RunsOf(s)' =
                        IF i = s THEN RunsOf(s) \cup {Len(dispatched) + 1} ELSE RunsOf(s)
         /\ \A b : /\ CallsGranted(b) \in SUBSET (1..Len(dispatched))
                   /\ CallsGranted(b)' =
                        IF how = "granted" /\ Bound(c) = b
                          THEN CallsGranted(b) \cup {Len(dispatched) + 1} ELSE CallsGranted(b)
         /\ DOMAIN dispatched' = DOMAIN dispatched \cup {Len(dispatched) + 1}
         /\ \A n \in DOMAIN dispatched : dispatched'[n] = dispatched[n]
         /\ dispatched'[Len(dispatched) + 1].site = i
         /\ dispatched'[Len(dispatched) + 1].current <=> (i # None /\ Matches(c, i))
<1> DEFINE e == [call |-> c, how |-> how, site |-> i, current |-> i # None /\ Matches(c, i)]
           L == Len(dispatched)
<1>1. /\ e.call = c /\ e.how = how /\ e.site = i
      /\ e.current <=> (i # None /\ Matches(c, i))
  OBVIOUS
<1>2. dispatched' = Append(dispatched, e)
  BY DEF Ran
<1> HIDE DEF e
<1>3. /\ IsSeq(dispatched)' /\ L \in Nat /\ DOMAIN dispatched = 1..L
      /\ DOMAIN dispatched' = 1..(L + 1)
      /\ \A n \in 1..L : dispatched'[n] = dispatched[n]
      /\ dispatched'[L + 1] = e
  BY <1>2, AppendFacts DEF IsSeq
<1> HIDE DEF L
<1>4. 1..(L + 1) = 1..L \cup {L + 1} /\ L + 1 \notin 1..L
  BY <1>3
<1>5. \A d : /\ CallsOf(d) \in SUBSET (1..L)
             /\ CallsOf(d)' = IF c = d THEN CallsOf(d) \cup {L + 1} ELSE CallsOf(d)
  BY <1>1, <1>3, <1>4 DEF CallsOf
<1>6. \A s : /\ RunsOf(s) \in SUBSET (1..L)
             /\ RunsOf(s)' = IF i = s THEN RunsOf(s) \cup {L + 1} ELSE RunsOf(s)
  BY <1>1, <1>3, <1>4 DEF RunsOf
<1>7. \A b : /\ CallsGranted(b) \in SUBSET (1..L)
             /\ CallsGranted(b)' = IF how = "granted" /\ Bound(c) = b
                                     THEN CallsGranted(b) \cup {L + 1} ELSE CallsGranted(b)
  BY <1>1, <1>3, <1>4 DEF CallsGranted
<1> QED
  BY <1>1, <1>3, <1>4, <1>5, <1>6, <1>7 DEF L

\* What is left of a sequence without the first of its elements that is e.
LEMMA RemoveFacts ==
  ASSUME NEW s, IsSeq(s), NEW e, e \in ToSet(s)
  PROVE  \E k \in 1..Len(s) :
           LET r == RemoveFirst(s, e) IN
           /\ s[k] = e
           /\ IsSeq(r) /\ Len(s) \in Nat /\ DOMAIN s = 1..Len(s) /\ DOMAIN r = 1..(Len(s) - 1)
           /\ \A n \in 1..(Len(s) - 1) : r[n] = IF n < k THEN s[n] ELSE s[n + 1]
<1> DEFINE L == Len(s)
           I == {i \in 1..L : s[i] = e}
<1>1. L \in Nat /\ DOMAIN s = 1..L
  BY SeqFacts
<1>2. I \in SUBSET Nat /\ I # {} /\ \E i \in 1..L : s[i] = e
  BY <1>1 DEF ToSet
<1>3. PICK k : k = Min(I)
  OBVIOUS
<1>4. k \in 1..L /\ s[k] = e
  <2>1. Min(I) \in I
    <3> HIDE DEF I
    <3> QED
      BY <1>2, MinIsLeast
  <2> QED
    BY <1>3, <2>1
<1>5. RemoveFirst(s, e) = SubSeq(s, 1, k - 1) \o SubSeq(s, k + 1, L)
  <2>1. SelectInSeq(s, LAMBDA v : v = e) = k
    BY <1>2, <1>3 DEF SelectInSeq
  <2> QED
    BY <1>2, <2>1 DEF RemoveFirst, RemoveAt
<1> DEFINE a == SubSeq(s, 1, k - 1)
           b == SubSeq(s, k + 1, L)
           r == a \o b
           T == ToSet(s)
<1>6. /\ a \in Seq(T) /\ Len(a) = k - 1
      /\ \A n \in 1..(k - 1) : a[n] = s[n]
  <2>1. \A n \in 1..(k - 1) : s[n] \in T
    BY <1>1, <1>4 DEF ToSet
  <2> QED
    BY <1>4, <2>1, SubSeqProperties
<1>7. /\ b \in Seq(T) /\ Len(b) = L - k
      /\ \A n \in 1..(L - k) : b[n] = s[n + k]
  <2>1. \A n \in (k + 1)..L : s[n] \in T
    BY <1>1, <1>4 DEF ToSet
  <2>2. k + 1 \in Int /\ L \in Int
    BY <1>1, <1>4
  <2> HIDE DEF T
  <2>3. /\ b \in Seq(T) /\ Len(b) = (IF k + 1 <= L THEN L - (k + 1) + 1 ELSE 0)
        /\ \A n \in 1..(L - (k + 1) + 1) : b[n] = s[(k + 1) + n - 1]
    BY <2>1, <2>2, SubSeqProperties
  <2>4. ASSUME NEW n \in 1..(L - k) PROVE n \in 1..(L - (k + 1) + 1) /\ (k + 1) + n - 1 = n + k
    <3> HIDE DEF L
    <3> QED
      BY <2>2, <1>4
  <2>5. L - k = (IF k + 1 <= L THEN L - (k + 1) + 1 ELSE 0)
    <3> HIDE DEF L
    <3>1. k <= L
      BY <1>4
    <3>2. CASE k + 1 <= L
      BY <2>2, <1>4, <3>2
    <3>3. CASE ~ (k + 1 <= L)
      BY <2>2, <1>4, <3>1, <3>3
    <3> QED
      BY <3>2, <3>3
  <2> HIDE DEF b
  <2>6. \A n \in 1..(L - k) : b[n] = s[n + k]
    BY <2>3, <2>4
  <2> QED
    BY <2>3, <2>5, <2>6
<1>8. /\ r \in Seq(T) /\ Len(r) = L - 1
      /\ \A n \in 1..(L - 1) : r[n] = IF n < k THEN s[n] ELSE s[n + 1]
  <2> HIDE DEF a, b, T, L
  <2>1. /\ r \in Seq(T) /\ Len(r) = Len(a) + Len(b)
        /\ \A n \in 1..(Len(a) + Len(b)) : r[n] = IF n <= Len(a) THEN a[n] ELSE b[n - Len(a)]
    BY <1>6, <1>7, ConcatProperties
  <2>2. Len(a) + Len(b) = L - 1
    BY <1>1, <1>4, <1>6, <1>7
  <2>3. ASSUME NEW n \in 1..(L - 1) PROVE r[n] = IF n < k THEN s[n] ELSE s[n + 1]
    <3>1. r[n] = IF n <= Len(a) THEN a[n] ELSE b[n - Len(a)]
      BY <2>1, <2>2
    <3>2. CASE n < k
      <4>1. n \in 1..(k - 1) /\ n <= Len(a)
        BY <1>1, <1>4, <1>6, <3>2
      <4> QED
        BY <1>6, <3>1, <3>2, <4>1
    <3>3. CASE ~ (n < k)
      <4>1. ~ (n <= Len(a)) /\ n - Len(a) \in 1..(L - k) /\ (n - Len(a)) + k = n + 1
        BY <1>1, <1>4, <1>6, <3>3
      <4> QED
        BY <1>7, <3>1, <3>3, <4>1
    <3> QED
      BY <3>2, <3>3
  <2> QED
    BY <2>1, <2>2, <2>3
<1>9. IsSeq(r) /\ DOMAIN r = 1..(L - 1)
  <2> HIDE DEF r, T, L
  <2>1. L - 1 \in Nat /\ DOMAIN r = 1..(L - 1) /\ r = [n \in 1..(L - 1) |-> r[n]]
    BY <1>1, <1>4, <1>8, LenProperties
  <2> QED
    BY <2>1, FunctionIsSeq
<1> HIDE DEF r
<1> QED
  BY <1>1, <1>4, <1>5, <1>8, <1>9 DEF r

\* Where v is in s.
Where(s, v) == {n \in DOMAIN s : s[n] = v}

\* The indices behind the removed one move up by one: none is lost but its own.
LEMMA RemoveCounts ==
  ASSUME NEW s, IsSeq(s), NEW e, e \in ToSet(s), NEW v
  PROVE  /\ Cardinality(Where(s, v)) \in Nat
         /\ Cardinality(Where(RemoveFirst(s, e), v)) =
              IF e = v THEN Cardinality(Where(s, v)) - 1 ELSE Cardinality(Where(s, v))
<1> DEFINE r == RemoveFirst(s, e)
           L == Len(s)
           before == Where(s, v)
           after == Where(r, v)
<1>1. PICK k \in 1..L :
        /\ s[k] = e
        /\ IsSeq(r) /\ L \in Nat /\ DOMAIN s = 1..L /\ DOMAIN r = 1..(L - 1)
        /\ \A n \in 1..(L - 1) : r[n] = IF n < k THEN s[n] ELSE s[n + 1]
  BY RemoveFacts
<1> HIDE DEF r, L
<1> USE DEF Where
<1> DEFINE f == [n \in after |-> IF n < k THEN n ELSE n + 1]
<1>2. f \in Bijection(after, before \ {k})
  <2>1. ASSUME NEW n \in after PROVE f[n] \in before \ {k}
    BY <1>1
  <2>2. \A m, n \in after : f[m] = f[n] => m = n
    BY <1>1
  <2>3. ASSUME NEW m \in before \ {k} PROVE \E n \in after : f[n] = m
    <3>1. CASE m < k
      <4>1. m \in after
        BY <1>1, <3>1
      <4> QED
        BY <3>1, <4>1
    <3>2. CASE ~ (m < k)
      <4>1. m - 1 \in after /\ ~ (m - 1 < k) /\ (m - 1) + 1 = m
        BY <1>1, <3>2
      <4> QED
        BY <4>1
    <3> QED
      BY <3>1, <3>2
  <2>4. f \in [after -> before \ {k}]
    BY <2>1
  <2> HIDE DEF f, before, after
  <2> QED
    BY <2>2, <2>3, <2>4 DEF Bijection, Injection, Surjection, IsInjective
<1>3. IsFiniteSet(before) /\ IsFiniteSet(after) /\ before \in SUBSET (1..L) /\ (k \in before <=> v = e)
  <2>1. before \in SUBSET (1..L) /\ after \in SUBSET (1..L)
    BY <1>1
  <2>2. IsFiniteSet(1..L)
    BY <1>1, FS_Interval
  <2>3. IsFiniteSet(before) /\ IsFiniteSet(after)
    BY <2>1, <2>2, FS_Subset
  <2> QED
    BY <1>1, <2>1, <2>3
<1> HIDE DEF Where, f, before, after
<1>4. Cardinality(after) = Cardinality(before \ {k})
  BY <1>2, <1>3, FS_Bijection DEF ExistsBijection
<1>5. Cardinality(before) \in Nat
  BY <1>3, FS_CardinalityType
<1>6. Cardinality(before \ {k}) = IF k \in before THEN Cardinality(before) - 1 ELSE Cardinality(before)
  BY <1>3, FS_RemoveElement
<1> QED
  BY <1>3, <1>4, <1>5, <1>6 DEF before, after, r

-----------------------------------------------------------------------------
(***************************************************************************)
(* The steps.                                                              *)
(***************************************************************************)

\* A call that is made under the plan, at a site that was not spent, ...
Planned(c, how, i) ==
  /\ i \in Site /\ Matches(c, i) /\ attempts[i] = "none"
  /\ how \in {"inline", "commit"}
  /\ \E outcome \in Outcomes : \E result : Execute(c, how, i, outcome, result)

\* ... or besides it: by a grant, as a read or by the stream.
Beside(c, how, i) ==
  /\ Ran(c, how, i) /\ UNCHANGED attempts
  /\ i = None \/ (mode = "stream" /\ i \in Site /\ Matches(c, i))

LEMMA Steps ==
  ASSUME PhaseInv, [Next]_vars
  PROVE  /\ UNCHANGED mode
         /\ \/ UNCHANGED <<attempts, dispatched>>
            \/ \E c, how, i : Planned(c, how, i)
            \/ \E c, how, i : Beside(c, how, i)
<1>1. CASE CallExecuted
  <2>1. PICK outcome \in Outcomes : \E result :
          Execute(NextCall, "inline", Min(Available(NextCall)), outcome, result)
    BY <1>1 DEF CallExecuted
  <2>2. Planned(NextCall, "inline", Min(Available(NextCall)))
    BY <1>1, <2>1, SiteIsAvailable DEF CallExecuted, Planned
  <2> QED
    BY <1>1, <2>2 DEF CallExecuted
<1>2. CASE Commit
  <2> DEFINE c == deferred[next + 1].call
  <2>1. \/ UNCHANGED <<attempts, dispatched>>
        \/ Planned(c, "commit", Min(Available(c)))
    BY <1>2, SiteIsAvailable DEF Commit, Committable, Planned, enforcer
  <2> QED
    BY <1>2, <2>1 DEF Commit, program
<1>3. CASE Redeem
  <2>1. UNCHANGED dispatched \/ \E c : Ran(c, "granted", None)
    BY <1>3 DEF Redeem
  <2> QED
    BY <1>3, <2>1 DEF Redeem, Beside, program, enforcer
<1>4. CASE Stream
  <2>1. PICK c \in Extra : StreamRead(c) \/ StreamPlanned(c) \/ StreamAsked(c)
    BY <1>4 DEF Stream
  <2>2. mode = "stream" /\ UNCHANGED <<mode, attempts>>
    BY <1>4 DEF Stream, PhaseInv, program, enforcer
  <2>3. \/ UNCHANGED dispatched
        \/ Beside(c, "read", None) \/ Beside(c, "granted", None)
        \/ Beside(c, "stream", Min(Authorizing(c)))
    BY <2>1, <2>2, SiteIsAvailable DEF StreamRead, StreamPlanned, StreamAsked, Beside
  <2> QED
    BY <2>2, <2>3
<1>5. CASE CallDenied \/ CallDeferred \/ Confirm \/ Handover \/ Committed
           \/ Propose \/ Proposed \/ Redeemed \/ UNCHANGED vars
  BY <1>5 DEF CallDenied, CallDeferred, Confirm, Handover, Committed, Propose, Proposed, Redeemed,
              vars, program, enforcer
<1> QED
  BY <1>1, <1>2, <1>3, <1>4, <1>5 DEF Next

LEMMA PhaseInit == Init => PhaseInv
  BY ModeAssumption DEF Init, PhaseInv

LEMMA PhaseStep ==
  ASSUME PhaseInv, [Next]_vars
  PROVE  PhaseInv'
<1>1. UNCHANGED mode
  BY Steps
<1>2. CASE UNCHANGED phase
  BY <1>1, <1>2 DEF PhaseInv
<1>3. CASE phase = "run" /\ Ended
  BY <1>1, <1>3 DEF PhaseInv, Ended
<1>4. CASE Handover \/ Committed \/ Proposed \/ Redeemed
  BY <1>1, <1>4 DEF PhaseInv, Handover, Committed, Proposed, Redeemed
<1>5. CASE Commit
  <2>1. phase = "commit" /\ phase' \in {"commit", "ended"}
    BY <1>5 DEF Commit
  <2> QED
    BY <1>1, <2>1 DEF PhaseInv
<1>6. CASE CallDenied \/ CallDeferred \/ CallExecuted
  BY <1>2, <1>3, <1>6 DEF CallDenied, CallDeferred, CallExecuted, Returns
<1>7. CASE Confirm \/ Propose \/ Redeem \/ Stream \/ UNCHANGED vars
  BY <1>2, <1>7 DEF Confirm, Propose, Redeem, Stream, vars
<1> QED
  BY <1>4, <1>5, <1>6, <1>7 DEF Next

LEMMA SeqInit == Init => SeqInv
<1> SUFFICES ASSUME Init PROVE SeqInv
  OBVIOUS
<1>1. /\ dispatched = <<>> /\ deferred = <<>> /\ live = <<>> /\ minted = <<>>
      /\ next = 0 /\ DOMAIN attempts = Site
  BY DEF Init
<1>2. IsSeq(<<>>) /\ Len(<<>>) = 0
  BY EmptySeq DEF IsSeq
<1> QED
  BY <1>1, <1>2 DEF SeqInv

\* An answer replaces one action by another.
LEMMA ConfirmFacts ==
  ASSUME IsSeq(deferred), NEW k \in 1..Len(deferred), NEW answer,
         deferred' = [deferred EXCEPT ![k].approved = answer]
  PROVE  IsSeq(deferred)' /\ Len(deferred') = Len(deferred)
<1> DEFINE L == Len(deferred)
           e == [deferred[k] EXCEPT !.approved = answer]
<1>1. L \in Nat /\ DOMAIN deferred = 1..L
  BY SeqFacts
<1>2. deferred' = [deferred EXCEPT ![k] = e]
  BY <1>1
<1> HIDE DEF e, L
<1>3. deferred' = [n \in 1..L |-> IF n = k THEN e ELSE deferred[n]]
  BY <1>1, <1>2
<1>4. DOMAIN deferred' = 1..L /\ deferred' = [n \in 1..L |-> deferred'[n]]
  BY <1>3
<1> QED
  BY <1>1, <1>4, FunctionIsSeq DEF L, IsSeq

\* What the grants of a step are.
GrantStep ==
  \/ UNCHANGED grants
  \/ \E c : Mint(c)
  \/ \E g \in ToSet(live) : live' = Spent(g) /\ UNCHANGED minted
  \/ \E g : minted' = Append(minted, g) /\ UNCHANGED live

LEMMA GrantSteps ==
  ASSUME [Next]_vars
  PROVE  GrantStep
<1>1. CASE Propose
  BY <1>1 DEF Propose, GrantStep
<1>2. CASE Redeem
  BY <1>2 DEF Redeem, GrantStep, grants
<1>3. CASE Stream
  BY <1>3 DEF Stream, StreamRead, StreamPlanned, StreamAsked, GrantStep, grants
<1>4. CASE UNCHANGED grants
  BY <1>4 DEF GrantStep
<1> QED
  BY <1>1, <1>2, <1>3, <1>4 DEF Next, CallDenied, CallDeferred, CallExecuted, Confirm, Handover,
     Commit, Committed, Proposed, Redeemed, vars

LEMMA SeqStep ==
  ASSUME PhaseInv, SeqInv, [Next]_vars
  PROVE  SeqInv'
<1>1. IsSeq(dispatched)' /\ DOMAIN attempts' = Site
  <2>1. CASE UNCHANGED <<attempts, dispatched>>
    BY <2>1 DEF SeqInv
  <2>2. ASSUME NEW c, NEW how, NEW i, Planned(c, how, i)
        PROVE  IsSeq(dispatched)' /\ DOMAIN attempts' = Site
    BY <2>2, RanFacts DEF Planned, Execute, SeqInv
  <2>3. ASSUME NEW c, NEW how, NEW i, Beside(c, how, i)
        PROVE  IsSeq(dispatched)' /\ DOMAIN attempts' = Site
    BY <2>3, RanFacts DEF Beside, SeqInv
  <2> QED
    BY <2>1, <2>2, <2>3, Steps
<1>2. IsSeq(live)' /\ IsSeq(minted)'
  <2>1. GrantStep /\ IsSeq(live) /\ IsSeq(minted)
    BY GrantSteps DEF SeqInv
  <2>2. ASSUME NEW g \in ToSet(live) PROVE IsSeq(RemoveFirst(live, g))
    BY <2>1, RemoveFacts
  <2>3. \A g : IsSeq(Append(live, g)) /\ IsSeq(Append(minted, g))
    BY <2>1, AppendFacts
  <2> QED
    BY <2>1, <2>2, <2>3 DEF GrantStep, Mint, Spent, grants, IsSeq
<1>3. IsSeq(deferred)' /\ (next \in 0..Len(deferred))' /\ (phase = "run" => next = 0)'
  <2>0. Len(deferred) \in Nat /\ next \in 0..Len(deferred)
    BY SeqFacts DEF SeqInv
  <2>1. CASE CallDeferred
    <3>1. PICK e : deferred' = Append(deferred, e)
      BY <2>1 DEF CallDeferred
    <3>2. IsSeq(deferred)' /\ DOMAIN deferred' = 1..(Len(deferred) + 1)
      BY <3>1, AppendFacts DEF SeqInv, IsSeq
    <3>3. Len(deferred') = Len(deferred) + 1
      BY <3>1, AppendProperties DEF SeqInv, IsSeq
    <3>4. UNCHANGED next /\ phase = "run"
      BY <2>1 DEF CallDeferred
    <3> QED
      BY <2>0, <3>2, <3>3, <3>4 DEF SeqInv
  <2>2. CASE Confirm
    <3>1. PICK answer : deferred' = [deferred EXCEPT ![next + 1].approved = answer]
      BY <2>2 DEF Confirm
    <3>2. IsSeq(deferred)' /\ Len(deferred') = Len(deferred)
      <4>1. next + 1 \in 1..Len(deferred)
        BY <2>0, <2>2 DEF Confirm
      <4> QED
        BY <3>1, <4>1, ConfirmFacts DEF SeqInv
    <3>3. next' = next + 1 /\ next < Len(deferred) /\ phase' = "barrier"
      BY <2>2 DEF Confirm
    <3> QED
      BY <2>0, <3>2, <3>3
  <2>3. CASE Handover \/ Commit
    <3>1. UNCHANGED deferred /\ next' \in 0..Len(deferred) /\ phase' # "run"
      BY <2>0, <2>3 DEF Handover, Commit
    <3> QED
      BY <3>1 DEF SeqInv, IsSeq
  <2>4. CASE UNCHANGED batch /\ (phase' = "run" => phase = "run")
    BY <2>4 DEF batch, SeqInv, IsSeq
  <2>5. CASE CallDenied \/ CallExecuted
    BY <2>4, <2>5 DEF CallDenied, CallExecuted
  <2>6. CASE Committed \/ Propose \/ Proposed \/ Redeem \/ Redeemed \/ Stream \/ UNCHANGED vars
    BY <2>4, <2>6 DEF Committed, Propose, Proposed, Redeem, Redeemed, Stream, vars
  <2> QED
    BY <2>1, <2>2, <2>3, <2>5, <2>6 DEF Next
<1> QED
  BY <1>1, <1>2, <1>3 DEF SeqInv

BaseInv == PhaseInv /\ SeqInv

LEMMA BaseInvariant == Spec => []BaseInv
<1>1. Init => BaseInv
  BY PhaseInit, SeqInit DEF BaseInv
<1>2. BaseInv /\ [Next]_vars => BaseInv'
  BY PhaseStep, SeqStep DEF BaseInv
<1> QED
  BY <1>1, <1>2, PTL DEF Spec

-----------------------------------------------------------------------------
(***************************************************************************)
(* A call under the plan is current, and the first of its site.            *)
(***************************************************************************)

LEMMA CurrentStep ==
  ASSUME BaseInv, DispatchIsCurrent, [Next]_vars
  PROVE  DispatchIsCurrent'
<1>1. ASSUME NEW c, NEW how, NEW i, Ran(c, how, i), i # None => Matches(c, i)
      PROVE  DispatchIsCurrent'
  BY <1>1, RanFacts DEF DispatchIsCurrent, BaseInv, SeqInv
<1>2. ASSUME NEW c, NEW how, NEW i, Planned(c, how, i) PROVE DispatchIsCurrent'
  BY <1>1, <1>2 DEF Planned, Execute
<1>3. ASSUME NEW c, NEW how, NEW i, Beside(c, how, i) PROVE DispatchIsCurrent'
  BY <1>1, <1>3 DEF Beside
<1>4. CASE UNCHANGED <<attempts, dispatched>>
  BY <1>4 DEF DispatchIsCurrent
<1> QED
  BY <1>2, <1>3, <1>4, Steps DEF BaseInv

\* A call that is made under the plan has the operands the gateway has observed
\* by then, also if the call was authorized, put aside and approved before a
\* later observation replaced them (the recheck of batched_executor).
THEOREM DispatchesAreCurrent == Spec => []DispatchIsCurrent
<1>1. Init => DispatchIsCurrent
  BY DEF Init, DispatchIsCurrent
<1>2. BaseInv /\ DispatchIsCurrent /\ [Next]_vars => DispatchIsCurrent'
  BY CurrentStep
<1> QED
  BY <1>1, <1>2, BaseInvariant, PTL DEF Spec

\* A site has no call before it is attempted, and one after.
SiteInv ==
  mode # "stream" => \A s \in Site :
    Cardinality(RunsOf(s)) <= (IF attempts[s] = "none" THEN 0 ELSE 1)

LEMMA RunCounts ==
  ASSUME IsSeq(dispatched), NEW c, NEW how, NEW i, Ran(c, how, i), NEW s
  PROVE  /\ Cardinality(RunsOf(s)) \in Nat
         /\ (Cardinality(RunsOf(s)))' =
              IF i = s THEN Cardinality(RunsOf(s)) + 1 ELSE Cardinality(RunsOf(s))
<1>1. /\ Len(dispatched) \in Nat /\ RunsOf(s) \in SUBSET (1..Len(dispatched))
      /\ RunsOf(s)' = IF i = s THEN RunsOf(s) \cup {Len(dispatched) + 1} ELSE RunsOf(s)
  BY RanFacts
<1> QED
  BY <1>1, NextIndex

LEMMA SiteStep ==
  ASSUME BaseInv, SiteInv, [Next]_vars
  PROVE  SiteInv'
<1>1. UNCHANGED mode /\ IsSeq(dispatched) /\ DOMAIN attempts = Site
  BY Steps DEF BaseInv, SeqInv
<1>2. ASSUME NEW c, NEW how, NEW i, Planned(c, how, i) PROVE SiteInv'
  <2>1. PICK outcome \in Outcomes : \E result : Execute(c, how, i, outcome, result)
    BY <1>2 DEF Planned
  <2>2. /\ attempts[i] = "none" /\ i \in Site
        /\ attempts' = [attempts EXCEPT ![i] = Reserved(i, outcome)]
        /\ Ran(c, how, i)
    BY <1>2, <2>1 DEF Planned, Execute
  <2>3. Reserved(i, outcome) # "none"
    BY DEF Outcomes, Reserved
  <2>4. ASSUME NEW s \in Site, mode # "stream"
        PROVE  (Cardinality(RunsOf(s)))' <= (IF attempts'[s] = "none" THEN 0 ELSE 1)
    <3>1. /\ Cardinality(RunsOf(s)) \in Nat
          /\ (Cardinality(RunsOf(s)))' =
               IF i = s THEN Cardinality(RunsOf(s)) + 1 ELSE Cardinality(RunsOf(s))
      BY <1>1, <2>2, RunCounts
    <3>2. attempts'[s] = IF i = s THEN Reserved(i, outcome) ELSE attempts[s]
      BY <1>1, <2>2
    <3> QED
      BY <2>2, <2>3, <2>4, <3>1, <3>2 DEF SiteInv
  <2> QED
    BY <1>1, <2>4 DEF SiteInv
<1>3. ASSUME NEW c, NEW how, NEW i, Beside(c, how, i) PROVE SiteInv'
  <2>1. ASSUME NEW s \in Site, mode # "stream" PROVE (Cardinality(RunsOf(s)))' = Cardinality(RunsOf(s))
    <3>1. i # s /\ Ran(c, how, i)
      BY <1>3, <2>1, SiteFacts DEF Beside
    <3> QED
      BY <1>1, <3>1, RunCounts
  <2> QED
    BY <1>1, <1>3, <2>1 DEF SiteInv, Beside
<1>4. CASE UNCHANGED <<attempts, dispatched>>
  <2>1. \A s : RunsOf(s)' = RunsOf(s)
    BY <1>4 DEF RunsOf
  <2> QED
    BY <1>1, <1>4, <2>1 DEF SiteInv
<1> QED
  BY <1>2, <1>3, <1>4, Steps DEF BaseInv

\* A site of the program is called once at most, through every way of deferring,
\* raising and failing to record: the token is reserved before the tool is
\* called, and no outcome frees it.
THEOREM SitesAreSpentOnce == Spec => []SitesRunOnce
<1>1. Init => SiteInv
  <2> SUFFICES ASSUME Init PROVE SiteInv
    OBVIOUS
  <2>1. attempts = [i \in Site |-> "none"] /\ \A s : RunsOf(s) = {}
    BY DEF Init, RunsOf
  <2> QED
    BY <2>1, FS_EmptySet DEF SiteInv
<1>2. BaseInv /\ SiteInv /\ [Next]_vars => SiteInv'
  BY SiteStep
<1>3. BaseInv /\ SiteInv => SitesRunOnce
  <2> SUFFICES ASSUME BaseInv, SiteInv, mode # "stream", NEW s \in Site
               PROVE  Cardinality(RunsOf(s)) <= 1
    BY DEF SitesRunOnce
  <2>1. Len(dispatched) \in Nat /\ RunsOf(s) \in SUBSET (1..Len(dispatched))
    BY SeqFacts DEF BaseInv, SeqInv, RunsOf
  <2>2. Cardinality(RunsOf(s)) \in Nat
    BY <2>1, NextIndex
  <2> QED
    BY <2>2 DEF SiteInv
<1> QED
  BY <1>1, <1>2, <1>3, BaseInvariant, PTL DEF Spec

-----------------------------------------------------------------------------
(***************************************************************************)
(* A gated effect is made as often as it was approved.                     *)
(***************************************************************************)

\* The approved actions the commit has been through.
Handled(c) == {n \in Approvals(c) : phase \in {"commit", "ended"} /\ n <= next}

EffectInv ==
  mode = "batched" => \A c : Gated(c) => Cardinality(CallsOf(c)) <= Cardinality(Handled(c))

LEMMA HandledFacts ==
  ASSUME SeqInv, NEW c
  PROVE  /\ Len(deferred) \in Nat /\ next \in 0..Len(deferred) /\ DOMAIN deferred = 1..Len(deferred)
         /\ IsFiniteSet(Approvals(c)) /\ Cardinality(Approvals(c)) \in Nat
         /\ Handled(c) \in SUBSET Approvals(c) /\ Handled(c) \in SUBSET (1..next)
         /\ Cardinality(Handled(c)) \in Nat
         /\ Cardinality(Handled(c)) <= Cardinality(Approvals(c))
<1>1. /\ Len(deferred) \in Nat /\ next \in 0..Len(deferred)
      /\ DOMAIN deferred = 1..Len(deferred)
  BY SeqFacts DEF SeqInv
<1>2. /\ Approvals(c) \in SUBSET (1..Len(deferred))
      /\ Handled(c) \in SUBSET Approvals(c) /\ Handled(c) \in SUBSET (1..next)
  BY <1>1 DEF Approvals, Handled
<1>3. IsFiniteSet(Approvals(c)) /\ Cardinality(Approvals(c)) \in Nat
  BY <1>1, <1>2, NextIndex
<1>4. /\ IsFiniteSet(Handled(c)) /\ Cardinality(Handled(c)) <= Cardinality(Approvals(c))
  BY <1>2, <1>3, FS_Subset
<1> QED
  BY <1>1, <1>2, <1>3, <1>4, FS_CardinalityType

LEMMA HandledThen == (\A c : SeqInv => Cardinality(Handled(c)) \in Nat)'
<1>1. \A c : SeqInv => Cardinality(Handled(c)) \in Nat
  BY HandledFacts
<1> QED
  BY <1>1, PTL

LEMMA CallCounts ==
  ASSUME IsSeq(dispatched), NEW c, NEW how, NEW i, Ran(c, how, i), NEW d
  PROVE  /\ Cardinality(CallsOf(d)) \in Nat
         /\ (Cardinality(CallsOf(d)))' =
              IF c = d THEN Cardinality(CallsOf(d)) + 1 ELSE Cardinality(CallsOf(d))
<1>1. /\ Len(dispatched) \in Nat /\ CallsOf(d) \in SUBSET (1..Len(dispatched))
      /\ CallsOf(d)' = IF c = d THEN CallsOf(d) \cup {Len(dispatched) + 1} ELSE CallsOf(d)
  BY RanFacts
<1> QED
  BY <1>1, NextIndex

\* The commit goes through the actions one by one: what it has handled grows by
\* the action that comes next, if that was approved.
LEMMA CommitHandles ==
  ASSUME SeqInv, Commit, NEW c
  PROVE  LET action == deferred[next + 1] IN
         (Cardinality(Handled(c)))' =
            IF action.call = c /\ action.approved
              THEN Cardinality(Handled(c)) + 1 ELSE Cardinality(Handled(c))
<1> DEFINE action == deferred[next + 1]
<1>1. /\ phase = "commit" /\ phase' \in {"commit", "ended"} /\ next < Len(deferred)
      /\ next' = next + 1 /\ UNCHANGED deferred
  BY DEF Commit
<1>2. /\ Len(deferred) \in Nat /\ next \in 0..Len(deferred) /\ DOMAIN deferred = 1..Len(deferred)
      /\ Handled(c) \in SUBSET (1..next)
  BY HandledFacts
<1>3. Approvals(c)' = Approvals(c)
  BY <1>1 DEF Approvals
<1>4. next + 1 \in Approvals(c) <=> action.call = c /\ action.approved
  BY <1>1, <1>2 DEF Approvals
<1>5. Approvals(c) \subseteq Nat
  BY <1>2 DEF Approvals
<1>6. Handled(c)' = {n \in Approvals(c) : n <= next + 1} /\ Handled(c) = {n \in Approvals(c) : n <= next}
  BY <1>1, <1>3 DEF Handled
<1>7. CASE next + 1 \in Approvals(c)
  <2>1. Handled(c)' = Handled(c) \cup {next + 1}
    BY <1>2, <1>5, <1>6, <1>7
  <2>2. Cardinality(Handled(c) \cup {next + 1}) = Cardinality(Handled(c)) + 1
    <3>1. next \in Nat /\ Handled(c) \in SUBSET (1..next)
      BY <1>2
    <3> QED
      BY <3>1, NextIndex
  <2> QED
    BY <1>4, <1>7, <2>1, <2>2
<1>8. CASE next + 1 \notin Approvals(c)
  <2>1. Handled(c)' = Handled(c)
    BY <1>2, <1>5, <1>6, <1>8
  <2> QED
    BY <1>4, <1>8, <2>1
<1> QED
  BY <1>7, <1>8

LEMMA EffectStep ==
  ASSUME BaseInv, BaseInv', EffectInv, [Next]_vars
  PROVE  EffectInv'
<1>0. UNCHANGED mode /\ IsSeq(dispatched)
  BY Steps DEF BaseInv, SeqInv
<1> SUFFICES ASSUME mode = "batched", NEW c, Gated(c)
             PROVE  (Cardinality(CallsOf(c)))' <= (Cardinality(Handled(c)))'
  BY <1>0 DEF EffectInv, Gated
<1>1. /\ Cardinality(CallsOf(c)) \in Nat /\ Cardinality(Handled(c)) \in Nat
      /\ Cardinality(CallsOf(c)) <= Cardinality(Handled(c))
      /\ (Cardinality(Handled(c)))' \in Nat
  <2>1. Len(dispatched) \in Nat /\ CallsOf(c) \in SUBSET (1..Len(dispatched))
    BY SeqFacts DEF BaseInv, SeqInv, CallsOf
  <2>2. Cardinality(CallsOf(c)) \in Nat
    BY <2>1, NextIndex
  <2>3. Cardinality(Handled(c)) \in Nat
    BY HandledFacts DEF BaseInv
  <2>4. (Cardinality(Handled(c)))' \in Nat
    BY HandledThen DEF BaseInv
  <2> QED
    BY <2>2, <2>3, <2>4 DEF EffectInv
<1>2. ASSUME CallsOf(c)' = CallsOf(c), Handled(c) = {}
      PROVE  (Cardinality(CallsOf(c)))' <= (Cardinality(Handled(c)))'
  BY <1>1, <1>2, FS_EmptySet
<1>3. CASE phase \in {"run", "barrier"}
  <2>1. Handled(c) = {}
    BY <1>3 DEF Handled
  <2>2. CASE CallExecuted
    <3>1. ~ Gated(NextCall) /\ \E how, i : Ran(NextCall, how, i)
      BY <2>2 DEF CallExecuted, Execute
    <3>2. (Cardinality(CallsOf(c)))' = Cardinality(CallsOf(c))
      BY <1>0, <3>1, CallCounts
    <3> QED
      BY <1>1, <2>1, <3>2, FS_EmptySet
  <2>3. CASE UNCHANGED dispatched
    BY <1>2, <2>1, <2>3 DEF CallsOf
  <2>4. CallExecuted \/ UNCHANGED dispatched
    BY <1>3 DEF Next, CallDenied, CallDeferred, Confirm, Handover, Commit, Committed, Propose, Proposed,
                Redeem, Redeemed, Stream, vars
  <2> QED
    BY <2>2, <2>3, <2>4
<1>4. CASE phase \in {"commit", "ended"}
  <2>1. CASE Commit
    <3> DEFINE action == deferred[next + 1]
    <3>1. (Cardinality(Handled(c)))' =
            IF action.call = c /\ action.approved
              THEN Cardinality(Handled(c)) + 1 ELSE Cardinality(Handled(c))
      BY <2>1, CommitHandles DEF BaseInv
    <3>2. \/ UNCHANGED dispatched
          \/ action.approved /\ \E how, i : Ran(action.call, how, i)
      BY <2>1 DEF Commit, Execute, Approved
    <3>3. CASE UNCHANGED dispatched
      <4>1. CallsOf(c)' = CallsOf(c)
        BY <3>3 DEF CallsOf
      <4> QED
        BY <1>1, <3>1, <4>1
    <3>4. ASSUME action.approved, NEW how, NEW i, Ran(action.call, how, i)
          PROVE  (Cardinality(CallsOf(c)))' <= (Cardinality(Handled(c)))'
      <4>1. (Cardinality(CallsOf(c)))' =
              IF action.call = c THEN Cardinality(CallsOf(c)) + 1 ELSE Cardinality(CallsOf(c))
        BY <1>0, <3>4, CallCounts
      <4> QED
        BY <1>1, <3>1, <3>4, <4>1
    <3> QED
      BY <3>2, <3>3, <3>4
  <2>2. CASE Committed \/ UNCHANGED vars
    <3>1. CallsOf(c)' = CallsOf(c) /\ Handled(c)' = Handled(c)
      BY <1>4, <2>2 DEF Committed, vars, batch, CallsOf, Handled, Approvals
    <3> QED
      BY <1>1, <3>1
  <2>3. Commit \/ Committed \/ UNCHANGED vars
    BY <1>4 DEF Next, BaseInv, PhaseInv, CallDenied, CallDeferred, CallExecuted, Confirm, Handover,
                Propose, Proposed, Redeem, Redeemed, Stream
  <2> QED
    BY <2>1, <2>2, <2>3
<1> QED
  BY <1>3, <1>4 DEF BaseInv, PhaseInv

\* In a batched run a gated effect is made no more often than the user approved
\* an action with that tool and those operands: a call the program repeats, or
\* one whose operand is replaced, does not ride on another's approval.
THEOREM GatedEffectsAreApproved == Spec => []EffectsAreApproved
<1>1. Init => EffectInv
  <2> SUFFICES ASSUME Init, NEW c PROVE Cardinality(CallsOf(c)) <= Cardinality(Handled(c))
    BY DEF EffectInv
  <2>1. CallsOf(c) = {} /\ Handled(c) = {}
    BY DEF Init, CallsOf, Handled, Approvals
  <2> QED
    BY <2>1, FS_EmptySet
<1>2. BaseInv /\ BaseInv' /\ EffectInv /\ [Next]_vars => EffectInv'
  BY EffectStep
<1>3. BaseInv /\ EffectInv => EffectsAreApproved
  <2> SUFFICES ASSUME BaseInv, EffectInv, mode = "batched", NEW c, Gated(c)
               PROVE  Cardinality(CallsOf(c)) <= Cardinality(Approvals(c))
    BY DEF EffectsAreApproved
  <2>1. Len(dispatched) \in Nat /\ CallsOf(c) \in SUBSET (1..Len(dispatched))
    BY SeqFacts DEF BaseInv, SeqInv, CallsOf
  <2>2. Cardinality(CallsOf(c)) \in Nat
    BY <2>1, NextIndex
  <2> QED
    BY <2>2, HandledFacts DEF EffectInv, BaseInv
<1> QED
  BY <1>1, <1>2, <1>3, BaseInvariant, PTL DEF Spec

-----------------------------------------------------------------------------
(***************************************************************************)
(* Grants are spent one by one.                                            *)
(***************************************************************************)

\* What was granted and what is left of it, taken together.
GrantInv ==
  \A b : Cardinality(CallsGranted(b)) + Cardinality(Unspent(b)) <= Cardinality(EverMinted(b))

LEMMA AppendCounts ==
  ASSUME NEW s, IsSeq(s), NEW e, NEW v
  PROVE  /\ Cardinality(Where(s, v)) \in Nat
         /\ Cardinality(Where(Append(s, e), v)) =
              IF e = v THEN Cardinality(Where(s, v)) + 1 ELSE Cardinality(Where(s, v))
<1> DEFINE L == Len(s)
           a == Append(s, e)
           before == Where(s, v)
           after == Where(a, v)
<1>1. /\ L \in Nat /\ DOMAIN s = 1..L /\ DOMAIN a = 1..(L + 1)
      /\ \A n \in 1..L : a[n] = s[n]
      /\ a[L + 1] = e
  BY AppendFacts
<1> HIDE DEF L, a
<1>2. before \in SUBSET (1..L) /\ after = IF e = v THEN before \cup {L + 1} ELSE before
  <2>1. 1..(L + 1) = 1..L \cup {L + 1}
    BY <1>1
  <2> QED
    BY <1>1, <2>1 DEF Where
<1> HIDE DEF before, after
<1>3. Cardinality(before) \in Nat /\ Cardinality(before \cup {L + 1}) = Cardinality(before) + 1
  BY <1>1, <1>2, NextIndex
<1> QED
  BY <1>2, <1>3 DEF before, after, a

LEMMA GrantCounts ==
  ASSUME SeqInv, NEW b
  PROVE  /\ Cardinality(CallsGranted(b)) \in Nat
         /\ Cardinality(Unspent(b)) \in Nat /\ Cardinality(EverMinted(b)) \in Nat
<1>1. Len(dispatched) \in Nat /\ CallsGranted(b) \in SUBSET (1..Len(dispatched))
  BY SeqFacts DEF SeqInv, CallsGranted
<1>2. Len(live) \in Nat /\ Unspent(b) \in SUBSET (1..Len(live))
  BY SeqFacts DEF SeqInv, Unspent
<1>3. Len(minted) \in Nat /\ EverMinted(b) \in SUBSET (1..Len(minted))
  BY SeqFacts DEF SeqInv, EverMinted
<1> QED
  BY <1>1, <1>2, <1>3, NextIndex

LEMMA MintedCounts ==
  ASSUME SeqInv, NEW g, minted' = Append(minted, g), NEW b
  PROVE  (Cardinality(EverMinted(b)))' =
           IF g = b THEN Cardinality(EverMinted(b)) + 1 ELSE Cardinality(EverMinted(b))
<1>1. EverMinted(b) = Where(minted, b) /\ EverMinted(b)' = Where(Append(minted, g), b)
  BY DEF EverMinted, Where
<1> QED
  BY <1>1, AppendCounts DEF SeqInv

LEMMA GivenCounts ==
  ASSUME SeqInv, NEW g, live' = Append(live, g), NEW b
  PROVE  (Cardinality(Unspent(b)))' =
           IF g = b THEN Cardinality(Unspent(b)) + 1 ELSE Cardinality(Unspent(b))
<1>1. Unspent(b) = Where(live, b) /\ Unspent(b)' = Where(Append(live, g), b)
  BY DEF Unspent, Where
<1> QED
  BY <1>1, AppendCounts DEF SeqInv

LEMMA TakenCounts ==
  ASSUME SeqInv, NEW g \in ToSet(live), live' = Spent(g), NEW b
  PROVE  (Cardinality(Unspent(b)))' =
           IF g = b THEN Cardinality(Unspent(b)) - 1 ELSE Cardinality(Unspent(b))
<1>1. Unspent(b) = Where(live, b) /\ Unspent(b)' = Where(RemoveFirst(live, g), b)
  BY DEF Unspent, Where, Spent
<1> QED
  BY <1>1, RemoveCounts DEF SeqInv

LEMMA GrantedCounts ==
  ASSUME SeqInv, NEW c, NEW how, NEW i, Ran(c, how, i), NEW b
  PROVE  (Cardinality(CallsGranted(b)))' =
           IF how = "granted" /\ Bound(c) = b
             THEN Cardinality(CallsGranted(b)) + 1 ELSE Cardinality(CallsGranted(b))
<1>1. /\ Len(dispatched) \in Nat /\ CallsGranted(b) \in SUBSET (1..Len(dispatched))
      /\ CallsGranted(b)' =
           IF how = "granted" /\ Bound(c) = b
             THEN CallsGranted(b) \cup {Len(dispatched) + 1} ELSE CallsGranted(b)
  BY RanFacts DEF SeqInv
<1> QED
  BY <1>1, NextIndex

\* A grant is given, with nothing called; one is taken from what is left, with a
\* call for it; one is given and taken at once; or the grants do not move.
LEMMA GrantMoves ==
  ASSUME PhaseInv, [Next]_vars
  PROVE  \/ UNCHANGED <<grants, dispatched>>
         \/ UNCHANGED grants /\ \E c, how, i : how # "granted" /\ Ran(c, how, i)
         \/ UNCHANGED dispatched /\ \E c : Mint(c)
         \/ \E c : /\ Bound(c) \in ToSet(live) /\ live' = Spent(Bound(c)) /\ UNCHANGED minted
                   /\ Ran(c, "granted", None)
         \/ \E c : /\ minted' = Append(minted, Bound(c)) /\ UNCHANGED live
                   /\ Ran(c, "granted", None)
<1>1. CASE CallExecuted
  BY <1>1 DEF CallExecuted, Execute
<1>2. CASE Commit
  <2>1. UNCHANGED dispatched \/ \E c, i : Ran(c, "commit", i)
    BY <1>2 DEF Commit, Execute
  <2> QED
    BY <1>2, <2>1 DEF Commit
<1>3. CASE Propose
  BY <1>3 DEF Propose
<1>4. CASE Redeem
  BY <1>4 DEF Redeem, grants
<1>5. CASE Stream
  <2>1. PICK c \in Extra : StreamRead(c) \/ StreamPlanned(c) \/ StreamAsked(c)
    BY <1>5 DEF Stream
  <2>2. CASE StreamRead(c)
    BY <2>2 DEF StreamRead
  <2>3. CASE StreamPlanned(c)
    BY <2>3 DEF StreamPlanned
  <2>4. CASE StreamAsked(c)
    BY <2>4 DEF StreamAsked
  <2> QED
    BY <2>1, <2>2, <2>3, <2>4
<1>6. CASE UNCHANGED <<grants, dispatched>>
  BY <1>6
<1> QED
  BY <1>1, <1>2, <1>3, <1>4, <1>5, <1>6 DEF Next, CallDenied, CallDeferred, Confirm, Handover,
     Committed, Proposed, Redeemed, vars

LEMMA GrantInvStep ==
  ASSUME BaseInv, GrantInv, [Next]_vars
  PROVE  GrantInv'
<1> SUFFICES ASSUME NEW b
             PROVE  (Cardinality(CallsGranted(b)))' + (Cardinality(Unspent(b)))'
                      <= (Cardinality(EverMinted(b)))'
  BY DEF GrantInv
<1>1. /\ Cardinality(CallsGranted(b)) \in Nat
      /\ Cardinality(Unspent(b)) \in Nat /\ Cardinality(EverMinted(b)) \in Nat
      /\ Cardinality(CallsGranted(b)) + Cardinality(Unspent(b)) <= Cardinality(EverMinted(b))
  BY GrantCounts DEF BaseInv, GrantInv
<1>2. UNCHANGED live => (Cardinality(Unspent(b)))' = Cardinality(Unspent(b))
  BY DEF Unspent
<1>3. UNCHANGED minted => (Cardinality(EverMinted(b)))' = Cardinality(EverMinted(b))
  BY DEF EverMinted
<1>4. UNCHANGED dispatched => (Cardinality(CallsGranted(b)))' = Cardinality(CallsGranted(b))
  BY DEF CallsGranted
<1>5. CASE UNCHANGED <<grants, dispatched>>
  BY <1>1, <1>2, <1>3, <1>4, <1>5 DEF grants
<1>6. ASSUME UNCHANGED grants, NEW c, NEW how, NEW i, how # "granted", Ran(c, how, i)
      PROVE  (Cardinality(CallsGranted(b)))' + (Cardinality(Unspent(b)))'
               <= (Cardinality(EverMinted(b)))'
  <2>1. (Cardinality(CallsGranted(b)))' = Cardinality(CallsGranted(b))
    BY <1>6, GrantedCounts DEF BaseInv
  <2> QED
    BY <1>1, <1>2, <1>3, <1>6, <2>1 DEF grants
<1>7. ASSUME UNCHANGED dispatched, NEW c, Mint(c)
      PROVE  (Cardinality(CallsGranted(b)))' + (Cardinality(Unspent(b)))'
               <= (Cardinality(EverMinted(b)))'
  <2>1. (Cardinality(Unspent(b)))' =
          IF Bound(c) = b THEN Cardinality(Unspent(b)) + 1 ELSE Cardinality(Unspent(b))
    BY <1>7, GivenCounts DEF BaseInv, Mint
  <2>2. (Cardinality(EverMinted(b)))' =
          IF Bound(c) = b THEN Cardinality(EverMinted(b)) + 1 ELSE Cardinality(EverMinted(b))
    BY <1>7, MintedCounts DEF BaseInv, Mint
  <2> QED
    BY <1>1, <1>4, <1>7, <2>1, <2>2
<1>8. ASSUME NEW c, Bound(c) \in ToSet(live), live' = Spent(Bound(c)), UNCHANGED minted,
             Ran(c, "granted", None)
      PROVE  (Cardinality(CallsGranted(b)))' + (Cardinality(Unspent(b)))'
               <= (Cardinality(EverMinted(b)))'
  <2>1. (Cardinality(Unspent(b)))' =
          IF Bound(c) = b THEN Cardinality(Unspent(b)) - 1 ELSE Cardinality(Unspent(b))
    BY <1>8, TakenCounts DEF BaseInv
  <2>2. (Cardinality(CallsGranted(b)))' =
          IF Bound(c) = b THEN Cardinality(CallsGranted(b)) + 1 ELSE Cardinality(CallsGranted(b))
    BY <1>8, GrantedCounts DEF BaseInv
  <2> QED
    BY <1>1, <1>3, <1>8, <2>1, <2>2
<1>9. ASSUME NEW c, minted' = Append(minted, Bound(c)), UNCHANGED live, Ran(c, "granted", None)
      PROVE  (Cardinality(CallsGranted(b)))' + (Cardinality(Unspent(b)))'
               <= (Cardinality(EverMinted(b)))'
  <2>1. (Cardinality(EverMinted(b)))' =
          IF Bound(c) = b THEN Cardinality(EverMinted(b)) + 1 ELSE Cardinality(EverMinted(b))
    BY <1>9, MintedCounts DEF BaseInv
  <2>2. (Cardinality(CallsGranted(b)))' =
          IF Bound(c) = b THEN Cardinality(CallsGranted(b)) + 1 ELSE Cardinality(CallsGranted(b))
    BY <1>9, GrantedCounts DEF BaseInv
  <2> QED
    BY <1>1, <1>2, <1>9, <2>1, <2>2
<1> QED
  BY <1>5, <1>6, <1>7, <1>8, <1>9, GrantMoves DEF BaseInv

\* For each tool and the texts of its control operands the calls made on a grant
\* are no more than the approvals the user gave: an executor that is handed the
\* same action twice, or another one with equal control operands, finds as many
\* grants as were minted (GrantLedger.redeem removes what it matched).
THEOREM GrantsAreOneTime == Spec => []GrantsAreSpentOnce
<1>1. Init => GrantInv
  <2> SUFFICES ASSUME Init, NEW b
               PROVE  Cardinality(CallsGranted(b)) + Cardinality(Unspent(b)) <= Cardinality(EverMinted(b))
    BY DEF GrantInv
  <2>1. CallsGranted(b) = {} /\ Unspent(b) = {} /\ EverMinted(b) = {}
    BY DEF Init, CallsGranted, Unspent, EverMinted
  <2> QED
    BY <2>1, FS_EmptySet
<1>2. BaseInv /\ GrantInv /\ [Next]_vars => GrantInv'
  BY GrantInvStep
<1>3. GrantInv => GrantsAreSpentOnce
  BY DEF GrantInv, GrantsAreSpentOnce
<1> QED
  BY <1>1, <1>2, <1>3, BaseInvariant, PTL DEF Spec
=============================================================================

------------------------- MODULE GatewaySession_proofs -------------------------
(***************************************************************************)
(* Proofs about one session of the Gateway, for every plan: its types, the *)
(* approvals its gates demand, the cap of its loops and the exclusiveness  *)
(* of reauthorization.                                                     *)
(***************************************************************************)
EXTENDS GatewaySession, FiniteSetTheorems, TLAPS

Row == [Tokens -> Attempt]

\* Tokens of plan calls and of off-plan calls never coincide.
LEMMA TokenFacts ==
  /\ \A i \in DOMAIN Rules : \A p \in Paths(i) :
       Token(i, p) \in Tokens /\ Site(i) \in Sites
  /\ \A c \in OffPlan : ExternalToken(c) \in Tokens
  /\ \A i \in DOMAIN Rules : \A p \in Paths(i), c \in OffPlan :
       Token(i, p) # ExternalToken(c)
  /\ \A c, d \in OffPlan : ExternalToken(c) = ExternalToken(d) => c = d
<1>1. /\ \A i \in DOMAIN Rules : Site(i) \in Sites
      /\ "reauthorization" \notin Sites
  BY SiteAssumption DEF Sites
<1>2. \A i \in DOMAIN Rules : \A p \in Paths(i) : Token(i, p) \in PlanTokens
  BY DEF Token, PlanTokens
<1>3. \A i \in DOMAIN Rules : \A p \in Paths(i), c \in OffPlan :
        Token(i, p) # ExternalToken(c)
  BY <1>1 DEF Token, ExternalToken
<1>4. \A c, d \in OffPlan : ExternalToken(c) = ExternalToken(d) => c = d
  BY DEF ExternalToken
<1>5. QED
  BY <1>1, <1>2, <1>3, <1>4 DEF Tokens

\* The tuple a call is made with matches it, and is a path of its rule.
LEMMA FirstMatches ==
  \A i \in DOMAIN Rules : \A c, p : p \in First(i, c) => p \in Matches(i, c) /\ p \in Paths(i)
BY DEF First, Matches, ActivePaths

\* A row with one attempt changed, and a normalized row, are rows.
LEMMA RowFacts ==
  ASSUME NEW row \in Row, NEW t \in Tokens, NEW a \in Attempt
  PROVE  [row EXCEPT ![t] = a] \in Row /\ Normalized(row) \in Row
BY DEF Row, Normalized, Attempt

\* A dispatch sets ran[t], and what it overtakes are pairs of sites.
LEMMA DispatchedFacts ==
  ASSUME TypeOK, NEW t \in Tokens, NEW c, c[2] \in Args,
         NEW outcome \in {"returned", "unknown"}, Dispatched(t, c, outcome)
  PROVE  /\ ran' \in [Tokens -> Dispatch \cup {Nothing}]
         /\ ran'[t] # Nothing /\ ran'[t].arg = c[2]
         /\ \A u \in Tokens \ {t} : ran'[u] = ran[u]
         /\ overtaken' \subseteq (Sites \X Sites)
<1>1. [arg |-> c[2], outcome |-> outcome] \in Dispatch
  BY DEF Dispatch
<1>2. ran' = [ran EXCEPT ![t] = [arg |-> c[2], outcome |-> outcome]]
  BY DEF Dispatched
<1>3. ran \in [Tokens -> Dispatch \cup {Nothing}]
  BY DEF TypeOK
<1>4. /\ ran' \in [Tokens -> Dispatch \cup {Nothing}]
      /\ ran'[t] = [arg |-> c[2], outcome |-> outcome]
      /\ \A u \in Tokens \ {t} : ran'[u] = ran[u]
  BY <1>1, <1>2, <1>3
<1>5. overtaken' \subseteq (Sites \X Sites)
  BY DEF Dispatched, TypeOK, Sites
<1>6. QED
  BY <1>1, <1>4, <1>5, NothingAssumption

\* An execution touches its own token only.
LEMMA ExecuteFacts ==
  ASSUME TypeOK, NEW t \in Tokens, NEW c, c[2] \in Args, NEW e \in Ending,
         Execute(t, c, e)
  PROVE  /\ attempts' \in Row /\ durable' \in Row
         /\ ran' \in [Tokens -> Dispatch \cup {Nothing}]
         /\ overtaken' \subseteq (Sites \X Sites)
         /\ fresh' \subseteq {u \in Tokens : ran'[u] # Nothing}
         /\ fresh' \in {fresh, fresh \cup {t}}
         /\ \A u \in Tokens \ {t} : attempts'[u] = attempts[u] /\ ran'[u] = ran[u]
         /\ ran'[t] # Nothing => ran'[t] = ran[t] \/ ran'[t].arg = c[2]
         /\ attempts'[t] # "none"
         /\ consented' = consented
<1>1. Settled(e) \in Attempt \ {"none"}
  BY DEF Settled, Ending, Attempt
<1>2. attempts' = [attempts EXCEPT ![t] = Settled(e)] /\ attempts \in Row /\ durable \in Row
  BY DEF Execute, TypeOK, Row
<1>3. /\ attempts' \in Row /\ attempts'[t] # "none"
      /\ \A u \in Tokens \ {t} : attempts'[u] = attempts[u]
  BY <1>1, <1>2 DEF Row
<1>4. durable' \in Row
  <2>1. \A a \in Attempt : [attempts EXCEPT ![t] = a] \in Row
    BY <1>2, RowFacts
  <2>2. durable' \in Persisted(t, e)
    BY DEF Execute
  <2>3. QED
    BY <1>2, <2>1, <2>2 DEF Persisted, Ending, Attempt
<1>5. CASE e = "unwritten"
  BY <1>3, <1>4, <1>5 DEF Execute, TypeOK
<1>6. CASE e # "unwritten"
  <2>1. PICK outcome \in {"returned", "unknown"} : Dispatched(t, c, outcome)
    BY <1>6 DEF Execute
  <2>2. fresh' = fresh \cup {t} /\ consented' = consented
    BY <1>6 DEF Execute
  <2>3. /\ ran' \in [Tokens -> Dispatch \cup {Nothing}]
        /\ ran'[t] # Nothing /\ ran'[t].arg = c[2]
        /\ \A u \in Tokens \ {t} : ran'[u] = ran[u]
        /\ overtaken' \subseteq (Sites \X Sites)
    BY <2>1, DispatchedFacts
  <2>4. fresh' \subseteq {u \in Tokens : ran'[u] # Nothing}
    BY <2>2, <2>3 DEF TypeOK
  <2>5. QED
    BY <1>3, <1>4, <2>2, <2>3, <2>4
<1>7. QED
  BY <1>5, <1>6

-----------------------------------------------------------------------------
\* One more element adds at most one to the size of a finite set.
LEMMA OneMore ==
  ASSUME NEW S, IsFiniteSet(S), NEW x
  PROVE  /\ Cardinality(S) \in Nat /\ Cardinality(S \cup {x}) \in Nat
         /\ Cardinality(S \cup {x}) <= Cardinality(S) + 1
<1>1. Cardinality(S) \in Nat
  BY FS_CardinalityType
<1>2. CASE x \in S
  <2>1. S \cup {x} = S
    BY <1>2
  <2>2. QED
    BY <1>1, <2>1
<1>3. CASE x \notin S
  <2>1. Cardinality(S \cup {x}) = Cardinality(S) + 1
    BY <1>3, FS_AddElement
  <2>2. QED
    BY <1>1, <2>1
<1>4. QED
  BY <1>2, <1>3

\* One more token counts as at most one more iteration, of its own site.
LEMMA IterationFacts ==
  ASSUME IsFiniteSet(fresh), NEW t, NEW S \in {fresh, fresh \cup {t}},
         NEW j \in DOMAIN Rules
  PROVE  /\ Iterations(j, fresh) \in Nat /\ Iterations(j, S) \in Nat
         /\ Iterations(j, S) <= Iterations(j, fresh) + 1
         /\ t[1] # Site(j) => Iterations(j, S) = Iterations(j, fresh)
<1> DEFINE It(T) == {u \in T : u[1] = Site(j)}
<1>1. IsFiniteSet(It(fresh))
  BY FS_Subset
<1>2. /\ Cardinality(It(fresh)) \in Nat /\ Cardinality(It(fresh) \cup {t}) \in Nat
      /\ Cardinality(It(fresh) \cup {t}) <= Cardinality(It(fresh)) + 1
  <2> HIDE DEF It
  <2>1. QED
    BY <1>1, OneMore
<1>3. It(S) = It(fresh) \/ (t[1] = Site(j) /\ It(S) = It(fresh) \cup {t})
  OBVIOUS
<1>4. Cardinality(It(S)) \in Nat /\ Cardinality(It(S)) <= Cardinality(It(fresh)) + 1
  <2> HIDE DEF It
  <2>1. QED
    BY <1>2, <1>3
<1>5. t[1] # Site(j) => Cardinality(It(S)) = Cardinality(It(fresh))
  <2>1. t[1] # Site(j) => It(S) = It(fresh)
    BY <1>3
  <2> HIDE DEF It
  <2>2. QED
    BY <2>1
<1>6. QED
  BY <1>2, <1>4, <1>5 DEF Iterations

\* A planned call passed its gate: what runs was approved, and what is
\* counted is below the cap.
LEMMA RunPlannedStep ==
  ASSUME SessionInv, NEW c \in Calls, NEW i \in DOMAIN Rules, NEW p \in First(i, c),
         NEW e \in Ending, Decides(i, c), RunPlanned(c, i, p, e)
  PROVE  SessionInv'
<1> DEFINE t == Token(i, p)
<1>0. /\ TypeOK /\ GatesInv /\ CountInv
      /\ OperandsAreConfirmed /\ ReauthorizationIsExclusive
  BY DEF SessionInv
<1>1. /\ c \in ToolParams \X Args /\ c[1] = Rules[i].tool
      /\ t \in Tokens /\ t[1] = Site(i) /\ Site(i) \in Sites
  BY TokenFacts, FirstMatches DEF RunPlanned, Decides, Authorizes, Calls, Token
<1>2. Execute(t, c, e)
  BY DEF RunPlanned
<1>3. /\ attempts' \in Row /\ durable' \in Row
      /\ ran' \in [Tokens -> Dispatch \cup {Nothing}]
      /\ overtaken' \subseteq (Sites \X Sites)
      /\ fresh' \subseteq {u \in Tokens : ran'[u] # Nothing}
      /\ fresh' \in {fresh, fresh \cup {t}}
      /\ \A u \in Tokens \ {t} : attempts'[u] = attempts[u] /\ ran'[u] = ran[u]
      /\ ran'[t] # Nothing => ran'[t] = ran[t] \/ ran'[t].arg = c[2]
      /\ consented' = consented
  <2>1. c[2] \in Args
    BY <1>1
  <2>2. QED
    BY <1>0, <1>1, <1>2, <2>1, ExecuteFacts
<1>4. /\ policy # "approve" => Missing(i, c) = {}
      /\ confirmed' = confirmed \cup Missing(i, c)
      /\ loop_counts' = IF Counted(i) /\ ~OverCap(i)
                          THEN [loop_counts EXCEPT ![Site(i)] = @ + 1]
                          ELSE loop_counts
      /\ held' = held
  BY DEF RunPlanned, PassGate
<1>5. /\ policy' = policy /\ ordering' = ordering
      /\ asked' = asked /\ grants' = grants /\ denied' = denied
  BY DEF RunPlanned, config, requests
<1>6. Missing(i, c) \subseteq Items
  BY <1>1 DEF Missing, Items, Operand, Bulk
<1>7. loop_counts' \in [Sites -> 0..BulkCap]
  BY <1>0, <1>1, <1>4, BoundsAssumption DEF TypeOK, OverCap
<1>8. DOMAIN store' = Symbols
  BY <1>0 DEF RunPlanned, TypeOK
<1>9. TypeOK'
  BY <1>0, <1>3, <1>4, <1>5, <1>6, <1>7, <1>8 DEF TypeOK, Row
<1>10. GatesInv'
  BY <1>0, <1>3, <1>4, <1>5 DEF GatesInv, Approved
<1>11. CountInv'
  <2>1. IsFiniteSet(asked') /\ IsFiniteSet(fresh')
    <3>1. IsFiniteSet(fresh)
      BY <1>0 DEF CountInv
    <3>2. IsFiniteSet(fresh')
      BY <1>3, <3>1, FS_AddElement
    <3>3. QED
      BY <1>0, <1>5, <3>2 DEF CountInv
  <2>2. ASSUME NEW j \in DOMAIN Rules, Rules[j].loop # Nothing, Bulk(j) \notin confirmed'
        PROVE  Iterations(j, fresh') <= loop_counts'[Site(j)]
    <3>1. /\ Iterations(j, fresh) <= loop_counts[Site(j)]
          /\ loop_counts[Site(j)] \in Nat /\ Site(j) \in Sites
      BY <1>0, <1>4, <2>2, BoundsAssumption DEF CountInv, TypeOK, Sites
    <3>2. /\ Iterations(j, fresh) \in Nat /\ Iterations(j, fresh') \in Nat
          /\ Iterations(j, fresh') <= Iterations(j, fresh) + 1
          /\ t[1] # Site(j) => Iterations(j, fresh') = Iterations(j, fresh)
      BY <1>0, <1>3, IterationFacts DEF CountInv
    <3>3. CASE Site(j) # Site(i)
      BY <1>0, <1>1, <1>4, <3>1, <3>2, <3>3 DEF TypeOK
    <3>4. CASE Site(j) = Site(i)
      <4>1. Rules[i].loop # Nothing /\ Bulk(i) = Bulk(j)
        BY <2>2, <3>4, SiteAssumption DEF Bulk
      <4>2. Counted(i) /\ ~OverCap(i)
        BY <1>4, <2>2, <4>1 DEF Counted, Missing
      <4>3. loop_counts'[Site(j)] = loop_counts[Site(j)] + 1
        BY <1>0, <1>1, <1>4, <3>4, <4>2 DEF TypeOK
      <4>4. QED
        BY <3>1, <3>2, <4>3
    <3>5. QED
      BY <3>3, <3>4
  <2>3. QED
    BY <2>1, <2>2 DEF CountInv
<1>12. OperandsAreConfirmed'
  <2> SUFFICES ASSUME NEW j \in DOMAIN Rules, NEW q \in Paths(j),
                      Rules[j].tool \in Gated, ran'[Token(j, q)] # Nothing
               PROVE  Approved(Operand(<<Rules[j].tool, ran'[Token(j, q)].arg>>))
    BY <1>3, <1>5 DEF OperandsAreConfirmed, Approved
  <2>1. CASE ran'[Token(j, q)] = ran[Token(j, q)]
    BY <1>0, <2>1 DEF OperandsAreConfirmed
  <2>2. CASE ran'[Token(j, q)] # ran[Token(j, q)]
    <3>1. Token(j, q) = t /\ ran'[t].arg = c[2]
      BY <1>3, <2>2, TokenFacts
    <3>2. Rules[j].tool = c[1]
      BY <1>1, <3>1, SiteAssumption DEF Token
    <3>3. <<Rules[j].tool, ran'[Token(j, q)].arg>> = c
      BY <1>1, <3>1, <3>2
    <3>4. policy = "approve" \/ Operand(c) \in confirmed
      BY <1>4, <3>2 DEF Missing, Unconfirmed
    <3>5. QED
      BY <1>0, <3>3, <3>4 DEF GatesInv, Approved
  <2>3. QED
    BY <2>1, <2>2
<1>13. ReauthorizationIsExclusive'
  <2>1. \A d \in OffPlan : /\ attempts'[ExternalToken(d)] = attempts[ExternalToken(d)]
                           /\ ran'[ExternalToken(d)] = ran[ExternalToken(d)]
    BY <1>3, TokenFacts, FirstMatches
  <2>2. QED
    BY <1>0, <1>3, <1>5, <2>1 DEF ReauthorizationIsExclusive
<1>14. QED
  BY <1>9, <1>10, <1>11, <1>12, <1>13 DEF SessionInv

\* An approved off-plan call spends its grant; its token is no plan token.
LEMMA RunGrantedStep ==
  ASSUME SessionInv, NEW c \in grants, NEW e \in Ending, RunGranted(c, e)
  PROVE  SessionInv'
<1> DEFINE t == ExternalToken(c)
<1>0. /\ TypeOK /\ GatesInv /\ CountInv
      /\ OperandsAreConfirmed /\ ReauthorizationIsExclusive
  BY DEF SessionInv
<1>1. /\ c \in OffPlan /\ c[2] \in Args /\ t \in Tokens
      /\ <<"external", c>> \in consented
      /\ attempts[t] = "none" /\ c \notin asked \cup denied
  BY <1>0, TokenFacts DEF TypeOK, OffPlan, GatesInv, ReauthorizationIsExclusive
<1>2. Execute(t, c, e)
  BY <1>1 DEF RunGranted
<1>3. /\ attempts' \in Row /\ durable' \in Row
      /\ ran' \in [Tokens -> Dispatch \cup {Nothing}]
      /\ overtaken' \subseteq (Sites \X Sites)
      /\ fresh' \subseteq {u \in Tokens : ran'[u] # Nothing}
      /\ fresh' \in {fresh, fresh \cup {t}}
      /\ \A u \in Tokens \ {t} : attempts'[u] = attempts[u] /\ ran'[u] = ran[u]
      /\ consented' = consented
  BY <1>0, <1>1, <1>2, ExecuteFacts
<1>4. /\ grants' = grants \ {c} /\ asked' = asked /\ denied' = denied
      /\ policy' = policy /\ ordering' = ordering /\ store' = store
      /\ held' = held /\ confirmed' = confirmed /\ loop_counts' = loop_counts
  BY DEF RunGranted, config, gates
<1>5. TypeOK'
  BY <1>0, <1>3, <1>4 DEF TypeOK, Row
<1>6. GatesInv'
  BY <1>0, <1>3, <1>4 DEF GatesInv, Approved
<1>7. CountInv'
  <2>1. IsFiniteSet(fresh')
    BY <1>0, <1>3, FS_AddElement DEF CountInv
  <2>2. \A j \in DOMAIN Rules : Iterations(j, fresh') = Iterations(j, fresh)
    <3>1. \A j \in DOMAIN Rules : t[1] # Site(j)
      BY SiteAssumption DEF ExternalToken, Sites
    <3>2. IsFiniteSet(fresh)
      BY <1>0 DEF CountInv
    <3>3. QED
      BY <1>3, <3>1, <3>2, IterationFacts
  <2>3. QED
    BY <1>0, <1>4, <2>1, <2>2 DEF CountInv
<1>8. \A j \in DOMAIN Rules : \A q \in Paths(j) : ran'[Token(j, q)] = ran[Token(j, q)]
  BY <1>1, <1>3, TokenFacts
<1>9. OperandsAreConfirmed'
  BY <1>0, <1>3, <1>4, <1>8 DEF OperandsAreConfirmed, Approved
<1>10. ReauthorizationIsExclusive'
  <2>1. \A d \in OffPlan \ {c} : /\ attempts'[ExternalToken(d)] = attempts[ExternalToken(d)]
                                 /\ ran'[ExternalToken(d)] = ran[ExternalToken(d)]
    BY <1>1, <1>3, TokenFacts
  <2>2. QED
    BY <1>0, <1>1, <1>3, <1>4, <2>1 DEF ReauthorizationIsExclusive
<1>11. QED
  BY <1>5, <1>6, <1>7, <1>9, <1>10 DEF SessionInv

-----------------------------------------------------------------------------
\* Steps of the user's side: no call runs and no iteration is counted.

\* Such a step keeps what executions and loops left behind.
LEMMA NoExecution ==
  ASSUME SessionInv,
         UNCHANGED <<config, attempts, durable, store, loop_counts, ran, fresh, overtaken>>,
         consented \subseteq consented', consented' \subseteq Items,
         confirmed \subseteq confirmed', confirmed' \subseteq Items,
         \A x \in confirmed' : Approved(x)',
         held' \subseteq Items, held' # {} => policy = "human",
         asked' \subseteq OffPlan, Cardinality(asked') <= MaxPending, IsFiniteSet(asked'),
         grants' \subseteq OffPlan, denied' \subseteq OffPlan,
         \A c \in grants' : <<"external", c>> \in consented',
         \A c \in asked' \cup grants' \cup denied' : attempts[ExternalToken(c)] = "none",
         asked' \cap (grants' \cup denied') = {}, grants' \cap denied' = {}
  PROVE  SessionInv'
<1>0. /\ TypeOK /\ GatesInv /\ CountInv
      /\ OperandsAreConfirmed /\ ReauthorizationIsExclusive
  BY DEF SessionInv
<1>1. TypeOK'
  BY <1>0 DEF TypeOK, config
<1>2. GatesInv'
  BY <1>0 DEF GatesInv, config
<1>3. CountInv'
  BY <1>0 DEF CountInv
<1>4. OperandsAreConfirmed'
  BY <1>0 DEF OperandsAreConfirmed, Approved, config
<1>5. ReauthorizationIsExclusive'
  BY <1>0 DEF ReauthorizationIsExclusive
<1>6. QED
  BY <1>1, <1>2, <1>3, <1>4, <1>5 DEF SessionInv

\* What SessionInv gives a step of the user's side to start from.
LEMMA UserSide ==
  ASSUME SessionInv
  PROVE  /\ consented \subseteq Items /\ confirmed \subseteq Items
         /\ held \subseteq Items /\ (held # {} => policy = "human")
         /\ \A x \in confirmed : Approved(x)
         /\ asked \subseteq OffPlan /\ grants \subseteq OffPlan /\ denied \subseteq OffPlan
         /\ Cardinality(asked) <= MaxPending /\ IsFiniteSet(asked)
         /\ \A c \in grants : <<"external", c>> \in consented
         /\ \A c \in asked \cup grants \cup denied : attempts[ExternalToken(c)] = "none"
         /\ asked \cap (grants \cup denied) = {} /\ grants \cap denied = {}
BY DEF SessionInv, TypeOK, GatesInv, CountInv, ReauthorizationIsExclusive

\* Only policy human holds a call for confirmation.
LEMMA HoldForConfirmationStep ==
  ASSUME SessionInv, NEW c \in Calls, NEW i \in DOMAIN Rules, HoldForConfirmation(c, i)
  PROVE  SessionInv'
<1>1. c \in ToolParams \X Args
  BY DEF HoldForConfirmation, Decides, Authorizes, Calls
<1>2. held' \subseteq Items /\ policy = "human"
  BY <1>1, UserSide DEF HoldForConfirmation, Items, Operand, Bulk, Sites
<1>3. UNCHANGED <<config, attempts, durable, store, loop_counts, ran, fresh, overtaken,
                  consented, confirmed, asked, grants, denied>>
  BY DEF HoldForConfirmation, history, requests
<1>4. QED
  BY <1>2, <1>3, UserSide, NoExecution DEF Approved, config

\* A new request is about a call nothing was decided or attempted of.
LEMMA HoldForReauthorizationStep ==
  ASSUME SessionInv, NEW c \in OffPlan, HoldForReauthorization(c)
  PROVE  SessionInv'
<1>1. /\ asked' = asked \cup {c} /\ c \notin grants /\ c \notin denied /\ c \notin asked
      /\ attempts[ExternalToken(c)] = "none" /\ Cardinality(asked) < MaxPending
  BY DEF HoldForReauthorization, Askable
<1>2. IsFiniteSet(asked') /\ Cardinality(asked') <= MaxPending
  <2>1. IsFiniteSet(asked)
    BY UserSide
  <2>2. IsFiniteSet(asked')
    BY <1>1, <2>1, FS_AddElement
  <2>3. Cardinality(asked) \in Nat /\ Cardinality(asked') \in Nat
    BY <2>1, <2>2, FS_CardinalityType
  <2>4. Cardinality(asked') <= Cardinality(asked) + 1
    BY <1>1, <2>1, OneMore
  <2>5. QED
    BY <1>1, <2>2, <2>3, <2>4, BoundsAssumption
<1>3. UNCHANGED <<config, attempts, durable, store, loop_counts, ran, fresh, overtaken,
                  consented, confirmed, held, grants, denied>>
  BY DEF HoldForReauthorization, history, gates
<1>4. QED
  BY <1>1, <1>2, <1>3, UserSide, NoExecution DEF Approved, config

\* A decision moves a request to the grants or to the refusals.
LEMMA ReauthorizeStep ==
  ASSUME SessionInv, NEW c \in asked, NEW approved \in BOOLEAN, Reauthorize(c, approved)
  PROVE  SessionInv'
<1>1. /\ asked' = asked \ {c} /\ c \in OffPlan
      /\ grants' \in {grants, grants \cup {c}} /\ denied' \in {denied, denied \cup {c}}
      /\ grants' = grants \/ denied' = denied
      /\ consented' \in {consented, consented \cup {<<"external", c>>}}
      /\ grants' # grants => <<"external", c>> \in consented'
  BY UserSide DEF Reauthorize
<1>2. IsFiniteSet(asked') /\ Cardinality(asked') <= MaxPending
  <2>1. IsFiniteSet(asked) /\ Cardinality(asked) <= MaxPending
    BY UserSide
  <2>2. IsFiniteSet(asked') /\ Cardinality(asked') = Cardinality(asked) - 1
    BY <1>1, <2>1, FS_RemoveElement
  <2>3. QED
    BY <2>1, <2>2, FS_CardinalityType, BoundsAssumption
<1>3. <<"external", c>> \in Items
  BY <1>1 DEF Items, OffPlan
<1>4. UNCHANGED <<config, attempts, durable, store, loop_counts, ran, fresh, overtaken,
                  confirmed, held>>
  BY DEF Reauthorize, gates
<1>5. \A x \in confirmed' : Approved(x)'
  BY <1>1, <1>4, UserSide DEF Approved, config
<1>6. \A d \in grants' : <<"external", d>> \in consented'
  BY <1>1, UserSide
<1>7. QED
  BY <1>1, <1>2, <1>3, <1>4, <1>5, <1>6, UserSide, NoExecution

\* What is confirmed was held, hence under policy human, and is consented to.
LEMMA ConfirmStep ==
  ASSUME SessionInv, NEW item \in held, NEW approved \in BOOLEAN, Confirm(item, approved)
  PROVE  SessionInv'
<1>1. /\ held' = held \ {item} /\ item \in Items /\ policy = "human"
      /\ confirmed' \in {confirmed, confirmed \cup {item}}
      /\ consented' \in {consented, consented \cup {item}}
      /\ confirmed' # confirmed => item \in consented'
  BY UserSide DEF Confirm
<1>2. UNCHANGED <<config, attempts, durable, store, loop_counts, ran, fresh, overtaken,
                  asked, grants, denied>>
  BY DEF Confirm, requests
<1>3. \A x \in confirmed' : Approved(x)'
  BY <1>1, <1>2, UserSide DEF Approved, config
<1>4. QED
  BY <1>1, <1>2, <1>3, UserSide, NoExecution

-----------------------------------------------------------------------------
\* Steps that end in a restart.

\* A restored session has an empty gate and an empty queue.
LEMMA RestoredFacts ==
  ASSUME SessionInv, NEW row \in Row, Restored(row),
         UNCHANGED <<config, consented>>,
         ran' \in [Tokens -> Dispatch \cup {Nothing}],
         overtaken' \subseteq (Sites \X Sites),
         OperandsAreConfirmed',
         \A c \in OffPlan : ran'[ExternalToken(c)] # Nothing => <<"external", c>> \in consented
  PROVE  SessionInv'
<1>1. TypeOK'
  <2>1. Cardinality({}) <= MaxPending
    BY FS_EmptySet, BoundsAssumption
  <2>2. [k \in Sites |-> 0] \in [Sites -> 0..BulkCap]
    BY BoundsAssumption
  <2>3. QED
    BY <2>1, <2>2 DEF SessionInv, TypeOK, Restored, Row, config
<1>2. GatesInv'
  BY DEF Restored, GatesInv
<1>3. CountInv'
  <2>1. \A i \in DOMAIN Rules : Iterations(i, {}) = 0
    <3>1. \A i \in DOMAIN Rules : {u \in {} : u[1] = Site(i)} = {}
      OBVIOUS
    <3>2. QED
      BY <3>1, FS_EmptySet DEF Iterations
  <2>2. \A i \in DOMAIN Rules : loop_counts'[Site(i)] = 0
    BY DEF Restored, Sites
  <2>3. fresh' = {} /\ asked' = {} /\ IsFiniteSet({})
    BY FS_EmptySet DEF Restored
  <2>4. QED
    BY <2>1, <2>2, <2>3 DEF CountInv
<1>4. ReauthorizationIsExclusive'
  BY DEF Restored, ReauthorizationIsExclusive
<1>5. QED
  BY <1>1, <1>2, <1>3, <1>4 DEF SessionInv

\* A restart between two calls.
LEMMA RestartStep == SessionInv /\ Restart => SessionInv'
<1> SUFFICES ASSUME SessionInv, Restart PROVE SessionInv'
  OBVIOUS
<1>1. Normalized(durable) \in Row
  BY DEF SessionInv, TypeOK, Row, Normalized, Attempt
<1>2. /\ Restored(Normalized(durable))
      /\ UNCHANGED <<config, consented, ran, overtaken>>
  BY DEF Restart
<1>3. OperandsAreConfirmed'
  BY <1>2 DEF SessionInv, OperandsAreConfirmed, Approved, config
<1>4. QED
  BY <1>1, <1>2, <1>3, RestoredFacts DEF SessionInv, TypeOK, ReauthorizationIsExclusive

\* The daemon dies in a planned call that had passed its gate.
LEMMA DieDuringPlannedStep ==
  ASSUME SessionInv, NEW c \in Calls, NEW i \in DOMAIN Rules, NEW p \in First(i, c),
         Decides(i, c), DieDuringPlanned(c, i, p)
  PROVE  SessionInv'
<1> DEFINE t == Token(i, p)
           row == Normalized([attempts EXCEPT ![t] = "started"])
<1>0. TypeOK /\ GatesInv /\ OperandsAreConfirmed /\ ReauthorizationIsExclusive
  BY DEF SessionInv
<1>1. /\ c \in ToolParams \X Args /\ c[1] = Rules[i].tool /\ t \in Tokens
      /\ policy # "approve" => Missing(i, c) = {}
  BY TokenFacts, FirstMatches DEF DieDuringPlanned, Decides, Authorizes, Calls, Token
<1>2. row \in Row
  BY <1>0, <1>1 DEF TypeOK, Row, Normalized, Attempt
<1>3. /\ Restored(row) /\ UNCHANGED <<config, consented>>
      /\ Dispatched(t, c, "unknown") \/ UNCHANGED <<ran, overtaken>>
  BY DEF DieDuringPlanned, Die
<1>4. /\ ran' \in [Tokens -> Dispatch \cup {Nothing}]
      /\ overtaken' \subseteq (Sites \X Sites)
      /\ \A u \in Tokens \ {t} : ran'[u] = ran[u]
      /\ ran'[t] = ran[t] \/ ran'[t].arg = c[2]
  <2>1. CASE Dispatched(t, c, "unknown")
    <3>1. c[2] \in Args
      BY <1>1
    <3>2. QED
      BY <1>0, <1>1, <2>1, <3>1, DispatchedFacts
  <2>2. CASE UNCHANGED <<ran, overtaken>>
    BY <1>0, <2>2 DEF TypeOK
  <2>3. QED
    BY <1>3, <2>1, <2>2
<1>5. OperandsAreConfirmed'
  <2> SUFFICES ASSUME NEW j \in DOMAIN Rules, NEW q \in Paths(j),
                      Rules[j].tool \in Gated, ran'[Token(j, q)] # Nothing
               PROVE  Approved(Operand(<<Rules[j].tool, ran'[Token(j, q)].arg>>))
    BY <1>3 DEF OperandsAreConfirmed, Approved, config
  <2>1. CASE ran'[Token(j, q)] = ran[Token(j, q)]
    BY <1>0, <2>1 DEF OperandsAreConfirmed
  <2>2. CASE ran'[Token(j, q)] # ran[Token(j, q)]
    <3>1. Token(j, q) = t /\ ran'[t].arg = c[2]
      BY <1>4, <2>2, TokenFacts
    <3>2. Rules[j].tool = c[1]
      BY <1>1, <3>1, SiteAssumption DEF Token
    <3>3. <<Rules[j].tool, ran'[Token(j, q)].arg>> = c
      BY <1>1, <3>1, <3>2
    <3>4. policy = "approve" \/ Operand(c) \in confirmed
      BY <1>1, <3>2 DEF Missing, Unconfirmed
    <3>5. QED
      BY <1>0, <3>3, <3>4 DEF GatesInv, Approved
  <2>3. QED
    BY <2>1, <2>2
<1>6. \A d \in OffPlan : ran'[ExternalToken(d)] # Nothing => <<"external", d>> \in consented
  BY <1>0, <1>4, TokenFacts, FirstMatches DEF ReauthorizationIsExclusive
<1>7. QED
  BY <1>2, <1>3, <1>4, <1>5, <1>6, RestoredFacts

\* The daemon dies in an off-plan call the user had approved.
LEMMA DieDuringGrantedStep ==
  ASSUME SessionInv, NEW c \in grants, DieDuringGranted(c)
  PROVE  SessionInv'
<1> DEFINE t == ExternalToken(c)
           row == Normalized([attempts EXCEPT ![t] = "started"])
<1>0. TypeOK /\ GatesInv /\ OperandsAreConfirmed /\ ReauthorizationIsExclusive
  BY DEF SessionInv
<1>1. /\ c \in OffPlan /\ c[2] \in Args /\ t \in Tokens
      /\ <<"external", c>> \in consented
  BY <1>0, TokenFacts DEF TypeOK, OffPlan, GatesInv
<1>2. row \in Row
  BY <1>0, <1>1 DEF TypeOK, Row, Normalized, Attempt
<1>3. /\ Restored(row) /\ UNCHANGED <<config, consented>>
      /\ Dispatched(t, c, "unknown") \/ UNCHANGED <<ran, overtaken>>
  BY DEF DieDuringGranted, Die
<1>4. /\ ran' \in [Tokens -> Dispatch \cup {Nothing}]
      /\ overtaken' \subseteq (Sites \X Sites)
      /\ \A u \in Tokens \ {t} : ran'[u] = ran[u]
  <2>1. CASE Dispatched(t, c, "unknown")
    BY <1>0, <1>1, <2>1, DispatchedFacts
  <2>2. CASE UNCHANGED <<ran, overtaken>>
    BY <1>0, <2>2 DEF TypeOK
  <2>3. QED
    BY <1>3, <2>1, <2>2
<1>5. OperandsAreConfirmed'
  <2>1. \A j \in DOMAIN Rules : \A q \in Paths(j) : ran'[Token(j, q)] = ran[Token(j, q)]
    BY <1>1, <1>4, TokenFacts
  <2>2. QED
    BY <1>0, <1>3, <2>1 DEF OperandsAreConfirmed, Approved, config
<1>6. \A d \in OffPlan : ran'[ExternalToken(d)] # Nothing => <<"external", d>> \in consented
  BY <1>0, <1>1, <1>4, TokenFacts DEF ReauthorizationIsExclusive
<1>7. QED
  BY <1>2, <1>3, <1>4, <1>5, <1>6, RestoredFacts

-----------------------------------------------------------------------------
\* A session starts with nothing run, held, asked or approved.
LEMMA SessionInvInit == Init => SessionInv
<1> SUFFICES ASSUME Init PROVE SessionInv
  OBVIOUS
<1>1. TypeOK
  <2>1. Cardinality({}) <= MaxPending
    BY FS_EmptySet, BoundsAssumption
  <2>2. [k \in Sites |-> 0] \in [Sites -> 0..BulkCap]
    BY BoundsAssumption
  <2>3. QED
    BY <2>1, <2>2 DEF Init, TypeOK, Attempt
<1>2. GatesInv
  BY DEF Init, GatesInv
<1>3. CountInv
  <2>1. \A i \in DOMAIN Rules : {u \in {} : u[1] = Site(i)} = {}
    OBVIOUS
  <2>2. \A i \in DOMAIN Rules : Iterations(i, {}) = 0 /\ loop_counts[Site(i)] = 0
    BY <2>1, FS_EmptySet DEF Iterations, Init, Sites
  <2>3. QED
    BY <2>2, FS_EmptySet DEF Init, CountInv
<1>4. OperandsAreConfirmed
  BY TokenFacts DEF Init, OperandsAreConfirmed
<1>5. ReauthorizationIsExclusive
  BY TokenFacts DEF Init, ReauthorizationIsExclusive
<1>6. QED
  BY <1>1, <1>2, <1>3, <1>4, <1>5 DEF SessionInv

\* One case per action of Next.
LEMMA SessionInvStep == SessionInv /\ [Next]_vars => SessionInv'
<1> SUFFICES ASSUME SessionInv, [Next]_vars PROVE SessionInv'
  OBVIOUS
<1>1. CASE UNCHANGED vars
  <2>1. UNCHANGED <<config, attempts, durable, store, loop_counts, ran, fresh, overtaken,
                    consented, confirmed, held, asked, grants, denied>>
    BY <1>1 DEF vars, requests, gates, history
  <2>2. QED
    BY <2>1, UserSide, NoExecution DEF Approved, config
<1>2. CASE Next
  BY <1>2, RunPlannedStep, RunGrantedStep, HoldForConfirmationStep,
     HoldForReauthorizationStep, ReauthorizeStep, ConfirmStep, RestartStep,
     DieDuringPlannedStep, DieDuringGrantedStep, UserSide DEF Next, PlannedCall
<1>3. QED
  BY <1>1, <1>2

\* The inductive invariant of a session holds of every plan and every policy.
THEOREM SessionInvariant == Spec => []SessionInv
BY SessionInvInit, SessionInvStep, PTL DEF Spec

\* Every variable of a session keeps its type; its queue keeps its limit.
THEOREM SessionTypeCorrect == Spec => []TypeOK
<1>1. SessionInv => TypeOK
  BY DEF SessionInv
<1>2. QED
  BY <1>1, SessionInvariant, PTL

\* An operand derived from untrusted data is approved before a tool gets it,
\* whatever is read again, whatever fails, and wherever the daemon restarts.
THEOREM OperandApproval == Spec => []OperandsAreConfirmed
<1>1. SessionInv => OperandsAreConfirmed
  BY DEF SessionInv
<1>2. QED
  BY <1>1, SessionInvariant, PTL

\* An off-plan call runs on the user's approval of that call, and is never in
\* two states of its request at once.
THEOREM ExclusiveReauthorization == Spec => []ReauthorizationIsExclusive
<1>1. SessionInv => ReauthorizationIsExclusive
  BY DEF SessionInv
<1>2. QED
  BY <1>1, SessionInvariant, PTL

\* Between two restarts no loop passes its cap without approval.
THEOREM BulkApproval == Spec => []BulkIsHeld
<1>1. SessionInv => BulkIsHeld
  <2> SUFFICES ASSUME SessionInv, NEW i \in DOMAIN Rules, Rules[i].loop # Nothing,
                      Iterations(i, fresh) > BulkCap
               PROVE  Approved(Bulk(i))
    BY DEF BulkIsHeld
  <2>1. loop_counts[Site(i)] \in 0..BulkCap
    BY DEF SessionInv, TypeOK, Sites
  <2>2. Iterations(i, fresh) \in Nat
    BY IterationFacts DEF SessionInv, CountInv
  <2>3. Bulk(i) \in confirmed
    BY <2>1, <2>2, BoundsAssumption DEF SessionInv, CountInv
  <2>4. QED
    BY <2>3 DEF SessionInv, GatesInv
<1>2. QED
  BY <1>1, SessionInvariant, PTL
-----------------------------------------------------------------------------
\* Call order and loops.  A token that was dispatched is never free again, in
\* memory or in what a restart would read, and only a returned call succeeded.
FenceInv ==
  \A t \in Tokens :
    /\ ran[t] # Nothing => attempts[t] # "none" /\ durable[t] # "none"
    /\ "succeeded" \in {attempts[t], durable[t]}
         => ran[t] # Nothing /\ ran[t].outcome = "returned"

\* The call whose result is stored under s was made.
Produced(s) == \E k \in Producers(s) : ran[Token(k, <<>>)] # Nothing

\* What is observed has been produced.
ObservedInv == \A s \in Symbols : store[s] # Nothing => Produced(s)

\* A guard of rule j was found false, or found true, for good: restarts lose the
\* observation, and no call makes it again.
Dead(j) == \E g \in Rules[j].guard : store[g.on] # g.is /\ Produced(g.on)
Due(j) == \A g \in Rules[j].guard : store[g.on] \in {Nothing, g.is} /\ Produced(g.on)

Alternatives(j) == {k \in DOMAIN Rules : Site(k) = Site(j)}
Ran(i) == \E p \in Paths(i) : ran[Token(i, p)] # Nothing
Returned(j) ==
  /\ ran[Token(j, <<>>)] # Nothing
  /\ ran[Token(j, <<>>)].outcome = "returned"

\* A site that others wait for was called because a rule of it was due.
DueInv ==
  \A i, j \in DOMAIN Rules :
    Precedes(j, i) /\ Ran(j) => \E k \in Alternatives(j) : Due(k)

\* Where a site was called, those before it have returned or never will be.
OrderInv ==
  ordering => \A i, j \in DOMAIN Rules :
    Precedes(j, i) /\ Ran(i) =>
      Returned(j) \/ (~ Ran(j) /\ \A k \in Alternatives(j) : Dead(k))

\* The iterations of loop i went through the elements of seq, by position, and
\* whatever is observed of its collection is seq.
Follows(i, seq) ==
  /\ \A p \in Paths(i) : ran[Token(i, p)] # Nothing =>
       p[1] \in DOMAIN seq /\ ran[Token(i, p)].arg = seq[p[1]]
  /\ Rules[i].loop.op = "obs" =>
       /\ store[Rules[i].loop.v] \in {Nothing, seq}
       /\ Ran(i) => Produced(Rules[i].loop.v)
LoopInv ==
  \A i \in DOMAIN Rules : Rules[i].loop # Nothing =>
    \E seq \in Collections(i) : Follows(i, seq)

\* A changed row: the other tokens keep their attempts.
LEMMA RowChange ==
  ASSUME NEW row \in Row, NEW t \in Tokens, NEW a \in Attempt
  PROVE  /\ [row EXCEPT ![t] = a][t] = a
         /\ \A u \in Tokens \ {t} : [row EXCEPT ![t] = a][u] = row[u]
BY DEF Row

\* An execution of a free token keeps the fence: the reservation is written, or
\* the tool is not called.
LEMMA ExecuteKeepsFence ==
  ASSUME TypeOK, FenceInv, NEW t \in Tokens, attempts[t] = "none",
         NEW c, c[2] \in Args, NEW e \in Ending, Execute(t, c, e)
  PROVE  FenceInv'
<1> DEFINE row(a) == [attempts EXCEPT ![t] = a]
<1>1. attempts \in Row /\ durable \in Row /\ ran \in [Tokens -> Dispatch \cup {Nothing}]
  BY DEF TypeOK, Row
<1>2. \A a \in Attempt : row(a)[t] = a /\ \A u \in Tokens \ {t} : row(a)[u] = attempts[u]
  BY <1>1, RowChange
<1>3. /\ attempts' = row(Settled(e)) /\ durable' \in Persisted(t, e)
      /\ e # "unwritten" =>
           Dispatched(t, c, IF e = "raised" THEN "unknown" ELSE "returned")
      /\ e = "unwritten" => ran' = ran
  BY DEF Execute
<1>4. Settled(e) \in Attempt
  BY DEF Settled, Attempt, Ending
<1>5. ASSUME NEW u \in Tokens \ {t}
      PROVE  /\ attempts'[u] = attempts[u] /\ durable'[u] \in {durable[u], attempts[u]}
             /\ ran'[u] = ran[u]
  <2>1. attempts'[u] = attempts[u]
    BY <1>2, <1>3, <1>4
  <2>2. durable'[u] \in {durable[u], attempts[u]}
    <3>1. durable' \in {durable, row("started"), row("indeterminate"), row("succeeded")}
      BY <1>3 DEF Persisted, Ending
    <3>2. QED
      BY <1>2, <3>1 DEF Attempt
  <2>3. ran'[u] = ran[u]
    BY <1>1, <1>3 DEF Dispatched
  <2>4. QED
    BY <2>1, <2>2, <2>3
<1>6. ran[t] = Nothing /\ durable[t] # "succeeded"
  BY DEF FenceInv
<1>7. CASE e = "unwritten"
  <2>1. attempts'[t] = "started" /\ durable'[t] \in {durable[t], "started"} /\ ran'[t] = Nothing
    BY <1>2, <1>3, <1>6, <1>7 DEF Settled, Persisted, Attempt
  <2>2. QED
    BY <1>5, <1>6, <2>1 DEF FenceInv
<1>8. CASE e # "unwritten"
  <2> DEFINE outcome == IF e = "raised" THEN "unknown" ELSE "returned"
  <2>1. ran'[t] = [arg |-> c[2], outcome |-> outcome]
    BY <1>1, <1>3, <1>8 DEF Dispatched
  <2>2. ran'[t] # Nothing /\ ran'[t].outcome = outcome
    <3>1. [arg |-> c[2], outcome |-> outcome] \in Dispatch
      BY DEF Dispatch
    <3>2. QED
      BY <2>1, <3>1, NothingAssumption
  <2>3. /\ attempts'[t] = Settled(e)
        /\ durable'[t] \in {"started", "indeterminate", "succeeded"}
        /\ e = "raised" => durable'[t] # "succeeded"
    BY <1>2, <1>3, <1>4, <1>8 DEF Persisted, Ending, Attempt
  <2>4. QED
    BY <1>5, <1>8, <2>2, <2>3 DEF FenceInv, Settled, Ending
<1>9. QED
  BY <1>7, <1>8

\* A restart frees no token of a row it restores, and makes no success.
LEMMA NormalizedFacts ==
  ASSUME NEW row \in Row, NEW t \in Tokens
  PROVE  /\ Normalized(row)[t] = "none" <=> row[t] = "none"
         /\ Normalized(row)[t] = "succeeded" <=> row[t] = "succeeded"
         /\ row[t] = "started" => Normalized(row)[t] = "indeterminate"
BY DEF Row, Normalized, Attempt

\* A crash in a call leaves the reservation on disk, and a restart finds it.
LEMMA DieKeepsFence ==
  ASSUME TypeOK, FenceInv, NEW t \in Tokens, attempts[t] = "none",
         NEW c, c[2] \in Args, Die(c, t)
  PROVE  FenceInv'
<1> DEFINE row == [attempts EXCEPT ![t] = "started"]
<1>1. attempts \in Row /\ ran \in [Tokens -> Dispatch \cup {Nothing}]
  BY DEF TypeOK, Row
<1>2. row \in Row /\ row[t] = "started" /\ \A u \in Tokens \ {t} : row[u] = attempts[u]
  BY <1>1, RowChange, RowFacts DEF Attempt
<1>3. attempts' = Normalized(row) /\ durable' = Normalized(row)
  BY DEF Die, Restored
<1>4. \A u \in Tokens \ {t} : ran'[u] = ran[u]
  BY <1>1 DEF Die, Dispatched
<1>5. attempts'[t] = "indeterminate" /\ durable'[t] = "indeterminate"
  BY <1>2, <1>3, NormalizedFacts
<1> HIDE DEF row
<1>6. \A u \in Tokens \ {t} :
        /\ attempts'[u] = "none" <=> attempts[u] = "none"
        /\ durable'[u] = "none" <=> attempts[u] = "none"
        /\ "succeeded" \in {attempts'[u], durable'[u]} => attempts[u] = "succeeded"
  BY <1>2, <1>3, NormalizedFacts
<1>7. QED
  BY <1>4, <1>5, <1>6 DEF FenceInv

\* A restart between two calls keeps the fence as well.
LEMMA RestartKeepsFence == TypeOK /\ FenceInv /\ Restart => FenceInv'
<1> SUFFICES ASSUME TypeOK, FenceInv, Restart PROVE FenceInv'
  OBVIOUS
<1>1. durable \in Row
  BY DEF TypeOK, Row
<1>2. attempts' = Normalized(durable) /\ durable' = Normalized(durable) /\ ran' = ran
  BY DEF Restart, Restored
<1>3. \A u \in Tokens :
        /\ attempts'[u] = "none" <=> durable[u] = "none"
        /\ durable'[u] = "none" <=> durable[u] = "none"
        /\ "succeeded" \in {attempts'[u], durable'[u]} => durable[u] = "succeeded"
  BY <1>1, <1>2, NormalizedFacts
<1>4. QED
  BY <1>2, <1>3 DEF FenceInv

LEMMA FenceInit == Init => FenceInv
BY TokenFacts DEF Init, FenceInv

LEMMA FenceStep == SessionInv /\ FenceInv /\ [Next]_vars => FenceInv'
<1> SUFFICES ASSUME SessionInv, FenceInv, [Next]_vars PROVE FenceInv'
  OBVIOUS
<1>0. TypeOK /\ ReauthorizationIsExclusive
  BY DEF SessionInv
<1>1. ASSUME NEW c \in Calls, NEW i \in DOMAIN Rules, NEW p \in First(i, c), Decides(i, c)
      PROVE  c[2] \in Args /\ Token(i, p) \in Tokens /\ attempts[Token(i, p)] = "none"
  BY <1>1, TokenFacts, FirstMatches DEF Decides, Authorizes, Calls, Matches
<1>2. ASSUME NEW c \in grants
      PROVE  c[2] \in Args /\ ExternalToken(c) \in Tokens /\ attempts[ExternalToken(c)] = "none"
  BY <1>0, TokenFacts DEF TypeOK, OffPlan, ReauthorizationIsExclusive
<1>3. ASSUME NEW c \in Calls, NEW i \in DOMAIN Rules, NEW p \in First(i, c), Decides(i, c)
      PROVE  /\ \A e \in Ending : RunPlanned(c, i, p, e) => FenceInv'
             /\ DieDuringPlanned(c, i, p) => FenceInv'
  <2>1. ASSUME NEW e \in Ending, RunPlanned(c, i, p, e) PROVE FenceInv'
    BY <1>0, <1>1, <1>3, <2>1, ExecuteKeepsFence DEF RunPlanned
  <2>2. ASSUME DieDuringPlanned(c, i, p) PROVE FenceInv'
    BY <1>0, <1>1, <1>3, <2>2, DieKeepsFence DEF DieDuringPlanned
  <2> QED
    BY <2>1, <2>2
<1>4. ASSUME NEW c \in grants
      PROVE  /\ \A e \in Ending : RunGranted(c, e) => FenceInv'
             /\ DieDuringGranted(c) => FenceInv'
  <2>1. ASSUME NEW e \in Ending, RunGranted(c, e) PROVE FenceInv'
    BY <1>0, <1>2, <2>1, ExecuteKeepsFence DEF RunGranted
  <2>2. ASSUME DieDuringGranted(c) PROVE FenceInv'
    BY <1>0, <1>2, <2>2, DieKeepsFence DEF DieDuringGranted
  <2> QED
    BY <2>1, <2>2
<1>5. CASE \/ \E c \in Calls, i \in DOMAIN Rules : HoldForConfirmation(c, i)
           \/ \E c \in OffPlan : HoldForReauthorization(c)
           \/ \E c \in asked, approved \in BOOLEAN : Reauthorize(c, approved)
           \/ \E item \in held, approved \in BOOLEAN : Confirm(item, approved)
           \/ UNCHANGED vars
  <2>1. UNCHANGED <<attempts, durable, ran>>
    BY <1>5 DEF HoldForConfirmation, HoldForReauthorization, Reauthorize, Confirm, vars, history
  <2> QED
    BY <2>1 DEF FenceInv
<1> QED
  BY <1>0, <1>3, <1>4, <1>5, RestartKeepsFence DEF Next, PlannedCall

-----------------------------------------------------------------------------
\* What the steps do to calls, order and observations.

Lost == [s \in Symbols |-> Nothing]

\* No tool is called.
Quiet == UNCHANGED <<ran, overtaken>> /\ store' \in {store, Lost}

\* An approved call of a tool outside the plan.
External(c) ==
  /\ c \in OffPlan /\ attempts[ExternalToken(c)] = "none"
  /\ \E outcome \in {"returned", "unknown"} : Dispatched(ExternalToken(c), c, outcome)
  /\ store' \in {store, Lost}

\* What rule i returned is stored, or is not observed.
Observes(i) ==
  \/ store' \in {store, Lost}
  \/ /\ Rules[i].loop = Nothing
     /\ \E v \in Results[Rules[i].tool] : store' = [store EXCEPT ![Rules[i].sym] = v]

\* A call of rule i at a free token.
ByPlan(c, i, p) ==
  /\ c[2] \in Args /\ Authorizes(i, c) /\ p \in Matches(i, c)
  /\ \E outcome \in {"returned", "unknown"} : Dispatched(Token(i, p), c, outcome)
  /\ Observes(i)

LEMMA Moves ==
  ASSUME SessionInv, [Next]_vars
  PROVE  /\ ordering' = ordering
         /\ \/ Quiet
            \/ \E c : External(c)
            \/ \E c : \E i \in DOMAIN Rules : \E p \in Paths(i) : ByPlan(c, i, p)
<1> DEFINE Goal == /\ ordering' = ordering
                   /\ \/ Quiet
                      \/ \E c : External(c)
                      \/ \E c : \E i \in DOMAIN Rules : \E p \in Paths(i) : ByPlan(c, i, p)
<1>0. TypeOK /\ ReauthorizationIsExclusive
  BY DEF SessionInv
<1>1. ASSUME NEW c \in Calls, NEW i \in DOMAIN Rules, NEW p \in First(i, c), Decides(i, c)
      PROVE  /\ c[2] \in Args /\ c[1] = Rules[i].tool
             /\ Authorizes(i, c) /\ p \in Matches(i, c)
  BY <1>1, FirstMatches DEF Decides, Authorizes, Calls
<1>2. ASSUME NEW c \in Calls, NEW i \in DOMAIN Rules, NEW p \in First(i, c), NEW e \in Ending,
             Decides(i, c), RunPlanned(c, i, p, e)
      PROVE  Goal
  <2>1. ordering' = ordering
    BY <1>2 DEF RunPlanned, config
  <2>2. Execute(Token(i, p), c, e)
    BY <1>2 DEF RunPlanned
  <2>3. CASE e = "unwritten"
    BY <1>2, <2>1, <2>2, <2>3 DEF Execute, Quiet, RunPlanned
  <2>4. CASE e # "unwritten"
    <3>1. \E outcome \in {"returned", "unknown"} : Dispatched(Token(i, p), c, outcome)
      BY <2>2, <2>4 DEF Execute
    <3>2. c[2] \in Args /\ c[1] = Rules[i].tool /\ Authorizes(i, c) /\ p \in Matches(i, c)
      BY <1>1, <1>2 DEF RunPlanned
    <3>3. Observes(i)
      BY <1>2, <3>2 DEF RunPlanned, Observes
    <3> QED
      BY <2>1, <3>1, <3>2, <3>3, FirstMatches DEF ByPlan
  <2> QED
    BY <2>3, <2>4
<1>3. ASSUME NEW c \in Calls, NEW i \in DOMAIN Rules, NEW p \in First(i, c),
             Decides(i, c), DieDuringPlanned(c, i, p)
      PROVE  Goal
  <2>1. /\ ordering' = ordering /\ store' = Lost
        /\ Dispatched(Token(i, p), c, "unknown") \/ UNCHANGED <<ran, overtaken>>
    BY <1>3 DEF DieDuringPlanned, Die, Restored, config, Lost
  <2>2. c[2] \in Args /\ Authorizes(i, c) /\ p \in Matches(i, c)
    BY <1>1, <1>3 DEF DieDuringPlanned
  <2> QED
    BY <2>1, <2>2, FirstMatches DEF ByPlan, Observes, Quiet
<1>4. ASSUME NEW c \in grants, NEW e \in Ending, RunGranted(c, e)
      PROVE  Goal
  <2>1. /\ ordering' = ordering /\ store' = store /\ c \in OffPlan
        /\ attempts[ExternalToken(c)] = "none"
        /\ Execute(ExternalToken(c), c, e) \/ UNCHANGED <<ran, overtaken>>
    BY <1>0, <1>4 DEF RunGranted, config, history, TypeOK, ReauthorizationIsExclusive
  <2>2. Execute(ExternalToken(c), c, e) =>
          \/ UNCHANGED <<ran, overtaken>>
          \/ \E outcome \in {"returned", "unknown"} : Dispatched(ExternalToken(c), c, outcome)
    BY DEF Execute
  <2> QED
    BY <2>1, <2>2 DEF Quiet, External
<1>5. ASSUME NEW c \in grants, DieDuringGranted(c)
      PROVE  Goal
  <2>1. /\ ordering' = ordering /\ store' = Lost /\ c \in OffPlan
        /\ attempts[ExternalToken(c)] = "none"
        /\ Dispatched(ExternalToken(c), c, "unknown") \/ UNCHANGED <<ran, overtaken>>
    BY <1>0, <1>5 DEF DieDuringGranted, Die, Restored, config, Lost, TypeOK
  <2> QED
    BY <2>1 DEF Quiet, External
<1>6. CASE \/ \E c \in Calls, i \in DOMAIN Rules : HoldForConfirmation(c, i)
           \/ \E c \in OffPlan : HoldForReauthorization(c)
           \/ \E c \in asked, approved \in BOOLEAN : Reauthorize(c, approved)
           \/ \E item \in held, approved \in BOOLEAN : Confirm(item, approved)
           \/ Restart
           \/ UNCHANGED vars
  BY <1>6 DEF HoldForConfirmation, HoldForReauthorization, Reauthorize, Confirm, Restart,
              Restored, vars, history, config, Quiet, Lost
<1> QED
  BY <1>2, <1>3, <1>4, <1>5, <1>6 DEF Next, PlannedCall

\* The rules of a site have one place in the order.
LEMMA OnePlaceInOrder ==
  ASSUME NEW i \in DOMAIN Rules, NEW j \in DOMAIN Rules, Precedes(j, i)
  PROVE  /\ \A k \in Alternatives(j) : Precedes(k, i)
         /\ \A k \in Alternatives(i) : Precedes(j, k)
<1>1. DOMAIN Rules \subseteq Nat
  BY PlanOrderAssumption
<1>2. ASSUME NEW k \in Alternatives(j) PROVE Precedes(k, i)
  <2>1. k < i
    BY <1>1, <1>2, PlanOrderAssumption DEF Precedes, Alternatives
  <2> QED
    BY <1>2, <2>1, SiteAssumption DEF Precedes, Alternatives
<1>3. ASSUME NEW k \in Alternatives(i) PROVE Precedes(j, k)
  <2>1. j < k
    BY <1>1, <1>3, PlanOrderAssumption DEF Precedes, Alternatives
  <2> QED
    BY <1>3, <2>1, SiteAssumption DEF Precedes, Alternatives
<1> QED
  BY <1>2, <1>3

\* A call by the plan is the first one at its token.
LEMMA ByPlanFacts ==
  ASSUME SessionInv, FenceInv,
         NEW c, NEW i \in DOMAIN Rules, NEW p \in Paths(i), ByPlan(c, i, p)
  PROVE  /\ Token(i, p) \in Tokens
         /\ attempts[Token(i, p)] = "none" /\ ran[Token(i, p)] = Nothing
         /\ ran'[Token(i, p)] # Nothing /\ ran'[Token(i, p)].arg = c[2]
         /\ \A u \in Tokens \ {Token(i, p)} : ran'[u] = ran[u]
         /\ GuardsHold(i) /\ OrderOK(i)
<1>1. Token(i, p) \in Tokens /\ attempts[Token(i, p)] = "none"
  BY TokenFacts DEF ByPlan, Matches
<1>2. PICK outcome \in {"returned", "unknown"} : Dispatched(Token(i, p), c, outcome)
  BY DEF ByPlan
<1>3. /\ ran'[Token(i, p)] # Nothing /\ ran'[Token(i, p)].arg = c[2]
      /\ \A u \in Tokens \ {Token(i, p)} : ran'[u] = ran[u]
  BY <1>1, <1>2, DispatchedFacts DEF SessionInv, ByPlan
<1> QED
  BY <1>1, <1>3 DEF FenceInv, ByPlan, Authorizes

\* No other step makes a plan's call, and no step makes one again.
LEMMA RanStays ==
  ASSUME SessionInv, FenceInv, [Next]_vars
  PROVE  /\ \A u \in Tokens : ran[u] # Nothing => ran'[u] = ran[u]
         /\ \/ \E c : \E i \in DOMAIN Rules : \E p \in Paths(i) : ByPlan(c, i, p)
            \/ \A i \in DOMAIN Rules : \A p \in Paths(i) : ran'[Token(i, p)] = ran[Token(i, p)]
<1>1. CASE Quiet
  BY <1>1, TokenFacts DEF Quiet
<1>2. ASSUME NEW c, External(c)
      PROVE  /\ \A u \in Tokens : ran[u] # Nothing => ran'[u] = ran[u]
             /\ \A i \in DOMAIN Rules : \A p \in Paths(i) :
                  ran'[Token(i, p)] = ran[Token(i, p)]
  <2>0. ran \in [Tokens -> Dispatch \cup {Nothing}]
    BY DEF SessionInv, TypeOK
  <2>1. c \in OffPlan /\ ExternalToken(c) \in Tokens
    BY <1>2, TokenFacts DEF External
  <2>2. \A u \in Tokens \ {ExternalToken(c)} : ran'[u] = ran[u]
    BY <1>2, <2>0 DEF External, Dispatched
  <2>3. \A i \in DOMAIN Rules : \A p \in Paths(i) :
          Token(i, p) \in Tokens \ {ExternalToken(c)}
    BY <2>1, TokenFacts
  <2>4. ran[ExternalToken(c)] = Nothing
    BY <1>2, <2>1 DEF FenceInv, External
  <2> QED
    BY <2>2, <2>3, <2>4
<1>3. ASSUME NEW c, NEW i \in DOMAIN Rules, NEW p \in Paths(i), ByPlan(c, i, p)
      PROVE  \A u \in Tokens : ran[u] # Nothing => ran'[u] = ran[u]
  BY <1>3, ByPlanFacts
<1> QED
  BY <1>1, <1>2, <1>3, Moves

\* A text that is observed once keeps its value until a restart loses it.
LEMMA ObservationStays ==
  ASSUME SessionInv, FenceInv, [Next]_vars, NEW s \in Symbols, Produced(s)
  PROVE  Produced(s)' /\ (ObservedOnce(s) => store'[s] \in {store[s], Nothing})
<1>1. PICK k \in Producers(s) : ran[Token(k, <<>>)] # Nothing
  BY DEF Produced
<1>2. <<>> \in Paths(k) /\ Token(k, <<>>) \in Tokens
  BY TokenFacts DEF Producers, Paths
<1>3. Produced(s)'
  BY <1>1, <1>2, RanStays DEF Produced
<1>4. ASSUME ObservedOnce(s) PROVE store'[s] \in {store[s], Nothing}
  <2>1. DOMAIN store = Symbols
    BY DEF SessionInv, TypeOK
  <2>2. CASE store' \in {store, Lost}
    BY <2>2 DEF Lost
  <2>3. ASSUME NEW c, NEW i \in DOMAIN Rules, NEW p \in Paths(i), ByPlan(c, i, p),
               Rules[i].loop = Nothing, NEW v, store' = [store EXCEPT ![Rules[i].sym] = v]
        PROVE  store'[s] = store[s]
    <3>1. Rules[i].sym # s
      <4>1. SUFFICES ASSUME Rules[i].sym = s PROVE FALSE
        OBVIOUS
      <4>2. Site(i) = Site(k) /\ p = <<>>
        BY <1>1, <1>4, <2>3, <4>1 DEF ObservedOnce, Producers, Paths
      <4>3. ran[Token(k, <<>>)] = Nothing
        BY <2>3, <4>2, ByPlanFacts DEF Token
      <4> QED
        BY <1>1, <4>3
    <3> QED
      BY <2>1, <2>3, <3>1
  <2> QED
    BY <2>2, <2>3, Moves DEF Quiet, External, ByPlan, Observes
<1> QED
  BY <1>3, <1>4

LEMMA ObservedInit == Init => ObservedInv
BY DEF Init, ObservedInv

LEMMA ObservedStep ==
  ASSUME SessionInv, FenceInv, ObservedInv, [Next]_vars
  PROVE  ObservedInv'
<1> SUFFICES ASSUME NEW s \in Symbols, store'[s] # Nothing PROVE Produced(s)'
  BY DEF ObservedInv
<1>1. CASE store[s] # Nothing
  BY <1>1, ObservationStays DEF ObservedInv
<1>2. CASE store[s] = Nothing
  <2>1. store' \notin {store, Lost}
    BY <1>2 DEF Lost
  <2>2. PICK c : \E i \in DOMAIN Rules : \E p \in Paths(i) : ByPlan(c, i, p)
    BY <2>1, Moves DEF Quiet, External
  <2>3. PICK i \in DOMAIN Rules : \E p \in Paths(i) : ByPlan(c, i, p)
    BY <2>2
  <2>4. PICK p \in Paths(i) : ByPlan(c, i, p)
    BY <2>3
  <2>5. Rules[i].loop = Nothing /\ Rules[i].sym = s
    BY <1>2, <2>1, <2>4 DEF ByPlan, Observes, SessionInv, TypeOK
  <2>6. i \in Producers(s) /\ p = <<>>
    BY <2>5 DEF Producers, Paths
  <2> QED
    BY <2>4, <2>6, ByPlanFacts DEF Produced
<1> QED
  BY <1>1, <1>2

-----------------------------------------------------------------------------
\* Call order.

\* Sites that run do so by one of their rules, whose guards hold.
LEMMA NewRan ==
  ASSUME SessionInv, FenceInv, [Next]_vars,
         NEW i \in DOMAIN Rules, Ran(i)', ~ Ran(i)
  PROVE  /\ \E k \in Alternatives(i) : GuardsHold(k) /\ OrderOK(k)
         /\ \A j \in DOMAIN Rules : Site(j) # Site(i) => (Ran(j)' <=> Ran(j))
<1>1. PICK q \in Paths(i) : ran'[Token(i, q)] # Nothing /\ ran[Token(i, q)] = Nothing
  BY DEF Ran
<1>2. PICK c : \E k \in DOMAIN Rules : \E p \in Paths(k) : ByPlan(c, k, p)
  BY <1>1, RanStays
<1>3. PICK k \in DOMAIN Rules : \E p \in Paths(k) : ByPlan(c, k, p)
  BY <1>2
<1>4. PICK p \in Paths(k) : ByPlan(c, k, p)
  BY <1>3
<1>5. Token(i, q) = Token(k, p)
  BY <1>1, <1>4, TokenFacts, ByPlanFacts
<1>6. k \in Alternatives(i)
  BY <1>5 DEF Token, Alternatives
<1>7. ASSUME NEW j \in DOMAIN Rules, Site(j) # Site(i), NEW r \in Paths(j)
      PROVE  ran'[Token(j, r)] = ran[Token(j, r)]
  <2>1. Token(j, r) # Token(k, p)
    BY <1>6, <1>7 DEF Token, Alternatives
  <2> QED
    BY <1>4, <2>1, TokenFacts, ByPlanFacts
<1> QED
  BY <1>4, <1>6, <1>7, ByPlanFacts DEF Ran

\* What was found of a guard of an effect others wait for is found for good.
LEMMA FoundForGood ==
  ASSUME SteadyOrder, SessionInv, FenceInv, [Next]_vars,
         NEW i \in DOMAIN Rules, NEW j \in DOMAIN Rules, Precedes(j, i)
  PROVE  (Dead(j) => Dead(j)') /\ (Due(j) => Due(j)')
<1>1. \A g \in Rules[j].guard : g.on \in Symbols /\ g.is # Nothing /\ ObservedOnce(g.on)
  BY SymbolAssumption DEF SteadyOrder
<1>2. \A g \in Rules[j].guard : Produced(g.on) =>
        Produced(g.on)' /\ store'[g.on] \in {store[g.on], Nothing}
  BY <1>1, ObservationStays
<1>3. Dead(j) => Dead(j)'
  BY <1>1, <1>2 DEF Dead
<1>4. Due(j) => Due(j)'
  BY <1>1, <1>2 DEF Due
<1> QED
  BY <1>3, <1>4

LEMMA DueStep ==
  ASSUME SteadyOrder, SessionInv, FenceInv, ObservedInv, DueInv, [Next]_vars
  PROVE  DueInv'
<1> SUFFICES ASSUME NEW i \in DOMAIN Rules, NEW j \in DOMAIN Rules, Precedes(j, i), Ran(j)'
             PROVE  \E k \in Alternatives(j) : Due(k)'
  BY DEF DueInv
<1>1. \A k \in Alternatives(j) : k \in DOMAIN Rules /\ (Due(k) => Due(k)')
  BY OnePlaceInOrder, FoundForGood DEF Alternatives
<1>2. CASE Ran(j)
  BY <1>1, <1>2 DEF DueInv
<1>3. CASE ~ Ran(j)
  <2>1. PICK k \in Alternatives(j) : GuardsHold(k)
    BY <1>3, NewRan
  <2>2. Due(k)
    BY <1>1, <2>1, SymbolAssumption DEF GuardsHold, ObservedInv, Due
  <2> QED
    BY <1>1, <2>2
<1> QED
  BY <1>2, <1>3

\* A site that another waits for has one token.
LEMMA OneToken ==
  ASSUME SteadyOrder, NEW i \in DOMAIN Rules, NEW j \in DOMAIN Rules, Precedes(j, i)
  PROVE  /\ Paths(j) = {<<>>} /\ Token(j, <<>>) \in Tokens
         /\ Ran(j) <=> ran[Token(j, <<>>)] # Nothing
         /\ \A k \in Alternatives(j) : Paths(k) = {<<>>} /\ Token(k, <<>>) = Token(j, <<>>)
<1>1. \A k \in Alternatives(j) : Paths(k) = {<<>>}
  BY OnePlaceInOrder DEF SteadyOrder, Paths, Alternatives
<1>2. j \in Alternatives(j)
  BY DEF Alternatives
<1> QED
  BY <1>1, <1>2, TokenFacts DEF Ran, Token, Alternatives

\* Each site that runs finds those before it returned, or off its path for good.
LEMMA OrderStep ==
  ASSUME SteadyOrder, SessionInv, FenceInv, ObservedInv, DueInv, OrderInv, [Next]_vars
  PROVE  OrderInv'
<1> SUFFICES ASSUME ordering', NEW i \in DOMAIN Rules, NEW j \in DOMAIN Rules,
                    Precedes(j, i), Ran(i)'
             PROVE  Returned(j)' \/ (~ Ran(j)' /\ \A k \in Alternatives(j) : Dead(k)')
  BY DEF OrderInv
<1>1. ordering
  BY Moves
<1>2. Returned(j) => Returned(j)'
  BY OneToken, RanStays DEF Returned
<1>3. \A k \in Alternatives(j) : k \in DOMAIN Rules /\ (Dead(k) => Dead(k)')
  BY OnePlaceInOrder, FoundForGood DEF Alternatives
<1>4. CASE Ran(i)
  <2>1. CASE Returned(j)
    BY <1>2, <2>1
  <2>2. CASE ~ Ran(j) /\ \A k \in Alternatives(j) : Dead(k)
    <3>1. \A k \in Alternatives(j) : ~ GuardsHold(k)
      BY <2>2 DEF Dead, GuardsHold
    <3>2. ~ Ran(j)'
      BY <2>2, <3>1, NewRan
    <3> QED
      BY <1>3, <2>2, <3>2
  <2> QED
    BY <1>1, <1>4, <2>1, <2>2 DEF OrderInv
<1>5. CASE ~ Ran(i)
  <2>1. PICK n \in Alternatives(i) : OrderOK(n)
    BY <1>5, NewRan
  <2>2. \A k \in Alternatives(j) : Precedes(k, n)
    <3>1. Precedes(j, n) /\ n \in DOMAIN Rules
      BY OnePlaceInOrder DEF Alternatives
    <3> QED
      BY <3>1, OnePlaceInOrder
  <2>3. \A k \in Alternatives(j) : SiteUsed(k) \/ Skippable(k)
    BY <1>1, <1>3, <2>1, <2>2 DEF OrderOK
  <2>4. ASSUME NEW k \in Alternatives(j), SiteUsed(k) PROVE Returned(j)
    BY <2>4, OneToken DEF SiteUsed, FenceInv, Returned
  <2>5. ASSUME \A k \in Alternatives(j) : Skippable(k)
        PROVE  ~ Ran(j)' /\ \A k \in Alternatives(j) : Dead(k)
    <3>1. \A k \in Alternatives(j) : Dead(k) /\ ~ Due(k)
      BY <1>3, <2>5, SymbolAssumption DEF Skippable, ObservedInv, Dead, Due
    <3>2. ~ Ran(j)
      BY <3>1 DEF DueInv
    <3>3. Site(j) # Site(i)
      BY DEF Precedes
    <3> QED
      BY <1>5, <3>1, <3>2, <3>3, NewRan
  <2> QED
    BY <1>2, <1>3, <2>3, <2>4, <2>5
<1> QED
  BY <1>4, <1>5

LEMMA NothingOvertakes ==
  ASSUME SteadyOrder, SessionInv, FenceInv, OrderInv, InPlanOrder, [Next]_vars
  PROVE  InPlanOrder'
<1> SUFFICES ASSUME ordering' PROVE overtaken' = {}
  BY DEF InPlanOrder
<1>1. ordering /\ overtaken = {}
  BY Moves DEF InPlanOrder
<1>2. CASE Quiet
  BY <1>1, <1>2 DEF Quiet
<1>3. ASSUME NEW c, External(c) PROVE overtaken' = {}
  <2>1. \A j \in DOMAIN Rules : ExternalToken(c)[1] # Site(j)
    BY SiteAssumption DEF ExternalToken, Sites
  <2> QED
    BY <1>1, <1>3, <2>1 DEF External, Dispatched
<1>4. ASSUME NEW c, NEW n \in DOMAIN Rules, NEW p \in Paths(n), ByPlan(c, n, p)
      PROVE  overtaken' = {}
  <2>1. ASSUME NEW i \in DOMAIN Rules, NEW j \in DOMAIN Rules, Token(n, p)[1] = Site(j),
               Precedes(j, i), Ran(i)
        PROVE  FALSE
    <3>1. n \in Alternatives(j)
      BY <2>1 DEF Token, Alternatives
    <3>2. Token(n, p) = Token(j, <<>>)
      BY <2>1, <3>1, OneToken
    <3>3. ~ Returned(j)
      BY <1>4, <3>2, ByPlanFacts DEF Returned
    <3>4. Dead(n)
      BY <1>1, <2>1, <3>1, <3>3 DEF OrderInv
    <3> QED
      BY <1>4, <3>4, ByPlanFacts DEF Dead, GuardsHold
  <2>2. PICK outcome \in {"returned", "unknown"} : Dispatched(Token(n, p), c, outcome)
    BY <1>4 DEF ByPlan
  <2> QED
    BY <1>1, <2>1, <2>2 DEF Dispatched, Ran
<1> QED
  BY <1>2, <1>3, <1>4, Moves

-----------------------------------------------------------------------------
\* Loops.

\* The collection rule i would range over now.
Current(i) == IF Rules[i].loop.op = "lit" THEN Rules[i].loop.v ELSE store[Rules[i].loop.v]

\* An iteration hands the tool the element at its position.
LEMMA IterationIsElement ==
  ASSUME SteadyLoops, SessionInv, FenceInv,
         NEW c, NEW i \in DOMAIN Rules, NEW p \in Paths(i), ByPlan(c, i, p),
         Rules[i].loop # Nothing
  PROVE  /\ p[1] \in DOMAIN Current(i)
         /\ ran'[Token(i, p)].arg = Current(i)[p[1]]
         /\ Rules[i].loop.op = "obs" => Current(i) # Nothing
<1>1. /\ Rules[i].arg = Elem
      /\ Rules[i].loop.op \in {"lit", "obs"}
  BY DEF SteadyLoops
<1>2. Current(i) = Value(Rules[i].loop, Nothing)
  BY <1>1 DEF Current, Value
<1>3. p # <<>>
  BY DEF Paths
<1>4. /\ p \in ActivePaths(i)
      /\ Value(Rules[i].arg, Element(i, p)) = c[2]
  BY DEF ByPlan, Matches
<1>5. /\ Resolved(Rules[i].loop)
      /\ p[1] \in DOMAIN Current(i)
  BY <1>2, <1>4 DEF ActivePaths
<1>6. c[2] = Current(i)[p[1]]
  BY <1>1, <1>2, <1>3, <1>4 DEF Value, Elem, Element
<1>7. ran'[Token(i, p)].arg = c[2]
  BY ByPlanFacts
<1> QED
  BY <1>5, <1>6, <1>7 DEF Resolved, Current

LEMMA LoopInit == SteadyLoops /\ Init => LoopInv
<1> SUFFICES ASSUME SteadyLoops, Init, NEW i \in DOMAIN Rules, Rules[i].loop # Nothing
             PROVE  \E seq \in Collections(i) : Follows(i, seq)
  BY DEF LoopInv
<1>1. PICK seq \in Collections(i) : TRUE
  BY DEF SteadyLoops
<1>2. \A p \in Paths(i) : ran[Token(i, p)] = Nothing
  BY TokenFacts DEF Init
<1>3. Rules[i].loop.op = "obs" => store[Rules[i].loop.v] = Nothing
  BY DEF Init, SteadyLoops
<1> QED
  BY <1>2, <1>3 DEF Follows, Ran

\* A collection that has been observed is not observed anew, and one that is
\* observed for the first time has not been gone through.
LEMMA LoopStep ==
  ASSUME SteadyLoops, SessionInv, FenceInv, ObservedInv, LoopInv, [Next]_vars
  PROVE  LoopInv'
<1> SUFFICES ASSUME NEW i \in DOMAIN Rules, Rules[i].loop # Nothing
             PROVE  \E seq \in Collections(i) : Follows(i, seq)'
  BY DEF LoopInv
<1> DEFINE s == Rules[i].loop.v
<1>1. PICK seq \in Collections(i) : Follows(i, seq)
  BY DEF LoopInv
<1>2. /\ Rules[i].loop.op \in {"lit", "obs"}
      /\ Rules[i].loop.op = "obs" => s \in Symbols /\ ObservedOnce(s)
      /\ Rules[i].loop.op = "lit" => seq = s
  BY <1>1 DEF SteadyLoops, Collections
<1>3. ASSUME NEW q \in Paths(i), ran'[Token(i, q)] # ran[Token(i, q)]
      PROVE  /\ q[1] \in DOMAIN Current(i)
             /\ ran'[Token(i, q)].arg = Current(i)[q[1]]
             /\ Rules[i].loop.op = "obs" => Current(i) = store[s] /\ Current(i) # Nothing
  <2>1. PICK c : \E k \in DOMAIN Rules : \E p \in Paths(k) : ByPlan(c, k, p)
    BY <1>3, RanStays
  <2>2. PICK k \in DOMAIN Rules : \E p \in Paths(k) : ByPlan(c, k, p)
    BY <2>1
  <2>3. PICK p \in Paths(k) : ByPlan(c, k, p)
    BY <2>2
  <2>4. Token(i, q) = Token(k, p)
    BY <1>3, <2>3, TokenFacts, ByPlanFacts
  <2>5. Site(k) = Site(i) /\ p = q
    BY <2>4 DEF Token
  <2>6. Rules[k].loop = Rules[i].loop
    BY <2>5 DEF SteadyLoops
  <2>7. /\ p[1] \in DOMAIN Current(k)
        /\ ran'[Token(k, p)].arg = Current(k)[p[1]]
        /\ Rules[k].loop.op = "obs" => Current(k) # Nothing
    BY <2>3, <2>6, IterationIsElement
  <2>8. Current(k) = Current(i)
    BY <2>6 DEF Current
  <2> QED
    BY <2>4, <2>5, <2>6, <2>7, <2>8 DEF Current
<1>4. CASE Rules[i].loop.op = "lit" \/ store'[s] \in {store[s], Nothing}
  <2>1. ASSUME NEW q \in Paths(i), ran'[Token(i, q)] # ran[Token(i, q)]
        PROVE  Current(i) = seq
    BY <1>1, <1>2, <1>3, <2>1 DEF Current, Follows
  <2>2. \A q \in Paths(i) : ran'[Token(i, q)] # Nothing =>
          q[1] \in DOMAIN seq /\ ran'[Token(i, q)].arg = seq[q[1]]
    BY <1>1, <1>3, <2>1 DEF Follows
  <2>3. ASSUME Rules[i].loop.op = "obs"
        PROVE  store'[s] \in {Nothing, seq} /\ (Ran(i)' => Produced(s)')
    <3>1. store'[s] \in {Nothing, seq}
      BY <1>1, <1>4, <2>3 DEF Follows
    <3>2. Ran(i) => Produced(s)
      BY <1>1, <2>3 DEF Follows
    <3>3. Ran(i)' /\ ~ Ran(i) => store[s] # Nothing
      BY <1>3, <2>3 DEF Ran
    <3>4. Ran(i)' => Produced(s)
      BY <1>2, <2>3, <3>2, <3>3 DEF ObservedInv
    <3> QED
      BY <1>2, <2>3, <3>1, <3>4, ObservationStays
  <2> QED
    BY <2>2, <2>3 DEF Follows
<1>5. CASE Rules[i].loop.op = "obs" /\ store'[s] \notin {store[s], Nothing}
  <2>1. ~ Produced(s)
    BY <1>2, <1>5, ObservationStays
  <2>2. ~ Ran(i)
    BY <1>1, <1>5, <2>1 DEF Follows
  <2>3. store' \notin {store, Lost}
    BY <1>2, <1>5 DEF Lost
  <2>4. PICK c : \E k \in DOMAIN Rules : \E p \in Paths(k) : ByPlan(c, k, p)
    BY <2>3, Moves DEF Quiet, External
  <2>5. PICK k \in DOMAIN Rules : \E p \in Paths(k) : ByPlan(c, k, p)
    BY <2>4
  <2>6. PICK p \in Paths(k) : ByPlan(c, k, p)
    BY <2>5
  <2>7. PICK r \in Results[Rules[k].tool] :
          Rules[k].loop = Nothing /\ Rules[k].sym = s /\ store'[s] = r
    BY <1>2, <1>5, <2>3, <2>6 DEF ByPlan, Observes, SessionInv, TypeOK
  <2>8. r \in Collections(i)
    BY <1>5, <2>7 DEF Collections
  <2>9. \A q \in Paths(i) : ran'[Token(i, q)] = Nothing
    <3>1. Site(k) # Site(i)
      BY <2>7, SiteAssumption
    <3>2. \A q \in Paths(i) : Token(i, q) # Token(k, p)
      BY <3>1 DEF Token
    <3> QED
      BY <2>2, <2>6, <3>2, TokenFacts, ByPlanFacts DEF Ran
  <2>10. Follows(i, r)'
    BY <2>7, <2>9 DEF Follows, Ran
  <2> QED
    BY <2>8, <2>10
<1> QED
  BY <1>2, <1>4, <1>5

\* As many positions of a collection hold a value as iterations got it.
LEMMA LoopsAreExact == SteadyLoops /\ SessionInv /\ LoopInv => NoExtraIteration
<1> SUFFICES ASSUME SteadyLoops, SessionInv, LoopInv, NEW i \in DOMAIN Rules, NEW v \in Args,
                    Rules[i].loop # Nothing
             PROVE  \E seq \in Collections(i) :
                      Cardinality({p \in Paths(i) : RanWith(Token(i, p), v)})
                        <= Occurrences(v, seq)
  BY DEF NoExtraIteration
<1> DEFINE P == {p \in Paths(i) : RanWith(Token(i, p), v)}
<1>1. PICK seq \in Collections(i) : Follows(i, seq)
  BY DEF LoopInv
<1> DEFINE N == {n \in DOMAIN seq : seq[n] = v}
           f == [p \in P |-> p[1]]
<1>2. IsFiniteSet(N)
  <2>1. seq \in Seq(Args)
    BY DEF SteadyLoops
  <2>2. Len(seq) \in Nat /\ DOMAIN seq = 1..Len(seq)
    BY <2>1
  <2>3. IsFiniteSet(1..Len(seq))
    BY <2>2, FS_Interval
  <2> QED
    BY <2>2, <2>3, FS_Subset
<1>3. \A p \in P : p[1] \in N /\ p = <<p[1]>>
  BY <1>1 DEF Follows, RanWith, Paths
<1>4. f \in Injection(P, N)
  BY <1>3 DEF Injection, IsInjective
<1>5. Cardinality(P) <= Cardinality(N)
  <2> HIDE DEF P, N, f
  <2> QED
    BY <1>2, <1>4, FS_Injection
<1> QED
  BY <1>5 DEF Occurrences

-----------------------------------------------------------------------------
LEMMA FenceInvariant == Spec => [](SessionInv /\ FenceInv /\ ObservedInv)
<1>1. Init => FenceInv /\ ObservedInv
  BY FenceInit, ObservedInit
<1>2. SessionInv /\ FenceInv /\ ObservedInv /\ [Next]_vars => (FenceInv /\ ObservedInv)'
  BY FenceStep, ObservedStep
<1> QED
  BY <1>1, <1>2, SessionInvariant, PTL DEF Spec

\* Where each collection is a literal or observed by one call site, a loop calls
\* its tool with a value as often as the collection holds it: no failure, retry,
\* crash or restart adds an iteration.  Without the condition it does not hold,
\* since the elements come back when a second call replaces the collection.
THEOREM LoopsAreSpentOnce == ASSUME SteadyLoops PROVE Spec => []NoExtraIteration
<1>1. Init => LoopInv
  BY LoopInit
<1>2. SessionInv /\ FenceInv /\ ObservedInv /\ LoopInv /\ [Next]_vars => LoopInv'
  BY LoopStep
<1>3. SessionInv /\ LoopInv => NoExtraIteration
  BY LoopsAreExact
<1> QED
  BY <1>1, <1>2, <1>3, FenceInvariant, PTL DEF Spec

\* What order needs: due sites run, and those before them have returned.
LEMMA OrderInvariant == ASSUME SteadyOrder PROVE Spec => [](DueInv /\ OrderInv /\ InPlanOrder)
<1>1. Init => DueInv /\ OrderInv /\ InPlanOrder
  BY TokenFacts DEF Init, DueInv, OrderInv, InPlanOrder, Ran
<1>2. /\ SessionInv /\ FenceInv /\ ObservedInv
      /\ DueInv /\ OrderInv /\ InPlanOrder /\ [Next]_vars
      => (DueInv /\ OrderInv /\ InPlanOrder)'
  BY DueStep, OrderStep, NothingOvertakes
<1> QED
  BY <1>1, <1>2, FenceInvariant, PTL DEF Spec

\* Where call order is enforced, no effect is made after one that the plan puts
\* behind it, in one process or over restarts, whatever is refused, skipped,
\* approved or lost in between.  The condition is on the plan: an effect before
\* another is no loop, and what its guards read is observed by one call site.
THEOREM EffectsInPlanOrder == ASSUME SteadyOrder PROVE Spec => []InPlanOrder
<1>1. Spec => [](DueInv /\ OrderInv /\ InPlanOrder)
  BY OrderInvariant
<1> QED
  BY <1>1, PTL

\* For the same plans an effect whose outcome is unknown stops every later one,
\* for good: neither a restart nor a guard that turned false lets one pass.
THEOREM UnknownStopsLater == ASSUME SteadyOrder PROVE Spec => []NothingAfterUnknown
<1>1. OrderInv => NothingAfterUnknown
  <2> SUFFICES ASSUME OrderInv, NEW i \in DOMAIN Rules, NEW j \in DOMAIN Rules,
                      ordering, Precedes(j, i), Ran(i)
               PROVE  \/ \A p \in Paths(j) : ran[Token(j, p)] = Nothing
                      \/ \E p \in Paths(j) : /\ ran[Token(j, p)] # Nothing
                                             /\ ran[Token(j, p)].outcome = "returned"
    BY DEF NothingAfterUnknown, Ran
  <2>1. Returned(j) \/ ~ Ran(j)
    BY DEF OrderInv
  <2> QED
    BY <2>1, OneToken DEF Returned, Ran
<1>2. Spec => [](DueInv /\ OrderInv /\ InPlanOrder)
  BY OrderInvariant
<1> QED
  BY <1>1, <1>2, PTL
-----------------------------------------------------------------------------
\* The mandate.  What is observed under s was returned, in this life of the
\* process, by a call whose result is stored under s.
Evidence(s) ==
  \E k \in Producers(s) :
    /\ Token(k, <<>>) \in fresh /\ ran[Token(k, <<>>)].outcome = "returned"
    /\ store[s] \in Results[Rules[k].tool]
EvidenceInv == \A s \in Symbols : store[s] # Nothing => Evidence(s)

\* What was returned lately stays so until a restart.
LEMMA EvidenceStays ==
  ASSUME SessionInv, FenceInv, [Next]_vars, fresh \subseteq fresh',
         NEW s \in Symbols, Evidence(s), store'[s] = store[s]
  PROVE  Evidence(s)'
<1>1. PICK k \in Producers(s) :
        /\ Token(k, <<>>) \in fresh /\ ran[Token(k, <<>>)].outcome = "returned"
        /\ store[s] \in Results[Rules[k].tool]
  BY DEF Evidence
<1>2. Token(k, <<>>) \in Tokens /\ ran[Token(k, <<>>)] # Nothing
  BY <1>1 DEF SessionInv, TypeOK
<1>3. ran'[Token(k, <<>>)] = ran[Token(k, <<>>)]
  BY <1>2, RanStays
<1> QED
  BY <1>1, <1>3 DEF Evidence

\* A planned call stores its result as evidence.
LEMMA RunPlannedEvidence ==
  ASSUME SessionInv, FenceInv, EvidenceInv,
         NEW c \in Calls, NEW i \in DOMAIN Rules, NEW p \in First(i, c), NEW e \in Ending,
         c \notin grants, Decides(i, c), RunPlanned(c, i, p, e)
  PROVE  EvidenceInv'
<1> DEFINE t == Token(i, p)
<1>0. [Next]_vars /\ Execute(t, c, e)
  BY DEF Next, PlannedCall, RunPlanned
<1>1. fresh \subseteq fresh' /\ DOMAIN store = Symbols
  BY <1>0 DEF Execute, SessionInv, TypeOK
<1>2. ASSUME NEW s \in Symbols, store'[s] # Nothing, store'[s] = store[s]
      PROVE  Evidence(s)'
  BY <1>0, <1>1, <1>2, EvidenceStays DEF EvidenceInv
<1>3. ASSUME NEW s \in Symbols, store'[s] # Nothing, store'[s] # store[s]
      PROVE  Evidence(s)'
  <2>1. /\ e \in {"unrecorded", "recorded"} /\ Rules[i].loop = Nothing
        /\ \E v \in Results[c[1]] : store' = [store EXCEPT ![Rules[i].sym] = v]
    BY <1>3 DEF RunPlanned
  <2>2. Rules[i].sym = s /\ store'[s] \in Results[c[1]]
    BY <1>1, <1>3, <2>1
  <2>3. c[1] = Rules[i].tool /\ c[2] \in Args /\ p = <<>> /\ i \in Producers(s)
    BY <2>1, <2>2, FirstMatches DEF RunPlanned, Decides, Authorizes, Calls, Producers, Paths
  <2>4. fresh' = fresh \cup {t} /\ Dispatched(t, c, "returned")
    BY <1>0, <2>1 DEF Execute
  <2>5. t \in Tokens /\ ran'[t].outcome = "returned"
    BY <2>4, TokenFacts, FirstMatches DEF Dispatched, SessionInv, TypeOK
  <2> QED
    BY <2>2, <2>3, <2>4, <2>5 DEF Evidence
<1> QED
  BY <1>2, <1>3 DEF EvidenceInv

LEMMA EvidenceStep == SessionInv /\ FenceInv /\ EvidenceInv /\ [Next]_vars => EvidenceInv'
<1> SUFFICES ASSUME SessionInv, FenceInv, EvidenceInv, [Next]_vars PROVE EvidenceInv'
  OBVIOUS
<1>1. ASSUME NEW c \in Calls, NEW i \in DOMAIN Rules, NEW p \in First(i, c), NEW e \in Ending,
             c \notin grants, Decides(i, c), RunPlanned(c, i, p, e)
      PROVE  EvidenceInv'
  BY <1>1, RunPlannedEvidence
<1>2. CASE store' = Lost
  BY <1>2 DEF Lost, EvidenceInv
<1>3. CASE store' = store /\ fresh \subseteq fresh'
  BY <1>3, EvidenceStays DEF EvidenceInv
<1>4. ASSUME NEW c, \/ \E i \in DOMAIN Rules : \E p \in First(i, c) : DieDuringPlanned(c, i, p)
                    \/ DieDuringGranted(c)
                    \/ Restart
      PROVE  store' = Lost
  BY <1>4 DEF DieDuringPlanned, DieDuringGranted, Restart, Die, Restored, Lost
<1>5. ASSUME NEW c, NEW e \in Ending, RunGranted(c, e)
      PROVE  store' = store /\ fresh \subseteq fresh'
  BY <1>5 DEF RunGranted, Execute, history
<1>6. CASE \/ \E c \in Calls, i \in DOMAIN Rules : HoldForConfirmation(c, i)
           \/ \E c \in OffPlan : HoldForReauthorization(c)
           \/ \E c \in asked, approved \in BOOLEAN : Reauthorize(c, approved)
           \/ \E item \in held, approved \in BOOLEAN : Confirm(item, approved)
           \/ UNCHANGED vars
  <2>1. store' = store /\ fresh' = fresh
    BY <1>6 DEF HoldForConfirmation, HoldForReauthorization, Reauthorize, Confirm, vars, history
  <2> QED
    BY <1>3, <2>1
<1> QED
  BY <1>1, <1>2, <1>3, <1>4, <1>5, <1>6 DEF Next, PlannedCall

LEMMA EvidenceInvariant == Spec => []EvidenceInv
<1>1. Init => EvidenceInv
  BY DEF Init, EvidenceInv
<1> QED
  BY <1>1, EvidenceStep, FenceInvariant, PTL DEF Spec
\* The abstract variables, as the instance has them.
Made == [t \in {t \in Tokens : ran[t] # Nothing} |-> ran[t]]
Open == held \cup {<<"external", c>> : c \in asked}
Agreed == consented \cup Waived(policy)
MandateInv == SessionInv /\ FenceInv /\ EvidenceInv

\* A call that Enforcer.check lets rule i decide is one the plan warrants, and
\* it is due.
LEMMA DecidedIsDue ==
  ASSUME MandateInv, NEW c \in Calls, NEW i \in DOMAIN Rules, Decides(i, c),
         NEW p \in Matches(i, c)
  PROVE  /\ PlanWarrant(i, p, c[2]) \in Warrants /\ Mandate!Due(PlanWarrant(i, p, c[2]))
         /\ Token(i, p) \in Tokens /\ ran[Token(i, p)] = Nothing
         /\ c = <<Rules[i].tool, c[2]>> /\ c[2] \in Args
<1> DEFINE w == PlanWarrant(i, p, c[2])
<1>1. /\ c = <<Rules[i].tool, c[2]>> /\ c[2] \in Args /\ GuardsHold(i)
      /\ p \in Paths(i) /\ p \in ActivePaths(i)
      /\ attempts[Token(i, p)] = "none"
      /\ Resolved(Rules[i].arg) /\ Value(Rules[i].arg, Element(i, p)) = c[2]
  BY DEF Decides, Authorizes, Calls, Matches, ActivePaths
<1>2. Token(i, p) \in Tokens /\ ran[Token(i, p)] = Nothing
  BY <1>1, TokenFacts DEF MandateInv, FenceInv
<1>3. ASSUME NEW s \in Reads(i) PROVE s \in Symbols /\ store[s] # Nothing
  <2>1. s \in Symbols
    BY <1>3, OperandAssumption
  <2>2. CASE Rules[i].arg.op = "obs" /\ s = Rules[i].arg.v
    BY <1>1, <2>1, <2>2 DEF Resolved
  <2>3. CASE Rules[i].loop # Nothing /\ Rules[i].loop.op = "obs" /\ s = Rules[i].loop.v
    BY <1>1, <2>1, <2>3 DEF ActivePaths, Resolved
  <2>4. CASE \E g \in Rules[i].guard : s = g.on
    BY <1>1, <2>1, <2>4, SymbolAssumption DEF GuardsHold
  <2> QED
    BY <1>3, <2>2, <2>3, <2>4 DEF Reads
<1>4. \A s \in Reads(i) : Evidence(s)
  BY <1>3 DEF MandateInv, EvidenceInv
<1>5. ASSUME NEW s \in Reads(i)
      PROVE  \E t \in {Token(k, <<>>) : k \in Producers(s)} : Mandate!Returned(t)
  <2>1. PICK k \in Producers(s) :
          Token(k, <<>>) \in fresh /\ ran[Token(k, <<>>)].outcome = "returned"
    BY <1>4 DEF Evidence
  <2>2. Token(k, <<>>) \in {t \in Tokens : ran[t] # Nothing}
    BY <2>1 DEF MandateInv, SessionInv, TypeOK
  <2> QED
    BY <2>1, <2>2 DEF Mandate!Returned
<1>6. Mandate!Due(w)
  BY <1>2, <1>5 DEF Mandate!Due, PlanWarrant
<1>7. c[2] \in Offered(i, p)
  <2>1. CASE Rules[i].arg.op = "lit"
    BY <1>1, <2>1 DEF Offered, Value
  <2>2. CASE Rules[i].arg.op = "obs"
    <3>1. Rules[i].arg.v \in Reads(i)
      BY <2>2 DEF Reads
    <3>2. store[Rules[i].arg.v] = c[2]
      BY <1>1, <2>2 DEF Value
    <3>3. PICK k \in Producers(Rules[i].arg.v) : c[2] \in Results[Rules[k].tool]
      BY <1>4, <3>1, <3>2 DEF Evidence
    <3> QED
      BY <2>2, <3>3 DEF Offered
  <2>3. CASE Rules[i].arg.op = "elem"
    <3>0. Rules[i].loop # Nothing /\ Rules[i].loop.op \in {"lit", "obs"}
      BY <2>3, OperandAssumption
    <3>1. Rules[i].loop # Nothing /\ Rules[i].loop.op \in {"lit", "obs"} /\ p # <<>>
      <4>1. PICK n \in 1..MaxLoop : p = <<n>>
        BY <1>1, <3>0 DEF Paths
      <4> QED
        BY <3>0, <4>1
    <3> DEFINE seq == Value(Rules[i].loop, Nothing)
    <3>2. p[1] \in DOMAIN seq /\ seq[p[1]] = c[2]
      BY <1>1, <2>3, <3>1 DEF ActivePaths, Value, Element
    <3>3. seq \in Collections(i)
      <4>1. CASE Rules[i].loop.op = "lit"
        BY <4>1 DEF Collections, Value
      <4>2. CASE Rules[i].loop.op = "obs"
        <5>1. Rules[i].loop.v \in Reads(i) /\ seq = store[Rules[i].loop.v]
          BY <3>1, <4>2 DEF Reads, Value
        <5>2. PICK k \in Producers(Rules[i].loop.v) : seq \in Results[Rules[k].tool]
          BY <1>4, <5>1 DEF Evidence
        <5> QED
          BY <4>2, <5>2 DEF Collections, Producers
      <4> QED
        BY <3>1, <4>1, <4>2
    <3> HIDE DEF seq
    <3> QED
      BY <2>3, <3>2, <3>3 DEF Offered
  <2> QED
    BY <2>1, <2>2, <2>3, OperandAssumption
<1>8. w \in Warrants
  BY <1>1, <1>7 DEF Warrants, PlanWarrants
<1> QED
  BY <1>1, <1>2, <1>6, <1>8

\* What passed its gates was approved, the operand and the loop.
LEMMA PassedIsApproved ==
  ASSUME MandateInv, NEW c \in Calls, NEW i \in DOMAIN Rules, NEW p \in Paths(i),
         c = <<Rules[i].tool, c[2]>>, c[2] \in Args,
         policy # "approve" => Missing(i, c) = {}
  PROVE  LET w == PlanWarrant(i, p, c[2]) IN
         /\ w.asks \subseteq Agreed
         /\ Cardinality((fresh \cup {w.slot}) \cap w.turns) > BulkCap => w.bulk \subseteq Agreed
<1> DEFINE w == PlanWarrant(i, p, c[2])
<1>0. Operand(c) \in Items /\ Bulk(i) \in Items
  BY DEF Operand, Bulk, Items, Sites, Calls
<1>1. policy \in Policies /\ \A x \in confirmed : Approved(x)
  BY DEF MandateInv, SessionInv, TypeOK, GatesInv
<1>2. \A x \in {Operand(c), Bulk(i)} : Approved(x) => x \in Agreed
  BY <1>0 DEF Approved, Agreed, Waived, Operand, Bulk
<1>3. w.asks \subseteq Agreed
  <2>1. CASE Rules[i].tool \in Gated
    BY <1>1, <1>2, <2>1 DEF PlanWarrant, Missing, Unconfirmed, Approved
  <2> QED
    BY <2>1 DEF PlanWarrant
<1>4. ASSUME Rules[i].loop # Nothing, ~ Approved(Bulk(i))
      PROVE  ~ (Cardinality((fresh \cup {w.slot}) \cap w.turns) > BulkCap)
  <2>1. Bulk(i) \notin confirmed /\ ~ OverCap(i) /\ Counted(i)
    BY <1>1, <1>4 DEF Approved, Missing, OverCap, Counted
  <2>2. /\ IsFiniteSet(fresh) /\ fresh \subseteq Tokens
        /\ Iterations(i, fresh) <= loop_counts[Site(i)]
        /\ loop_counts[Site(i)] \in 0..BulkCap
    BY <1>4, <2>1 DEF MandateInv, SessionInv, CountInv, TypeOK, Sites
  <2>3. loop_counts[Site(i)] < BulkCap /\ BulkCap \in Nat
    BY <2>1, <2>2, BoundsAssumption DEF OverCap
  <2>4. (fresh \cup {Token(i, p)}) \cap {t \in Tokens : t[1] = Site(i)}
          = {t \in fresh \cup {Token(i, p)} : t[1] = Site(i)}
    BY <2>2, TokenFacts
  <2>5. /\ Iterations(i, fresh) \in Nat /\ Iterations(i, fresh \cup {Token(i, p)}) \in Nat
        /\ Iterations(i, fresh \cup {Token(i, p)}) <= Iterations(i, fresh) + 1
    BY <2>2, IterationFacts
  <2>6. (fresh \cup {w.slot}) \cap w.turns = {t \in fresh \cup {Token(i, p)} : t[1] = Site(i)}
    BY <1>4, <2>4 DEF PlanWarrant
  <2>7. Iterations(i, fresh \cup {Token(i, p)}) <= BulkCap
    BY <2>2, <2>3, <2>5
  <2> HIDE DEF w
  <2>8. Cardinality((fresh \cup {w.slot}) \cap w.turns) = Iterations(i, fresh \cup {Token(i, p)})
    BY <2>6 DEF Iterations
  <2> QED
    BY <2>3, <2>5, <2>7, <2>8
<1>5. ASSUME Rules[i].loop # Nothing, Approved(Bulk(i)) PROVE w.bulk \subseteq Agreed
  BY <1>2, <1>5 DEF PlanWarrant
<1>6. ASSUME Rules[i].loop = Nothing PROVE w.bulk \subseteq Agreed
  BY <1>6 DEF PlanWarrant
<1> QED
  BY <1>3, <1>4, <1>5, <1>6
\* Confirmations and requests are questions of different kinds.
HeldInv == \A x \in held : x[1] # "external"

LEMMA HeldStep == HeldInv /\ [Next]_vars => HeldInv'
<1> SUFFICES ASSUME HeldInv, [Next]_vars PROVE HeldInv'
  OBVIOUS
<1>1. ASSUME NEW c, NEW i, HoldForConfirmation(c, i) PROVE HeldInv'
  BY <1>1 DEF HoldForConfirmation, HeldInv, Operand, Bulk
<1>2. ASSUME NEW item, NEW approved, Confirm(item, approved) PROVE held' \subseteq held
  BY <1>2 DEF Confirm
<1>3. ASSUME NEW c, NEW i, NEW p, NEW e, RunPlanned(c, i, p, e) \/ RunGranted(c, e)
      PROVE  held' = held
  BY <1>3 DEF RunPlanned, RunGranted, PassGate, gates
<1>4. ASSUME NEW c, NEW i, NEW p,
             Restart \/ DieDuringPlanned(c, i, p) \/ DieDuringGranted(c)
      PROVE  held' = {}
  BY <1>4 DEF Restart, DieDuringPlanned, DieDuringGranted, Die, Restored
<1>5. ASSUME NEW c, NEW approved,
             HoldForReauthorization(c) \/ Reauthorize(c, approved) \/ UNCHANGED vars
      PROVE  held' = held
  BY <1>5 DEF HoldForReauthorization, Reauthorize, vars, gates
<1> QED
  BY <1>1, <1>2, <1>3, <1>4, <1>5 DEF HeldInv, Next, PlannedCall

\* An off-plan call that was not attempted is due, and warranted by its grant.
LEMMA GrantIsDue ==
  ASSUME MandateInv, NEW c \in OffPlan, attempts[ExternalToken(c)] = "none"
  PROVE  /\ GrantWarrant(c) \in Warrants /\ Mandate!Due(GrantWarrant(c))
         /\ ExternalToken(c) \in Tokens /\ ran[ExternalToken(c)] = Nothing
         /\ c[2] \in Args
<1>1. ExternalToken(c) \in Tokens /\ ran[ExternalToken(c)] = Nothing
  BY TokenFacts DEF MandateInv, FenceInv
<1> QED
  BY <1>1 DEF OffPlan, Warrants, GrantWarrant, Mandate!Due

\* A dispatch on a warrant that is due and approved is a call of the mandate.
LEMMA DispatchIsCalled ==
  ASSUME MandateInv, NEW c, c[2] \in Args, NEW w \in Warrants, w.slot \in Tokens,
         w.arg = c[2], NEW outcome \in {"returned", "unknown"},
         Mandate!Due(w), ran[w.slot] = Nothing, Dispatched(w.slot, c, outcome),
         w.asks \subseteq Agreed,
         Cardinality((fresh \cup {w.slot}) \cap w.turns) > BulkCap => w.bulk \subseteq Agreed
  PROVE  Mandate!Called(w, outcome)
<1> DEFINE r == [arg |-> w.arg, outcome |-> outcome]
<1>1. ran \in [Tokens -> Dispatch \cup {Nothing}]
  BY DEF MandateInv, SessionInv, TypeOK
<1>2. r \in Dispatch /\ r # Nothing
  BY NothingAssumption DEF Dispatch
<1>3. ran' = [ran EXCEPT ![w.slot] = r]
  BY DEF Dispatched
<1> HIDE DEF r
<1>4. {t \in Tokens : ran'[t] # Nothing} = {t \in Tokens : ran[t] # Nothing} \cup {w.slot}
  BY <1>1, <1>2, <1>3
<1>5. \A t \in DOMAIN Made \cup {w.slot} :
        ran'[t] = IF t = w.slot THEN r ELSE Made[t]
  BY <1>1, <1>3 DEF Made
<1>6. Made' = [s \in DOMAIN Made \cup {w.slot} |-> IF s = w.slot THEN r ELSE Made[s]]
  BY <1>4, <1>5 DEF Made
<1>7. /\ w.asks \subseteq consented \cup Waived(policy)
      /\ Cardinality((fresh \cup {w.slot}) \cap w.turns) > BulkCap
           => w.bulk \subseteq consented \cup Waived(policy)
  BY DEF Agreed
<1>8. \A S : Mandate!Cardinality(S) = Cardinality(S)
  BY DEF Mandate!Cardinality, Cardinality
<1> USE <1>6 DEF Made, r
<1> QED
  BY <1>7, <1>8, Zenon DEF Mandate!Called

\* A planned call that was made, or that the process died in.
LEMMA PlannedIsCalled ==
  ASSUME MandateInv, NEW c \in Calls, NEW i \in DOMAIN Rules, Decides(i, c),
         NEW p \in First(i, c), policy # "approve" => Missing(i, c) = {},
         NEW outcome \in {"returned", "unknown"}, Dispatched(Token(i, p), c, outcome)
  PROVE  \E w \in Warrants : w.slot = Token(i, p) /\ Mandate!Called(w, outcome)
<1> DEFINE w == PlanWarrant(i, p, c[2])
<1>1. p \in Matches(i, c) /\ p \in Paths(i)
  BY DEF First, Matches, ActivePaths
<1>2. /\ w \in Warrants /\ Mandate!Due(w)
      /\ Token(i, p) \in Tokens /\ ran[Token(i, p)] = Nothing
      /\ c = <<Rules[i].tool, c[2]>> /\ c[2] \in Args
  BY <1>1, DecidedIsDue
<1>3. w.slot = Token(i, p) /\ w.arg = c[2]
  BY DEF PlanWarrant
<1>4. /\ w.asks \subseteq Agreed
      /\ Cardinality((fresh \cup {w.slot}) \cap w.turns) > BulkCap => w.bulk \subseteq Agreed
  BY <1>1, <1>2, PassedIsApproved
<1> HIDE DEF w
<1>5. Mandate!Called(w, outcome)
  BY <1>2, <1>3, <1>4, DispatchIsCalled
<1> QED
  BY <1>2, <1>3, <1>5

\* An off-plan call that was made, or that the process died in.
LEMMA GrantedIsCalled ==
  ASSUME MandateInv, NEW c \in grants, NEW outcome \in {"returned", "unknown"},
         Dispatched(ExternalToken(c), c, outcome)
  PROVE  \E w \in Warrants : w.slot = ExternalToken(c) /\ Mandate!Called(w, outcome)
<1> DEFINE w == GrantWarrant(c)
<1>1. c \in OffPlan /\ attempts[ExternalToken(c)] = "none" /\ <<"external", c>> \in consented
  BY DEF MandateInv, SessionInv, TypeOK, GatesInv, ReauthorizationIsExclusive
<1>2. /\ w \in Warrants /\ Mandate!Due(w)
      /\ ExternalToken(c) \in Tokens /\ ran[ExternalToken(c)] = Nothing
      /\ c[2] \in Args
  BY <1>1, GrantIsDue
<1>3. w.slot = ExternalToken(c) /\ w.arg = c[2] /\ w.asks \subseteq Agreed /\ w.bulk \subseteq Agreed
  BY <1>1 DEF GrantWarrant, Agreed
<1> HIDE DEF w
<1>4. Mandate!Called(w, outcome)
  BY <1>2, <1>3, DispatchIsCalled
<1> QED
  BY <1>2, <1>3, <1>4
\* A planned call is made, or nothing happens that the user can see.
LEMMA RunPlannedKeeps ==
  ASSUME MandateInv, NEW c \in Calls, NEW i \in DOMAIN Rules, NEW p \in First(i, c),
         NEW e \in Ending, Decides(i, c), RunPlanned(c, i, p, e)
  PROVE  [Mandate!Next]_Mandate!vars
<1>1. /\ Decides(i, c) /\ p \in First(i, c) /\ Execute(Token(i, p), c, e)
      /\ policy # "approve" => Missing(i, c) = {}
      /\ UNCHANGED <<policy, held, asked>>
  BY DEF RunPlanned, PassGate, config, requests
<1>2. CASE e = "unwritten"
  BY <1>1, <1>2 DEF Execute, Mandate!vars
<1>3. CASE e # "unwritten"
  <2>1. PICK outcome \in {"returned", "unknown"} : Dispatched(Token(i, p), c, outcome)
    BY <1>1, <1>3 DEF Execute
  <2>2. fresh' = fresh \cup {Token(i, p)} /\ consented' = consented
    BY <1>1, <1>3 DEF Execute
  <2>3. PICK w \in Warrants : w.slot = Token(i, p) /\ Mandate!Called(w, outcome)
    BY <1>1, <2>1, PlannedIsCalled
  <2>4. Mandate!Make(w, outcome)
    BY <1>1, <2>2, <2>3 DEF Mandate!Make
  <2> QED
    BY <2>4 DEF Mandate!Next
<1> QED
  BY <1>2, <1>3

LEMMA RunGrantedKeeps ==
  ASSUME MandateInv, NEW c \in grants, NEW e \in Ending, RunGranted(c, e)
  PROVE  [Mandate!Next]_Mandate!vars
<1>1. UNCHANGED <<policy, held, asked>>
  BY DEF RunGranted, config, gates
<1>2. CASE UNCHANGED <<ran, fresh, consented>>
  BY <1>1, <1>2 DEF Mandate!vars
<1>3. CASE ~ UNCHANGED <<ran, fresh, consented>>
  <2>1. Execute(ExternalToken(c), c, e) /\ e # "unwritten"
    BY <1>3 DEF RunGranted, Execute, history
  <2>2. PICK outcome \in {"returned", "unknown"} : Dispatched(ExternalToken(c), c, outcome)
    BY <2>1 DEF Execute
  <2>3. fresh' = fresh \cup {ExternalToken(c)} /\ consented' = consented
    BY <2>1 DEF Execute
  <2>4. PICK w \in Warrants : w.slot = ExternalToken(c) /\ Mandate!Called(w, outcome)
    BY <2>2, GrantedIsCalled
  <2>5. Mandate!Make(w, outcome)
    BY <1>1, <2>3, <2>4 DEF Mandate!Make
  <2> QED
    BY <2>5 DEF Mandate!Next
<1> QED
  BY <1>2, <1>3

\* A restart, between two calls or within one.
LEMMA RestartKeeps ==
  ASSUME MandateInv,
         \/ Restart
         \/ \E c \in Calls, i \in DOMAIN Rules :
              Decides(i, c) /\ \E p \in First(i, c) : DieDuringPlanned(c, i, p)
         \/ \E c \in grants : DieDuringGranted(c)
  PROVE  Mandate!Next
<1>1. fresh' = {} /\ held' = {} /\ asked' = {} /\ UNCHANGED <<policy, consented>>
  BY DEF Restart, DieDuringPlanned, DieDuringGranted, Die, Restored, config
<1>2. ran' = ran \/ \E w \in Warrants : Mandate!Called(w, "unknown")
  <2>1. CASE Restart
    BY <2>1 DEF Restart
  <2>2. ASSUME NEW c \in Calls, NEW i \in DOMAIN Rules, NEW p \in First(i, c),
               Decides(i, c), DieDuringPlanned(c, i, p), ran' # ran
        PROVE  \E w \in Warrants : Mandate!Called(w, "unknown")
    <3>1. /\ Decides(i, c) /\ p \in First(i, c)
          /\ policy # "approve" => Missing(i, c) = {}
          /\ Dispatched(Token(i, p), c, "unknown")
      BY <2>2 DEF DieDuringPlanned, Die
    <3> QED
      BY <3>1, PlannedIsCalled
  <2>3. ASSUME NEW c \in grants, DieDuringGranted(c), ran' # ran
        PROVE  \E w \in Warrants : Mandate!Called(w, "unknown")
    <3>1. Dispatched(ExternalToken(c), c, "unknown")
      BY <2>3 DEF DieDuringGranted, Die
    <3> QED
      BY <3>1, GrantedIsCalled
  <2> QED
    BY <2>1, <2>2, <2>3
<1>3. Mandate!Restart
  BY <1>1, <1>2 DEF Mandate!Restart
<1> QED
  BY <1>3 DEF Mandate!Next

\* The user is asked about the operand or the loop of a call that is due.
LEMMA HoldForConfirmationKeeps ==
  ASSUME MandateInv, NEW c \in Calls, NEW i \in DOMAIN Rules, HoldForConfirmation(c, i)
  PROVE  Mandate!Next
<1>1. Decides(i, c) /\ Missing(i, c) # {} /\ Matches(i, c) # {}
  BY DEF HoldForConfirmation, Decides, Authorizes
<1>2. PICK p : p \in Matches(i, c)
  BY <1>1
<1> DEFINE w == PlanWarrant(i, p, c[2])
<1>3. w \in Warrants /\ Mandate!Due(w) /\ c = <<Rules[i].tool, c[2]>>
  BY <1>1, <1>2, DecidedIsDue
<1>4. PICK q \in w.asks \cup w.bulk : held' = held \cup {q}
  <2>1. CASE Unconfirmed(c)
    <3>1. Operand(c) \in w.asks
      BY <1>3, <2>1 DEF Unconfirmed, PlanWarrant
    <3> QED
      BY <2>1, <3>1 DEF HoldForConfirmation
  <2>2. CASE ~ Unconfirmed(c)
    <3>1. Rules[i].loop # Nothing
      BY <1>1, <2>2 DEF Missing, OverCap, Counted
    <3>2. Bulk(i) \in w.bulk
      BY <3>1 DEF PlanWarrant
    <3> QED
      BY <2>2, <3>2 DEF HoldForConfirmation
  <2> QED
    BY <2>1, <2>2
<1>5. UNCHANGED <<policy, asked, ran, fresh, consented>>
  BY DEF HoldForConfirmation, config, requests, history
<1> HIDE DEF w
<1>6. Mandate!Ask(w)
  <2>1. Open' = Open \cup {q}
    BY <1>4, <1>5 DEF Open
  <2> QED
    BY <1>3, <1>4, <1>5, <2>1 DEF Mandate!Ask, Open
<1> QED
  BY <1>3, <1>6 DEF Mandate!Next

LEMMA HoldForReauthorizationKeeps ==
  ASSUME MandateInv, NEW c \in OffPlan, HoldForReauthorization(c)
  PROVE  Mandate!Next
<1> DEFINE w == GrantWarrant(c)
<1>1. w \in Warrants /\ Mandate!Due(w)
  BY GrantIsDue DEF HoldForReauthorization, Askable
<1>2. <<"external", c>> \in w.asks
  BY DEF GrantWarrant
<1>3. asked' = asked \cup {c} /\ UNCHANGED <<policy, held, ran, fresh, consented>>
  BY DEF HoldForReauthorization, config, gates, history
<1>4. Open' = Open \cup {<<"external", c>>}
  BY <1>3 DEF Open
<1> HIDE DEF w
<1>5. Mandate!Ask(w)
  BY <1>1, <1>2, <1>3, <1>4 DEF Mandate!Ask, Open
<1> QED
  BY <1>1, <1>5 DEF Mandate!Next

\* An answer settles one question, and approves what it was about or nothing.
LEMMA AnswersKeep ==
  ASSUME HeldInv,
         \/ \E c \in asked, yes \in BOOLEAN : Reauthorize(c, yes)
         \/ \E item \in held, yes \in BOOLEAN : Confirm(item, yes)
  PROVE  Mandate!Next
<1>1. ASSUME NEW c \in asked, NEW yes \in BOOLEAN, Reauthorize(c, yes)
      PROVE  Mandate!Answer(<<"external", c>>, yes)
  <2>1. /\ asked' = asked \ {c} /\ UNCHANGED <<policy, held, ran, fresh>>
        /\ consented' = IF yes THEN consented \cup {<<"external", c>>} ELSE consented
    BY <1>1 DEF Reauthorize, config, gates
  <2>2. <<"external", c>> \in Open /\ <<"external", c>> \notin held
    BY DEF Open, HeldInv
  <2>3. Open' = Open \ {<<"external", c>>}
    BY <2>1, <2>2 DEF Open
  <2>4. Agreed' = IF yes THEN Agreed \cup {<<"external", c>>} ELSE Agreed
    BY <2>1 DEF Agreed
  <2> QED
    BY <2>1, <2>2, <2>3, <2>4 DEF Mandate!Answer, Open, Agreed
<1>2. ASSUME NEW item \in held, NEW yes \in BOOLEAN, Confirm(item, yes)
      PROVE  Mandate!Answer(item, yes)
  <2>1. /\ held' = held \ {item} /\ UNCHANGED <<policy, asked, ran, fresh>>
        /\ consented' = IF yes THEN consented \cup {item} ELSE consented
    BY <1>2 DEF Confirm, config, requests
  <2>2. item \in Open /\ \A c \in asked : item # <<"external", c>>
    BY DEF Open, HeldInv
  <2>3. Open' = Open \ {item}
    BY <2>1, <2>2 DEF Open
  <2>4. Agreed' = IF yes THEN Agreed \cup {item} ELSE Agreed
    BY <2>1 DEF Agreed
  <2> QED
    BY <2>1, <2>2, <2>3, <2>4 DEF Mandate!Answer, Open, Agreed
<1>3. \A q, yes : Mandate!Answer(q, yes) /\ yes \in BOOLEAN => Mandate!Next
  BY DEF Mandate!Next, Mandate!Answer
<1> QED
  BY <1>1, <1>2, <1>3

\* Each step of a session is a step of its mandate, or none.
LEMMA StepKeepsTheMandate ==
  MandateInv /\ HeldInv /\ [Next]_vars => [Mandate!Next]_Mandate!vars
<1> SUFFICES ASSUME MandateInv, HeldInv, [Next]_vars PROVE [Mandate!Next]_Mandate!vars
  OBVIOUS
<1>1. CASE UNCHANGED vars
  BY <1>1 DEF vars, config, history, gates, requests, Mandate!vars
<1>2. CASE Next
  BY <1>2, RunPlannedKeeps, RunGrantedKeeps, RestartKeeps, HoldForConfirmationKeeps,
     HoldForReauthorizationKeeps, AnswersKeep DEF Next, PlannedCall
<1> QED
  BY <1>1, <1>2

\* A session of the gateway implements Mandate, for every plan, policy and suite:
\* through failed writes, raising tools, lost reservations and restarts a call is
\* made once at most, with an operand of the plan or of the user's grant, on
\* evidence of this life of the process and on the approvals it needs, and the
\* user is only asked about calls that are still due.
THEOREM SessionKeepsItsMandate == Spec => KeepsTheMandate
<1>1. Init => HeldInv /\ Mandate!Init
  <2> SUFFICES ASSUME Init PROVE HeldInv /\ Mandate!Init
    OBVIOUS
  <2>1. {t \in Tokens : ran[t] # Nothing} = {}
    BY DEF Init
  <2>2. policy \in Policies /\ consented = {} /\ held = {} /\ asked = {} /\ fresh = {}
    BY DEF Init
  <2>3. consented \cup Waived(policy) = Waived(policy)
    BY <2>2
  <2> QED
    BY <2>1, <2>2, <2>3 DEF HeldInv, Mandate!Init
<1>2. HeldInv /\ [Next]_vars => HeldInv'
  BY HeldStep
<1>3. SessionInv /\ FenceInv /\ EvidenceInv => MandateInv
  BY DEF MandateInv
<1> QED
  BY <1>1, <1>2, <1>3, StepKeepsTheMandate, FenceInvariant, EvidenceInvariant, PTL
     DEF Spec, KeepsTheMandate, Mandate!Spec
=============================================================================

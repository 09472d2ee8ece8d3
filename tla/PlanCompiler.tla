----------------------------- MODULE PlanCompiler -----------------------------
(***************************************************************************)
(* From a program to the calls it authorizes: normalization, the semantic  *)
(* checks, slices, rules, and the check of a call against the rules and    *)
(* the signed results, against what running the program would do.          *)
(*                                                                         *)
(* A program assigns literals, variables and results of tools that read,   *)
(* sends values, and branches on the value of a variable.  An agent that   *)
(* holds the program's rules calls tools in any order it likes.            *)
(*                                                                         *)
(* A variable is a name and a version, which renaming numbers.  A          *)
(* statement is [kind |-> "let", var, expr], [kind |-> "send", expr] or    *)
(* [kind |-> "if", test, body, orelse]; an expression is a literal, a      *)
(* variable, or a call without operands, whose text is its tool's name.    *)
(***************************************************************************)
EXTENDS Naturals, FiniteSets, SequencesExt

CONSTANTS
  Candidates,      \* the programs a planner may hand in
  Values,          \* what tools return and programs send
  Untrusted        \* SourceTrust: tools whose results are not trusted

Unknown == "?"     \* NotConcretizable, or not yet known

Lit(v) == [k |-> "lit", of |-> v, ver |-> 0]
Call(tool) == [k |-> "call", of |-> tool, ver |-> 0]
Var(x) == [k |-> "var", of |-> x[1], ver |-> x[2]]
Let(x, e) == [kind |-> "let", var |-> x, expr |-> e]
Send(e) == [kind |-> "send", expr |-> e]
If(x, v, body, orelse) ==
  [kind |-> "if", test |-> [var |-> x, val |-> v], body |-> body, orelse |-> orelse]

Key(e) == <<e.of, e.ver>>
NamesIn(e) == IF e.k = "var" THEN {Key(e)} ELSE {}

-----------------------------------------------------------------------------
(***************************************************************************)
(* Normalization.                                                          *)
(***************************************************************************)

\* A call used as an operand becomes an assignment before the statement; the
\* pass enters the bodies of branches and not what follows their else.
HoistOne(stmt, x) ==
  IF stmt.kind = "send" /\ stmt.expr.k = "call"
    THEN <<Let(x, stmt.expr), Send(Var(x))>>
    ELSE <<stmt>>

HoistBody(body, i) ==
  FlattenSeq([j \in DOMAIN body |-> HoistOne(body[j], <<"h", 10 * i + j>>)])

Hoisted(p) ==
  FlattenSeq([i \in DOMAIN p |->
    IF p[i].kind = "if" THEN <<[p[i] EXCEPT !.body = HoistBody(@, i)]>>
                        ELSE HoistOne(p[i], <<"h", 10 * i>>)])

Branches(p) == {i \in DOMAIN p : p[i].kind = "if"}
Lets(body) == {j \in DOMAIN body : body[j].kind = "let"}
CondAssigned(p) ==
  UNION {{p[i].body[j].var : j \in Lets(p[i].body)}
           \cup {p[i].orelse[j].var : j \in Lets(p[i].orelse)} : i \in Branches(p)}
TopLets(p, x) == {i \in Lets(p) : p[i].var = x}
Reassigned(p) ==
  {p[i].var : i \in {j \in Lets(p) : Cardinality(TopLets(p, p[j].var)) > 1
                                       \/ p[j].var \in CondAssigned(p)}}
    \cup {x \in CondAssigned(p) :
            1 < Cardinality({i \in Branches(p) : \E j \in Lets(p[i].body) : p[i].body[j].var = x})
              + Cardinality({i \in Branches(p) : \E j \in Lets(p[i].orelse) : p[i].orelse[j].var = x})}

\* The definition of x in force before statement i of p.
VersionAt(p, x, i) ==
  LET earlier == Cardinality({d \in TopLets(p, x) : d < i})
  IN  IF earlier = 0 THEN 0 ELSE earlier - 1

Remapped(p, e, i) ==
  IF e.k = "var" THEN [e EXCEPT !.ver = e.ver + VersionAt(p, Key(e), i)] ELSE e

RemappedBody(p, body, i) ==
  [j \in DOMAIN body |-> [body[j] EXCEPT !.expr = Remapped(p, @, i)]]

\* Every definition of a variable gets a name of its own, when all of them are
\* straight-line; the uses in a branch's else are left as they are.
Renamed(p) ==
  IF Reassigned(p) \cap CondAssigned(p) # {}
    THEN p
    ELSE [i \in DOMAIN p |->
            CASE p[i].kind = "let" ->
                   [p[i] EXCEPT !.var = <<@[1], @[2] + Cardinality({d \in TopLets(p, @) : d < i})>>,
                                !.expr = Remapped(p, @, i)]
              [] p[i].kind = "send" -> [p[i] EXCEPT !.expr = Remapped(p, @, i)]
              [] OTHER ->
                   [p[i] EXCEPT !.test.var = <<@[1], @[2] + VersionAt(p, @, i)>>,
                                !.body = RemappedBody(p, @, i)]]

Normalized(p) == Renamed(Hoisted(p))

-----------------------------------------------------------------------------
(***************************************************************************)
(* The statements in source order, each with its path condition.  A branch *)
(* is preceded by the evaluation of its test.                              *)
(***************************************************************************)

Leaf(stmt, guards) ==
  [kind |-> stmt.kind,
   var |-> IF stmt.kind = "let" THEN stmt.var ELSE <<"", 0>>,
   expr |-> stmt.expr, guards |-> guards]

Guard(test, negated, i) == [var |-> test.var, val |-> test.val, neg |-> negated, at |-> i]

Under(body, guard) == [j \in DOMAIN body |-> Leaf(body[j], <<guard>>)]

Leaves(p) ==
  FlattenSeq([i \in DOMAIN p |->
    IF p[i].kind = "if"
      THEN <<[kind |-> "test", var |-> p[i].test.var, expr |-> Lit(p[i].test.val),
              guards |-> <<Guard(p[i].test, FALSE, i)>>]>>
             \o Under(p[i].body, Guard(p[i].test, FALSE, i))
             \o Under(p[i].orelse, Guard(p[i].test, TRUE, i))
      ELSE <<Leaf(p[i], <<>>)>>])

IsRead(leaf) == leaf.kind = "let" /\ leaf.expr.k = "call"
IsSend(leaf) == leaf.kind = "send"

\* The definitions of a variable, and the variables of a program.
DefsOf(leaves, x) == {n \in DOMAIN leaves : leaves[n].kind = "let" /\ leaves[n].var = x}
Variables(leaves) == {leaves[n].var : n \in {m \in DOMAIN leaves : leaves[m].kind = "let"}}

-----------------------------------------------------------------------------
(***************************************************************************)
(* The semantic checks.                                                    *)
(***************************************************************************)

\* A tool call is a statement or the right-hand side of an assignment.
NoNestedCall(leaves) == \A n \in DOMAIN leaves : IsSend(leaves[n]) => leaves[n].expr.k # "call"

\* One definition per variable, or a literal default with one conditional
\* definition, or one definition in each branch of the same if.
SingleDefinition(leaves) ==
  \A x \in Variables(leaves) :
    LET defs == DefsOf(leaves, x)
        polarity(n) == IF leaves[n].guards = <<>> THEN "top"
                       ELSE IF leaves[n].guards[1].neg THEN "else" ELSE "body"
    IN  \/ Cardinality(defs) = 1
        \/ \E d, e \in defs :
             /\ defs = {d, e} /\ polarity(e) = "body"
             /\ \/ polarity(d) = "top" /\ leaves[d].expr.k = "lit"
                \/ polarity(d) = "else" /\ leaves[d].guards[1].at = leaves[e].guards[1].at

\* The names defined after a body, given those defined before it; Undefined
\* joins them when the body reads a name that is not.
Undefined == <<Unknown, 0>>

WalkBody(body, incoming) ==
  FoldLeft(LAMBDA defined, stmt :
             defined \cup (IF NamesIn(stmt.expr) \subseteq defined THEN {} ELSE {Undefined})
                     \cup (IF stmt.kind = "let" THEN {stmt.var} ELSE {}),
           incoming, body)

\* After an if only what both of its branches define is sure to be defined.
WalkIf(stmt, incoming) ==
  LET body == WalkBody(stmt.body, incoming)
      orelse == WalkBody(stmt.orelse, incoming)
  IN  (body \cap orelse) \cup ({Undefined} \cap (body \cup orelse))
        \cup (IF stmt.test.var \in incoming THEN {} ELSE {Undefined})

DefinedBeforeUse(p) ==
  Undefined \notin FoldLeft(LAMBDA defined, stmt :
                 IF stmt.kind = "if" THEN WalkIf(stmt, defined) ELSE WalkBody(<<stmt>>, defined),
               {}, p)

Accepts(p) ==
  LET leaves == Leaves(Normalized(p))
  IN  /\ NoNestedCall(leaves)
      /\ SingleDefinition(leaves)
      /\ DefinedBeforeUse(Normalized(p))

-----------------------------------------------------------------------------
(***************************************************************************)
(* Slices and rules: for every call, one rule per choice of a definition   *)
(* for each variable it depends on.                                        *)
(***************************************************************************)

Condition(g) == [var |-> g.var, val |-> g.val, neg |-> g.neg]
Negated(c) == [c EXCEPT !.neg = ~ @]
PathOf(leaf) == {Condition(leaf.guards[i]) : i \in DOMAIN leaf.guards}

\* The conditions under which definition n is the one in force: its own path,
\* and for a literal default that the conditional definition was not reached.
DefinitionGuardsPlain(leaves, n) == PathOf(leaves[n])

DefinitionGuards(leaves, n) ==
  LET others == DefsOf(leaves, leaves[n].var) \ {n}
      conditional == {m \in others : leaves[m].guards # <<>>}
  IN  IF Cardinality(others) = 1 /\ conditional # {}
           /\ leaves[n].guards = <<>> /\ leaves[n].expr.k = "lit"
        THEN UNION {{Negated(c) : c \in PathOf(leaves[m])} : m \in conditional}
        ELSE PathOf(leaves[n])

\* The variables a call depends on under a choice of definitions.
Closure(leaves, n, choice) ==
  LET conditions(m) == UNION {{c.var} : c \in DefinitionGuards(leaves, m)}
      grow(names) == names \cup UNION {NamesIn(leaves[choice[x]].expr)
                       \cup conditions(choice[x]) : x \in names \cap DOMAIN choice}
      reach[i \in 0 .. Cardinality(DOMAIN choice)] ==
        IF i = 0 THEN NamesIn(leaves[n].expr) \cup {c.var : c \in PathOf(leaves[n])}
                 ELSE grow(reach[i - 1])
  IN  reach[Cardinality(DOMAIN choice)] \cap DOMAIN choice

\* Slices of call n, compiled: lets maps a variable to its definition.
RulesOf(leaves, n) ==
  LET choices == {f \in [Variables(leaves) -> DOMAIN leaves] :
                    \A x \in DOMAIN f : f[x] \in DefsOf(leaves, x)}
  IN  {[site |-> n,
        lets |-> [x \in Closure(leaves, n, f) |-> f[x]],
        guards |-> PathOf(leaves[n])
                     \cup UNION {DefinitionGuards(leaves, f[x]) : x \in Closure(leaves, n, f)}]
         : f \in choices}

CallSites(leaves) == {n \in DOMAIN leaves : IsRead(leaves[n]) \/ IsSend(leaves[n])}

-----------------------------------------------------------------------------
(***************************************************************************)
(* Taint: the untrusted tools whose results may reach an operand of a send *)
(* in the program as it was written.  The sends to such operands are held  *)
(* for the user to confirm.                                                *)
(***************************************************************************)

\* The tools an expression depends on, given those its variables do.
ExprSources(env, e) ==
  CASE e.k = "lit" -> {}
    [] e.k = "call" -> {e.of}
    [] OTHER -> IF Key(e) \in DOMAIN env THEN env[Key(e)] ELSE {}

AnalyzeBody(body, incoming) ==
  FoldLeft(LAMBDA s, stmt :
             LET sources == ExprSources(s.env, stmt.expr) IN
             IF stmt.kind = "let" THEN [s EXCEPT !.env[stmt.var] = sources]
                                  ELSE [s EXCEPT !.gated = @ \cup (sources \cap Untrusted)],
           incoming, body)

\* Mutant of AnalyzeIf: the analysis goes on from the else alone.
AnalyzeElse(stmt, incoming) ==
  LET body == AnalyzeBody(stmt.body, incoming)
      other == AnalyzeBody(stmt.orelse, incoming)
  IN  [env |-> other.env, gated |-> body.gated \cup other.gated]

\* Both branches start from the same sources, and these are joined after.
AnalyzeIf(stmt, incoming) ==
  LET body == AnalyzeBody(stmt.body, incoming)
      other == AnalyzeBody(stmt.orelse, incoming)
  IN  [env |-> [x \in DOMAIN incoming.env |-> body.env[x] \cup other.env[x]],
       gated |-> body.gated \cup other.gated]

TaintMap(p) ==
  FoldLeft(LAMBDA s, stmt :
             IF stmt.kind = "if" THEN AnalyzeIf(stmt, s) ELSE AnalyzeBody(<<stmt>>, s),
           [env |-> [x \in Variables(Leaves(p)) |-> {}], gated |-> {}], p).gated

-----------------------------------------------------------------------------
(***************************************************************************)
(* What running the program does, given the results of its reads so far:   *)
(* the sends, in order, up to the first that hangs on a missing result.    *)
(***************************************************************************)

Reference(p, results) ==
  LET leaves == Leaves(p)
      start == [env |-> [x \in Variables(leaves) |-> Unknown],
                taken |-> [i \in DOMAIN p |-> Unknown],
                sends |-> <<>>, clear |-> TRUE, ask |-> 0]
      reached(s, leaf) ==
        IF \E i \in DOMAIN leaf.guards : s.taken[leaf.guards[i].at] = Unknown THEN Unknown
        ELSE IF \A i \in DOMAIN leaf.guards :
                  s.taken[leaf.guards[i].at] = (IF leaf.guards[i].neg THEN "no" ELSE "yes")
          THEN "yes" ELSE "no"
      value(s, e, n) == CASE e.k = "lit" -> e.of
                          [] e.k = "var" -> s.env[Key(e)]
                          [] OTHER -> results[n]
      step(s, leaf, n) ==
        CASE leaf.kind = "test" ->
               [s EXCEPT !.taken[leaf.guards[1].at] =
                  IF s.env[leaf.var] = Unknown THEN Unknown
                  ELSE IF s.env[leaf.var] = leaf.expr.of THEN "yes" ELSE "no"]
          [] leaf.kind # "test" /\ reached(s, leaf) = "no" -> s
          [] leaf.kind # "test" /\ reached(s, leaf) = Unknown ->
               IF leaf.kind = "let" THEN [s EXCEPT !.env[leaf.var] = Unknown]
                                    ELSE [s EXCEPT !.clear = FALSE]
          [] leaf.kind = "let" /\ reached(s, leaf) = "yes" ->
               [s EXCEPT !.env[leaf.var] = value(s, leaf.expr, n),
                         !.ask = IF @ = 0 /\ IsRead(leaf) /\ results[n] = Unknown THEN n ELSE @]
          [] OTHER ->
               IF s.clear /\ value(s, leaf.expr, n) # Unknown
                 THEN [s EXCEPT !.sends = Append(@, <<n, value(s, leaf.expr, n)>>)]
                 ELSE [s EXCEPT !.clear = FALSE]
      run[n \in 0 .. Len(leaves)] ==
        IF n = 0 THEN start ELSE step(run[n - 1], leaves[n], n)
  IN  run[Len(leaves)]

-----------------------------------------------------------------------------
(***************************************************************************)
(* The enforcer at work.                                                   *)
(***************************************************************************)

VARIABLES
  program,         \* the program the planner handed in
  code,            \* its normalized statements, in source order
  rules,           \* its rules
  gated,           \* gated_sources of the session
  store,           \* the signed results, by the text of the call
  used,            \* the call sites spent
  results,         \* ghost: what each read site returned
  effects          \* ghost: the sends made, with their sites

vars == <<program, code, rules, gated, store, used, results, effects>>

\* The value of a variable under a rule's definitions and the stored results.
\* A definition that runs in a circle has none (the recursion error denies).
Valuation(rule) ==
  LET value[i \in 0 .. Cardinality(DOMAIN rule.lets)] ==
        [x \in DOMAIN rule.lets |->
           LET e == code[rule.lets[x]].expr
           IN  CASE e.k = "lit" -> e.of
                 [] e.k = "call" -> store[e.of]
                 [] OTHER -> IF i = 0 \/ Key(e) \notin DOMAIN rule.lets
                               THEN Unknown ELSE value[i - 1][Key(e)]]
  IN  value[Cardinality(DOMAIN rule.lets)]

ValueIn(valuation, e) ==
  CASE e.k = "lit" -> e.of
    [] e.k = "var" -> IF Key(e) \in DOMAIN valuation THEN valuation[Key(e)] ELSE Unknown
    [] OTHER -> store[e.of]

Holds(valuation, c) ==
  c.var \in DOMAIN valuation /\ valuation[c.var] # Unknown
    /\ (valuation[c.var] = c.val) # c.neg

Fails(valuation, c) ==
  c.var \in DOMAIN valuation /\ valuation[c.var] # Unknown
    /\ (valuation[c.var] = c.val) = c.neg

SiteRules(n) == {r \in rules : r.site = n}

\* A site may be skipped when each of its rules is provably off the path.
SkippableNever(n) == FALSE

Skippable(n) == \A r \in SiteRules(n) : \E c \in r.guards : Fails(Valuation(r), c)

\* Sends are ordered: every earlier one has been made or may be skipped.
OrderOk(n) ==
  \A m \in CallSites(code) : (m < n /\ IsSend(code[m])) => (m \in used \/ Skippable(m))

\* Site n authorizes its call now, a send with operand v.
PermitsAt(n, v) ==
  /\ n \notin used
  /\ IsSend(code[n]) => OrderOk(n)
  /\ \E r \in SiteRules(n) :
       /\ \A c \in r.guards : Holds(Valuation(r), c)
       /\ IsSend(code[n]) => ValueIn(Valuation(r), code[n].expr) = v

\* check(): the first site, in source order, that authorizes the call.
FirstPermit(sites, v) ==
  LET permitting == {n \in sites : PermitsAt(n, v)}
  IN  IF permitting = {} THEN 0
      ELSE CHOOSE n \in permitting : \A m \in permitting : n <= m

ReadSites(tool) == {n \in CallSites(code) : IsRead(code[n]) /\ code[n].expr.of = tool}
SendSites == {n \in CallSites(code) : IsSend(code[n])}

Texts(leaves) == {leaves[n].expr.of : n \in {m \in DOMAIN leaves : IsRead(leaves[m])}}

\* Acceptance: the rules are compiled from the normalized program.
Init ==
  /\ program \in {p \in Candidates : Accepts(p)}
  /\ code = Leaves(Normalized(program))
  /\ rules = UNION {RulesOf(code, n) : n \in CallSites(code)}
  /\ gated = TaintMap(program)
  /\ store = [t \in Texts(code) |-> Unknown]
  /\ used = {}
  /\ results = [n \in DOMAIN code |-> Unknown]
  /\ effects = <<>>

\* A permitted read runs and its result is signed under the call's text.
Read ==
  \E tool \in DOMAIN store :
    LET n == FirstPermit(ReadSites(tool), Unknown)
    IN  /\ n # 0
        /\ \E v \in Values :
             /\ store' = [store EXCEPT ![tool] = v]
             /\ results' = [results EXCEPT ![n] = v]
        /\ used' = used \cup {n}
        /\ UNCHANGED <<program, code, rules, gated, effects>>

\* A permitted send takes effect.
SendOut ==
  \E v \in Values :
    LET n == FirstPermit(SendSites, v)
    IN  /\ n # 0
        /\ effects' = Append(effects, <<n, v>>)
        /\ used' = used \cup {n}
        /\ UNCHANGED <<program, code, rules, gated, store, results>>

Next == Read \/ SendOut

Spec == Init /\ [][Next]_vars

-----------------------------------------------------------------------------
(***************************************************************************)
(* Properties.                                                             *)
(***************************************************************************)

Intended == Reference(Hoisted(program), results)

\* The agent's effects are the first of the effects that running the user's
\* program has, with its values and in its order, whatever calls the agent
\* tries and whenever it reads: the promise of slices and rules.
EffectsAreThePlans == IsPrefix(effects, Intended.sends)

\* An agent that does what the program does is never refused: the program's
\* next send, and the next read it needs, are authorized at their own sites.
HonestAgentIsServed ==
  /\ Len(effects) < Len(Intended.sends) =>
       LET next == Intended.sends[Len(effects) + 1]
       IN  FirstPermit(SendSites, next[2]) = next[1]
  /\ Intended.ask # 0 =>
       FirstPermit(ReadSites(code[Intended.ask].expr.of), Unknown) = Intended.ask

\* The tools whose results a rule's definitions carry into an expression.
SourcesIn(rule, e) ==
  LET sources[i \in 0 .. Cardinality(DOMAIN rule.lets)] ==
        [x \in DOMAIN rule.lets |->
           LET d == code[rule.lets[x]].expr
           IN  CASE d.k = "lit" -> {}
                 [] d.k = "call" -> {d.of}
                 [] OTHER -> IF i = 0 \/ Key(d) \notin DOMAIN rule.lets
                               THEN {} ELSE sources[i - 1][Key(d)]]
  IN  IF e.k = "var" /\ Key(e) \in DOMAIN rule.lets
        THEN sources[Cardinality(DOMAIN rule.lets)][Key(e)] ELSE {}

\* No result of an untrusted tool reaches a send unseen: of every send that was
\* made, each untrusted tool that the rule for it reads is in the map that the
\* gate asks the user by, although the map is made of the program as written
\* and the rules of the program as normalized.
GatesSeeEverySource ==
  \A i \in DOMAIN effects :
    \A r \in SiteRules(effects[i][1]) :
      LET valuation == Valuation(r)
          operand == code[effects[i][1]].expr IN
      (ValueIn(valuation, operand) = effects[i][2] /\ \A c \in r.guards : Holds(valuation, c))
        => SourcesIn(r, operand) \cap Untrusted \subseteq gated

\* The claim of normalize.py: the normalized program does what the program does.
NormalizingKeepsMeaning ==
  Reference(Normalized(program), results).sends = Intended.sends

\* The claim of slicer.py for programs with merged definitions: a value from a
\* definition that is not in force matches no rule.
MergesAreExact == EffectsAreThePlans
=============================================================================

---------------------------- MODULE MCPlanCompiler ----------------------------
(***************************************************************************)
(* Every program of up to five statements over one test, two variables,    *)
(* two readers and two literals that the checks accept.                    *)
(***************************************************************************)
EXTENDS PlanCompiler

c == <<"c", 0>>
x == <<"x", 0>>
y == <<"y", 0>>

Simple ==
  {Let(x, Lit("a")), Let(x, Lit("b")), Let(x, Call("fetch")), Let(y, Var(x)),
   Send(Var(x)), Send(Var(y)), Send(Call("fetch")), Send(Lit("a"))}
Branching ==
  {If(c, "a", <<Let(x, Lit("b"))>>, <<>>),
   If(c, "a", <<Let(x, Call("fetch"))>>, <<>>),
   If(c, "a", <<Send(Var(x))>>, <<>>),
   If(c, "a", <<Send(Var(x)), Let(x, Lit("b"))>>, <<>>),
   If(c, "a", <<Let(x, Lit("a"))>>, <<Let(x, Lit("b"))>>),
   If(c, "a", <<Send(Call("fetch"))>>, <<Send(Var(x))>>),
   If(x, "b", <<Send(Lit("a"))>>, <<Send(Var(x))>>)}

AllPrograms ==
  {<<Let(c, Call("get"))>> \o p : p \in SeqOf(Simple \cup Branching, 4)}

\* No tool is read at two places: the store would mix their results up.
ReadsOnce(p) ==
  LET leaves == Leaves(Hoisted(p))
      reads == {n \in DOMAIN leaves : IsRead(leaves[n])}
  IN  Cardinality({leaves[n].expr.of : n \in reads}) = Cardinality(reads)

\* Definitions that are merged stand in order, the default first, and before
\* every use.
Ordered(p) ==
  LET leaves == Leaves(Normalized(p))
      uses(v) == {n \in DOMAIN leaves : v \in NamesIn(leaves[n].expr)
                                          \/ \E g \in PathOf(leaves[n]) : g.var = v}
  IN  \A v \in Variables(leaves) : \A d, e \in DefsOf(leaves, v) :
        d # e =>
          /\ leaves[d].guards = <<>> => d < e
          /\ \A n \in uses(v) : d < n

\* No branch's else uses a variable that is renamed.
ElseIsPlain(p) ==
  \A i \in Branches(p) : \A j \in DOMAIN p[i].orelse :
    NamesIn(p[i].orelse[j].expr) \cap Reassigned(Hoisted(p)) = {}

OrderedPrograms == {p \in AllPrograms : ReadsOnce(p) /\ Ordered(p) /\ ElseIsPlain(p)}
UnrenamedPrograms == {p \in AllPrograms : ReadsOnce(p) /\ ElseIsPlain(p)}
=============================================================================

---------------------------- MODULE MCCompositePlan ----------------------------
(***************************************************************************)
(* Search and ask, buy what was found, and only if the answer allows it    *)
(* ask once more and pay.  The second answer goes to the variable that let *)
(* the stage in.  The search may find nothing, less or more than the       *)
(* fan-out covers, the same thing twice, or what is no list of names.      *)
(***************************************************************************)
EXTENDS CompositePlan

CONSTANTS u, w

Call1(tool, arg, sym, var) ==
  [tool |-> tool, arg |-> arg, sym |-> sym, when |-> Nothing, loop |-> Nothing, var |-> var]
Stage(guard, list, max, sites) ==
  [guard |-> guard, list |-> list, max |-> max, sites |-> sites]

MCStages == <<
  Stage(Nothing, Nothing, 0,
        <<Call1("search", Lit(u), "found", "items"), Call1("ask", Lit(u), "answer", "ok")>>),
  Stage(Nothing, "items", 2,
        <<Call1("buy", Elem, Nothing, Nothing), Call1("log", Lit(u), Nothing, Nothing)>>),
  Stage([on |-> "ok", is |-> u], Nothing, 0,
        <<Call1("ask", Lit(w), "again", "ok"),
          [Call1("pay", Obs("again"), Nothing, Nothing)
             EXCEPT !.when = [on |-> "again", is |-> u]]>>)>>

\* Two stages that each look something up and pay for every element of it.
Look(sym) == <<Call1("search", Lit(u), sym, Nothing),
               [Call1("pay", Elem, Nothing, Nothing) EXCEPT !.loop = Obs(sym)]>>
MCLoopStages == <<Stage(Nothing, Nothing, 0, Look("first")),
                  Stage(Nothing, Nothing, 0, Look("second"))>>

MCResults == [tool \in {"search", "ask", "buy", "log", "pay"} |->
  CASE tool = "search" -> {<<>>, <<w>>, <<u, u, w>>, <<w, u>>, <<w, Opaque>>, Opaque}
    [] tool = "ask" -> {u, w}
    [] OTHER -> {Opaque}]
=============================================================================

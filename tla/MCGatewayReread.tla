---------------------------- MODULE MCGatewayReread ----------------------------
(***************************************************************************)
(* A loop over a collection the plan reads twice with the same text, so    *)
(* that the second observation replaces the first, and an effect after the *)
(* loop.                                                                   *)
(***************************************************************************)
EXTENDS GatewaySession

Rule(key, tool, sym, guard, arg, loop) ==
  [key |-> key, tool |-> tool, sym |-> sym, guard |-> guard, arg |-> arg,
   loop |-> loop]

MCRules == <<
  Rule("list#0",  "list",  "listed", {}, Lit("u"), Nothing),
  Rule("send#0",  "send",  "sent",   {}, Elem, Obs("listed")),
  Rule("list#1",  "list",  "listed", {}, Lit("u"), Nothing),
  Rule("close#0", "close", "closed", {}, Lit("w"), Nothing)>>

MCSymbols == {"listed", "sent", "closed"}
MCResults == [tool \in {"list", "send", "close"} |->
                IF tool = "list" THEN {<<"u", "w">>, <<"w", "u">>} ELSE {"done"}]
MCToolParams == {"list", "send", "close"}
=============================================================================

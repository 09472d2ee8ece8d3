---------------------------- MODULE MCGatewayOrder ----------------------------
(***************************************************************************)
(* Two effects in plan order and a cap of one iteration: an alert whose    *)
(* site has two rules, of which a check finds the second due or neither,   *)
(* before a loop over a literal collection.                                *)
(***************************************************************************)
EXTENDS GatewaySession

Rule(key, tool, sym, guard, arg, loop) ==
  [key |-> key, tool |-> tool, sym |-> sym, guard |-> guard, arg |-> arg,
   loop |-> loop]

MCRules == <<
  Rule("check#0", "check", "checked", {}, Lit("u"), Nothing),
  Rule("alert#0", "alert", "alerted", {[on |-> "checked", is |-> "u"]},
       Lit("w"), Nothing),
  Rule("alert#0", "alert", "alerted", {[on |-> "checked", is |-> "w"]},
       Lit("u"), Nothing),
  Rule("send#0",  "send",  "sent",    {}, Elem, Lit(<<"u", "w", "u">>))>>

MCSymbols == {"checked", "alerted", "sent"}
MCResults == [tool \in {"check", "alert", "send"} |->
                IF tool = "check" THEN {"w", "x"} ELSE {"done"}]
MCToolParams == {"check", "alert", "send"}

\* The plan is one of those whose loops and order are exact.
ASSUME SteadyLoops /\ SteadyOrder
=============================================================================

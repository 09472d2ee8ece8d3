--------------------------- MODULE MCGatewaySession ---------------------------
(***************************************************************************)
(* What waits for the user: an effect whose operand was read from an       *)
(* untrusted source, read twice, so that it may change while the user      *)
(* decides; and the calls of a tool the plan does not name.  The queue of  *)
(* requests has room for one of the two off-plan calls.                    *)
(***************************************************************************)
EXTENDS GatewaySession

Rule(key, tool, sym, guard, arg, loop) ==
  [key |-> key, tool |-> tool, sym |-> sym, guard |-> guard, arg |-> arg,
   loop |-> loop]

MCRules == <<
  Rule("lookup#0", "lookup", "found", {}, Lit("u"), Nothing),
  Rule("lookup#1", "lookup", "found", {}, Lit("u"), Nothing),
  Rule("pay#0",    "pay",    "paid",  {}, Obs("found"), Nothing)>>

MCSymbols == {"found", "paid"}
MCResults == [tool \in {"lookup", "pay"} |->
                IF tool = "lookup" THEN {"u", "w"} ELSE {"done"}]
MCToolParams == {"lookup", "pay", "erase"}
=============================================================================

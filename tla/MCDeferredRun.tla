----------------------------- MODULE MCDeferredRun ------------------------------
(***************************************************************************)
(* A program that reads twice under the same text and pays twice with what *)
(* it read, with a log in between: what is put aside by the first payment  *)
(* is replaced by the second reading.  Beyond it, payments of two values   *)
(* that share their text, and of a third.                                  *)
(***************************************************************************)
EXTENDS DeferredRun

Step(tool, sym, args) == [tool |-> tool, sym |-> sym, args |-> args]

MCProgram == <<
  Step("read", "read()",      <<>>),
  Step("pay",  "pay(read())", <<Var(1)>>),
  Step("read", "read()",      <<>>),
  Step("log",  "log(5)",      <<Lit("5")>>),
  Step("pay",  "pay(read())", <<Var(3)>>),
  Step("log",  "log(pay())",  <<Var(5)>>)>>

MCResults == [tool \in {"read", "pay", "log"} |->
                IF tool = "read" THEN {"5", "6"} ELSE {"ok"}]
MCControl == [tool \in {"read", "pay", "log"} |-> IF tool = "pay" THEN <<1>> ELSE <<>>]
MCText == [v \in {"5", "five", "6"} |-> IF v = "6" THEN "6" ELSE "5"]
MCExtra == {Call("pay", <<v>>) : v \in {"5", "five", "6"}}
             \cup {Call("log", <<"5">>), Call("log", <<"6">>), Call("read", <<>>)}
=============================================================================

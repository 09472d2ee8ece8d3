------------------------------ MODULE MCPlanning ------------------------------
(***************************************************************************)
(* Two sessions plan one prompt.  A read feeds a message; the message goes *)
(* to the person the prompt names, or to someone else the prompt also      *)
(* mentions, or to someone it does not.  The second session's suite cannot *)
(* send to that other person.                                              *)
(***************************************************************************)
EXTENDS Planning

CONSTANTS s1, s2, read, send, sendOther, forge, answer

MCNeeds(a) == IF a = read THEN {} ELSE {read}
MCIdOf(a) == IF a = read THEN "read#0" ELSE "send#0"
MCStated(t) == {read, send, sendOther}
MCTools(s) == IF s = s1 THEN Actions ELSE {read, send}
\* Suites of which one lacks what the other's programs are built on (finding 13).
MCToolsApart(s) == IF s = s1 THEN Actions ELSE {send, sendOther}
MCDrafts == {Garbage, {read, send}, {read, sendOther}, {read, forge}}
MCCrashing == {{read, forge}}
=============================================================================

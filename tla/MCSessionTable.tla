----------------------------- MODULE MCSessionTable -----------------------------
(***************************************************************************)
(* Two sessions of two principals in a table that holds one, two threads,  *)
(* two plans for every prompt, and a crash.                                *)
(***************************************************************************)
EXTENDS SessionTable, TLC

CONSTANTS s1, s2, alice, bob, planA, planB, w1, w2

Symmetry == Permutations(Ids) \cup Permutations(Principals)
              \cup Permutations(Plans) \cup Permutations(Workers)
=============================================================================

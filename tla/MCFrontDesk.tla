----------------------------- MODULE MCFrontDesk -----------------------------
(* FrontDesk.tla with two pricing forms beside one new-booking form.       *)
EXTENDS FrontDesk, TLC

Symmetry == Permutations(Publisher) \cup Permutations(Selection) \cup Permutations(Details)
=============================================================================

----------------------------- MODULE RagAnswerMC -----------------------------
(* Documents whose versions make builds of different sizes, or of the same. *)
EXTENDS RagAnswer, TLC

TwoThreeOne == <<2, 3, 1>>
Alike == <<1, 1>>
=============================================================================

-------------------------- MODULE MCByteBudgetQueue --------------------------
(* TLC instance of ByteBudgetQueue: a control item of size 0, two that fit  *)
(* the budget together, and one that is over it on its own.                 *)
EXTENDS ByteBudgetQueue

MCItem == 1 .. 4

MCSize == <<0, 1, 2, 4>>

=============================================================================

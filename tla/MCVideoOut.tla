----------------------------- MODULE MCVideoOut ------------------------------
(* VideoOut for TLC: what happens together is limited by a few budgets.    *)
EXTENDS VideoOut

Budget(f, s, p, d, c, e) ==
  [frames |-> f, resets |-> s, pauses |-> p, redraws |-> d, calls |-> c, ends |-> e]

SmallBudgets == {Budget(2, 0, 0, 0, 0, 0), Budget(1, 1, 0, 0, 0, 0), Budget(1, 0, 1, 0, 0, 0),
                 Budget(1, 0, 0, 1, 0, 0), Budget(1, 0, 0, 0, 1, 1)}
=============================================================================

----------------------------- MODULE MCDispatch -----------------------------
(* The instance of Dispatch for TLC: its constants are in the cfg.         *)
EXTENDS Dispatch
=============================================================================

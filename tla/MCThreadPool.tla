---------------------------- MODULE MCThreadPool ----------------------------
(* The instances of ThreadPool for TLC: their constants are in the cfgs.   *)
EXTENDS ThreadPool
=============================================================================

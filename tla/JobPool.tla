------------------------------- MODULE JobPool -------------------------------
(***************************************************************************)
(* What misc/thread_pool.h promises about the work it accepts: every item  *)
(* runs, once per acceptance, at most Parallel of them at a time, and the  *)
(* pool is gone only after all of them are done.                           *)
(***************************************************************************)
EXTENDS Naturals, FiniteSets

CONSTANTS
  Jobs,         (* pairs (fn, fn_ctx) given to the pool                    *)
  Parallel      (* how many may run at the same time                       *)

VARIABLES
  pending,      (* accepted, not yet begun                                 *)
  running,      (* begun, not yet returned                                 *)
  closed        (* the pool was freed                                      *)

pvars == <<pending, running, closed>>

Init == pending = {} /\ running = {} /\ closed = FALSE

Accept(j) ==
  /\ ~closed
  /\ j \notin pending \cup running
  /\ pending' = pending \cup {j}
  /\ UNCHANGED <<running, closed>>

Start(j) ==
  /\ j \in pending
  /\ Cardinality(running) < Parallel
  /\ pending' = pending \ {j}
  /\ running' = running \cup {j}
  /\ UNCHANGED closed

Finish(j) ==
  /\ j \in running
  /\ running' = running \ {j}
  /\ UNCHANGED <<pending, closed>>

Close ==
  /\ pending = {} /\ running = {}
  /\ closed' = TRUE
  /\ UNCHANGED <<pending, running>>

Next == Close \/ \E j \in Jobs : Accept(j) \/ Start(j) \/ Finish(j)

Spec == Init /\ [][Next]_pvars

(* No accepted job is passed over for ever, and every job returns.         *)
FairSpec == Spec /\ \A j \in Jobs : SF_pvars(Start(j)) /\ WF_pvars(Finish(j))
=============================================================================

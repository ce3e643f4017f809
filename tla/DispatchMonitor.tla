--------------------------- MODULE DispatchMonitor ---------------------------
(***************************************************************************)
(* What misc/dispatch.c promises about the target thread's state, without  *)
(* saying how: at any time one thread may touch it, the target gives it up *)
(* only inside mp_dispatch_queue_process(), and does not get it back while *)
(* a mp_dispatch_lock() call is outstanding.                               *)
(***************************************************************************)
CONSTANTS
  Clients,      (* the threads that call mp_dispatch_lock()                *)
  Target,       (* the thread that owns the state otherwise                *)
  Nobody        (* the target is trapped and no client has the lock        *)

VARIABLES
  owner,        (* who may touch the target's state                        *)
  requests      (* clients that asked for the lock and not yet returned it *)

avars == <<owner, requests>>

Init == owner = Target /\ requests = {}

Request(c) ==
  /\ c \notin requests
  /\ requests' = requests \cup {c}
  /\ owner' = owner \/ (owner = Nobody /\ owner' = c)

Grant(c) ==
  /\ owner = Nobody
  /\ c \in requests
  /\ owner' = c
  /\ UNCHANGED requests

Return(c) ==
  /\ owner = c
  /\ owner' = Nobody
  /\ requests' = requests \ {c}

Trap ==
  /\ owner = Target
  /\ owner' = Nobody
  /\ UNCHANGED requests

Resume ==
  /\ owner = Nobody
  /\ requests = {}
  /\ owner' = Target
  /\ UNCHANGED requests

Next ==
  \/ \E c \in Clients : Request(c) \/ Grant(c) \/ Return(c)
  \/ Trap
  \/ Resume

Spec == Init /\ [][Next]_avars

(* A requested lock is granted to someone, and holders return it. *)
FairSpec ==
  /\ Spec
  /\ WF_avars(requests # {} /\ Trap)
  /\ WF_avars(\E c \in Clients : Grant(c))
  /\ \A c \in Clients : WF_avars(Return(c))
=============================================================================

------------------------------ MODULE Dispatch ------------------------------
(***************************************************************************)
(* The dispatch queue of misc/dispatch.c.  One target thread calls         *)
(* mp_dispatch_queue_process(); the clients queue callbacks for it         *)
(* (mp_dispatch_enqueue*, mp_dispatch_run), take exclusive access to its   *)
(* state (mp_dispatch_lock / mp_dispatch_unlock) and cut its wait short    *)
(* (mp_dispatch_interrupt, mp_dispatch_adjust_timeout).  The playback      *)
(* core, the VO thread and the decoder threads are all built around it.    *)
(*                                                                         *)
(* Granularity: what the code does between taking queue->lock and          *)
(* releasing it (or sleeping on queue->cond) is one step, except that the  *)
(* target's loop is cut at its head: tpc = "loop" is the target holding    *)
(* the mutex there, and no other critical section runs meanwhile.          *)
(***************************************************************************)
EXTENDS Naturals, Sequences, FiniteSets

CONSTANTS
  Clients,        (* threads other than the target                         *)
  Target,         (* the thread calling mp_dispatch_queue_process()        *)
  NoClient,       (* "no thread" in locked_explicit                        *)
  Fns,            (* pairs (fn, fn_data) queued asynchronously             *)
  WakeupFns,      (* which queues there are: with a wakeup_fn and without  *)
  MaxQueue        (* bound on the queue's length, in the guards only       *)

Threads == Clients \cup {Target}

ASSUME DispatchAssumption ==
  /\ IsFiniteSet(Clients)
  /\ Target \notin Clients
  /\ NoClient \notin Threads
  /\ Fns \cap Clients = {}
  /\ WakeupFns \subseteq BOOLEAN
  /\ MaxQueue \in Nat

(* A deadline: none (0), one that will pass, one too far away to rely on.  *)
NoWait == 0
Soon == 1
Never == 2
Deadlines == {NoWait, Soon, Never}

(* mp_dispatch_item.  A mp_dispatch_run() item lives on its caller's       *)
(* stack, so it is named by the caller; "exit" is such an item whose       *)
(* callback tells the target thread to leave its main loop.                *)
Items == [fn : Fns, kind : {"async", "notify"}]
         \cup [fn : Clients, kind : {"sync", "exit"}]

VARIABLES
  queue,            (* head .. tail                                        *)
  wait,             (* queue->wait                                         *)
  interrupted,      (* queue->interrupted                                  *)
  in_process,       (* queue->in_process                                   *)
  locked,           (* queue->locked                                       *)
  lock_requests,    (* queue->lock_requests                                *)
  locked_explicit,  (* the locked_explicit_thread, or NoClient             *)
  completed,        (* clients whose mp_dispatch_run() item is completed   *)
  asleep,           (* threads blocked on queue->cond                      *)
  signaled,         (* wakeup_fn was called and not yet noticed            *)
  tpc,              (* where the target thread is                          *)
  cur,              (* the item whose callback the target runs             *)
  armed,            (* deadline of the pthread_cond_timedwait() in progress*)
  terminate,        (* an "exit" callback has run                          *)
  wakeup_fn,        (* was mp_dispatch_set_wakeup_fn() called?             *)
  pc,               (* where each client is                                *)
  owed              (* history: notifications not yet followed by a run    *)

shared == <<queue, wait, interrupted, in_process, locked, lock_requests,
            locked_explicit>>
target == <<tpc, cur, armed, terminate, wakeup_fn>>
vars == <<shared, completed, asleep, signaled, target, pc, owed>>

TargetPcs == {"out", "external", "woken", "loop", "lockwait", "timedwait",
              "callback", "exited"}
Trapped == tpc \in {"loop", "lockwait", "timedwait"}
RunPcs == {"runwakeup", "runwait"}
LockPcs == {"lockwakeup", "lockrecheck", "lockwait1", "lockwait2"}
ClientPcs == {"idle", "wakeup", "holding", "gone"} \cup RunPcs \cup LockPcs

Init ==
  /\ queue = <<>>
  /\ wait = NoWait
  /\ interrupted = FALSE
  /\ in_process = FALSE
  /\ locked = FALSE
  /\ lock_requests = 0
  /\ locked_explicit = NoClient
  /\ completed = {}
  /\ asleep = {}
  /\ signaled = FALSE
  /\ tpc = "out"
  /\ cur = <<>>
  /\ armed = NoWait
  /\ terminate = FALSE
  /\ wakeup_fn \in WakeupFns
  /\ pc = [c \in Clients |-> "idle"]
  /\ owed = {}

-----------------------------------------------------------------------------
(* pthread primitives *)

MutexFree == tpc # "loop"

(* Mutant of Broadcast: pthread_cond_signal() where a broadcast is needed. *)
SignalOnly ==
  asleep' \in IF asleep = {} THEN {{}} ELSE {asleep \ {t} : t \in asleep}

Broadcast == asleep' = {}

Goto(c, label) == pc' = [pc EXCEPT ![c] = label]

(* A thread that may call into the queue now: the target outside of the    *)
(* queue's own code, a client between two calls or holding the lock.       *)
MayCall(t) ==
  /\ MutexFree
  /\ IF t = Target THEN tpc \in {"out", "woken", "callback"}
                   ELSE pc[t] \in {"idle", "holding"}

-----------------------------------------------------------------------------
(* Queueing callbacks *)

(* Mutant of Mergeable: the item whose callback runs counts as pending.    *)
MergeableWithRunning(item) ==
  item.kind = "notify" /\ (cur = item \/ \E i \in DOMAIN queue : queue[i] = item)

Mergeable(item) ==
  item.kind = "notify" /\ \E i \in DOMAIN queue : queue[i] = item

(* mp_dispatch_append() up to the call of wakeup_fn. *)
Append_(item) ==
  IF Mergeable(item)
    THEN UNCHANGED <<shared, asleep>>
    ELSE /\ queue' = Append(queue, item)
         /\ interrupted' = (interrupted \/ ~wakeup_fn)
         /\ Broadcast
         /\ UNCHANGED <<wait, in_process, locked, lock_requests,
                        locked_explicit>>

(* The unlocked tail of mp_dispatch_append() calls wakeup_fn: a client     *)
(* does so in a later step; at once when the target cannot be sleeping.    *)
Enqueue(t, f, kind) ==
  /\ MayCall(t)
  /\ Len(queue) < MaxQueue
  /\ Append_([fn |-> f, kind |-> kind])
  /\ owed' = IF kind = "notify" THEN owed \cup {f} ELSE owed
  /\ IF wakeup_fn /\ ~Mergeable([fn |-> f, kind |-> kind])
       THEN IF t = Target \/ pc[t] = "holding"
              THEN signaled' = TRUE /\ UNCHANGED pc
              ELSE Goto(t, "wakeup") /\ UNCHANGED signaled
       ELSE UNCHANGED <<signaled, pc>>
  /\ UNCHANGED <<completed, target>>

CallWakeupFn(c) ==
  /\ pc[c] = "wakeup"
  /\ signaled' = TRUE
  /\ Goto(c, "idle")
  /\ UNCHANGED <<shared, completed, asleep, target, owed>>

(* mp_dispatch_cancel_fn(), on items that are allowed to be cancelled: the *)
(* n items at the positions pos[1] < pos[2] < ... are the ones to remain.  *)
CancelFn(t, f) ==
  /\ MayCall(t)
  /\ \E i \in DOMAIN queue : queue[i].fn = f
  /\ LET rest == {i \in DOMAIN queue : queue[i].fn # f}
     IN  \E n \in 0..Len(queue) : \E pos \in [1..n -> rest] :
           /\ \A i, j \in 1..n : i < j => pos[i] < pos[j]
           /\ \A i \in rest : \E j \in 1..n : pos[j] = i
           /\ queue' = [j \in 1..n |-> queue[pos[j]]]
  /\ owed' = owed \ {f}
  /\ UNCHANGED <<wait, interrupted, in_process, locked, lock_requests,
                 locked_explicit, completed, asleep, signaled, target, pc>>

(* mp_dispatch_run(): append, then sleep until the item is completed.  The *)
(* last client to remain may ask the target thread to exit.                *)
RunAppend(c, kind) ==
  /\ pc[c] = "idle"
  /\ MutexFree
  /\ tpc # "exited"
  /\ kind = "exit" => \A d \in Clients \ {c} : pc[d] = "gone"
  /\ Append_([fn |-> c, kind |-> kind])
  /\ Goto(c, IF wakeup_fn THEN "runwakeup" ELSE "runwait")
  /\ UNCHANGED <<completed, signaled, target, owed>>

RunWakeup(c) ==
  /\ pc[c] = "runwakeup"
  /\ signaled' = TRUE
  /\ Goto(c, "runwait")
  /\ UNCHANGED <<shared, completed, asleep, target, owed>>

RunSleep(c) ==
  /\ pc[c] = "runwait"
  /\ c \notin asleep
  /\ MutexFree
  /\ c \notin completed
  /\ asleep' = asleep \cup {c}
  /\ UNCHANGED <<shared, completed, signaled, target, pc, owed>>

(* Mutant of RunReturn: "if" instead of "while" around the wait.           *)
RunReturnUnchecked(c) ==
  /\ pc[c] = "runwait"
  /\ c \notin asleep
  /\ MutexFree
  /\ completed' = completed \ {c}
  /\ Goto(c, IF terminate THEN "gone" ELSE "idle")
  /\ UNCHANGED <<shared, asleep, signaled, target, owed>>

RunReturn(c) ==
  /\ pc[c] = "runwait"
  /\ c \notin asleep
  /\ MutexFree
  /\ c \in completed
  /\ completed' = completed \ {c}
  /\ Goto(c, IF terminate THEN "gone" ELSE "idle")
  /\ UNCHANGED <<shared, asleep, signaled, target, owed>>

-----------------------------------------------------------------------------
(* mp_dispatch_interrupt(), mp_dispatch_adjust_timeout() *)

Interrupt(t) ==
  /\ MayCall(t)
  /\ interrupted' = TRUE
  /\ Broadcast
  /\ UNCHANGED <<queue, wait, in_process, locked, lock_requests,
                 locked_explicit, completed, signaled, target, pc, owed>>

AdjustTimeout(t, until) ==
  /\ MayCall(t)
  /\ in_process
  /\ wait > until
  /\ wait' = until
  /\ Broadcast
  /\ UNCHANGED <<queue, interrupted, in_process, locked, lock_requests,
                 locked_explicit, completed, signaled, target, pc, owed>>

-----------------------------------------------------------------------------
(* mp_dispatch_lock(), mp_dispatch_unlock() *)

(* Mutant of TakeOrSleep: the first loop's condition is believed enough.   *)
TakeUnlocked(c) ==
  /\ locked' = TRUE
  /\ locked_explicit' = c
  /\ Goto(c, "holding")
  /\ UNCHANGED asleep

(* The second loop of mp_dispatch_lock(), from its head to the end of the  *)
(* critical section.                                                       *)
TakeOrSleep(c) ==
  IF in_process /\ ~locked
    THEN /\ locked' = TRUE
         /\ locked_explicit' = c
         /\ Goto(c, "holding")
         /\ UNCHANGED asleep
    ELSE /\ asleep' = asleep \cup {c}
         /\ Goto(c, "lockwait2")
         /\ UNCHANGED <<locked, locked_explicit>>

LockRequest(c) ==
  /\ pc[c] = "idle"
  /\ MutexFree
  /\ tpc # "exited"
  /\ lock_requests' = lock_requests + 1
  /\ IF in_process
       THEN TakeOrSleep(c)
       ELSE /\ Goto(c, "lockwakeup")
            /\ UNCHANGED <<locked, locked_explicit, asleep>>
  /\ UNCHANGED <<queue, wait, interrupted, in_process, completed, signaled,
                 target, owed>>

(* The first loop drops the mutex around the call of wakeup_fn. *)
LockWakeup(c) ==
  /\ pc[c] = "lockwakeup"
  /\ signaled' = (signaled \/ wakeup_fn)
  /\ Goto(c, "lockrecheck")
  /\ UNCHANGED <<shared, completed, asleep, target, owed>>

LockRecheck(c) ==
  /\ pc[c] = "lockrecheck"
  /\ MutexFree
  /\ IF in_process
       THEN TakeOrSleep(c)
       ELSE /\ asleep' = asleep \cup {c}
            /\ Goto(c, "lockwait1")
            /\ UNCHANGED <<locked, locked_explicit>>
  /\ UNCHANGED <<queue, wait, interrupted, in_process, lock_requests,
                 completed, signaled, target, owed>>

LockWait1(c) ==
  /\ pc[c] = "lockwait1"
  /\ c \notin asleep
  /\ MutexFree
  /\ IF in_process
       THEN TakeOrSleep(c)
       ELSE /\ Goto(c, "lockwakeup")
            /\ UNCHANGED <<locked, locked_explicit, asleep>>
  /\ UNCHANGED <<queue, wait, interrupted, in_process, lock_requests,
                 completed, signaled, target, owed>>

LockWait2(c) ==
  /\ pc[c] = "lockwait2"
  /\ c \notin asleep
  /\ MutexFree
  /\ TakeOrSleep(c)
  /\ UNCHANGED <<queue, wait, interrupted, in_process, lock_requests,
                 completed, signaled, target, owed>>

Unlock(c) ==
  /\ pc[c] = "holding"
  /\ MutexFree
  /\ locked' = FALSE
  /\ locked_explicit' = NoClient
  /\ lock_requests' = lock_requests - 1
  /\ Broadcast
  /\ Goto(c, "idle")
  /\ UNCHANGED <<queue, wait, interrupted, in_process, completed, signaled,
                 target, owed>>

-----------------------------------------------------------------------------
(* mp_dispatch_queue_process() *)

(* Mutant of NothingToDo: the items that are still queued are forgotten.   *)
NobodyWaits == lock_requests = 0

(* Mutant of NothingToDo: an item comes first, whoever waits for the lock. *)
NothingQueued == queue = <<>>

(* The branches of the loop that serve others are not taken.               *)
NothingToDo == lock_requests = 0 /\ queue = <<>>

ProcessEnter(timeout) ==
  /\ tpc \in {"out", "woken"}
  /\ wait' = timeout
  /\ in_process' = TRUE
  /\ asleep' = IF lock_requests > 0 THEN {} ELSE asleep
  /\ tpc' = "loop"
  /\ UNCHANGED <<queue, interrupted, locked, lock_requests, locked_explicit,
                 completed, signaled, cur, armed, terminate, wakeup_fn, pc, owed>>

ProcessBlocked ==
  /\ tpc = "loop"
  /\ lock_requests > 0
  /\ asleep' = asleep \cup {Target}
  /\ tpc' = "lockwait"
  /\ UNCHANGED <<shared, completed, signaled, cur, armed, terminate, wakeup_fn, pc, owed>>

ProcessItem ==
  /\ tpc = "loop"
  /\ lock_requests = 0
  /\ queue # <<>>
  /\ cur' = Head(queue)
  /\ queue' = Tail(queue)
  /\ locked' = TRUE
  /\ owed' = IF cur'.kind = "notify" THEN owed \ {cur'.fn} ELSE owed
  /\ tpc' = "callback"
  /\ UNCHANGED <<wait, interrupted, in_process, lock_requests,
                 locked_explicit, completed, asleep, signaled, armed,
                 terminate, wakeup_fn, pc>>

(* The callback returned: the item is freed, or its owner may go on. *)
ProcessItemDone ==
  /\ tpc = "callback"
  /\ locked' = FALSE
  /\ Broadcast
  /\ completed' = IF cur.kind \in {"sync", "exit"}
                    THEN completed \cup {cur.fn} ELSE completed
  /\ terminate' = (terminate \/ cur.kind = "exit")
  /\ cur' = <<>>
  /\ tpc' = "loop"
  /\ UNCHANGED <<wakeup_fn, queue, wait, interrupted, in_process, lock_requests,
                 locked_explicit, signaled, armed, pc, owed>>

ProcessIdle ==
  /\ tpc = "loop"
  /\ NothingToDo
  /\ ~(wait = NoWait \/ interrupted)
  /\ armed' = wait
  /\ asleep' = asleep \cup {Target}
  /\ tpc' = "timedwait"
  /\ UNCHANGED <<shared, completed, signaled, cur, terminate, wakeup_fn, pc, owed>>

ProcessLeave ==
  /\ tpc = "loop"
  /\ NothingToDo
  /\ wait = NoWait \/ interrupted
  /\ in_process' = FALSE
  /\ interrupted' = FALSE
  /\ tpc' = IF terminate THEN "exited" ELSE "out"
  /\ UNCHANGED <<queue, wait, locked, lock_requests, locked_explicit,
                 completed, asleep, signaled, cur, armed, terminate, wakeup_fn, pc, owed>>

(* The target returns from a condition wait with the mutex held. *)
ProcessWake ==
  /\ tpc \in {"lockwait", "timedwait"}
  /\ Target \notin asleep
  /\ armed' = NoWait
  /\ tpc' = "loop"
  /\ UNCHANGED <<shared, completed, asleep, signaled, cur, terminate, wakeup_fn, pc, owed>>

(* pthread_cond_timedwait() reports the timeout, even if a broadcast came  *)
(* between the timeout and the return of the mutex.                        *)
ProcessTimeout ==
  /\ tpc = "timedwait"
  /\ wait' = NoWait
  /\ armed' = NoWait
  /\ asleep' = asleep \ {Target}
  /\ tpc' = "loop"
  /\ UNCHANGED <<queue, interrupted, in_process, locked, lock_requests,
                 locked_explicit, completed, signaled, cur, terminate, wakeup_fn, pc, owed>>

-----------------------------------------------------------------------------
(* The users of the queue: a target that blocks in its own event loop      *)
(* until wakeup_fn reaches it and processes the queue before it blocks     *)
(* again (as vo_thread() in video/out/vo.c does), and clients that finish. *)

ExternalWait ==
  /\ wakeup_fn
  /\ tpc = "out"
  /\ tpc' = "external"
  /\ UNCHANGED <<shared, completed, asleep, signaled, cur, armed, terminate, wakeup_fn,
                 pc, owed>>

ExternalWake ==
  /\ tpc = "external"
  /\ signaled
  /\ signaled' = FALSE
  /\ tpc' = "woken"
  /\ UNCHANGED <<shared, completed, asleep, cur, armed, terminate, wakeup_fn, pc, owed>>

ClientLeave(c) ==
  /\ pc[c] = "idle"
  /\ \E d \in Clients \ {c} : pc[d] # "gone"
  /\ Goto(c, "gone")
  /\ UNCHANGED <<shared, completed, asleep, signaled, target, owed>>

(* POSIX lets a condition wait return without a wakeup. *)
SpuriousWakeup(t) ==
  /\ t \in asleep
  /\ asleep' = asleep \ {t}
  /\ UNCHANGED <<shared, completed, signaled, target, pc, owed>>

Destroyable == tpc = "exited" /\ \A c \in Clients : pc[c] = "gone"

(* mp_dispatch_queue was destroyed: nothing happens any more. *)
Destroyed == Destroyable /\ UNCHANGED vars

-----------------------------------------------------------------------------
(* What a client does to finish a call it has begun. *)
ClientStep(c) ==
  \/ CallWakeupFn(c)
  \/ RunWakeup(c) \/ RunSleep(c) \/ RunReturn(c)
  \/ LockWakeup(c) \/ LockRecheck(c) \/ LockWait1(c) \/ LockWait2(c)
  \/ Unlock(c)

ClientCall(c) ==
  \/ \E kind \in {"sync", "exit"} : RunAppend(c, kind)
  \/ LockRequest(c)
  \/ ClientLeave(c)

ThreadCall(t) ==
  \/ \E f \in Fns, kind \in {"async", "notify"} : Enqueue(t, f, kind)
  \/ \E f \in Fns : CancelFn(t, f)
  \/ Interrupt(t)
  \/ \E until \in {NoWait, Soon} : AdjustTimeout(t, until)

TargetLoop == ProcessBlocked \/ ProcessItem \/ ProcessIdle \/ ProcessLeave

Next ==
  \/ \E c \in Clients : ClientStep(c) \/ ClientCall(c)
  \/ \E t \in Threads : ThreadCall(t) \/ SpuriousWakeup(t)
  \/ \E timeout \in Deadlines : ProcessEnter(timeout)
  \/ TargetLoop
  \/ ProcessItemDone
  \/ ProcessWake
  \/ ProcessTimeout
  \/ ExternalWait
  \/ ExternalWake
  \/ Destroyed

Spec == Init /\ [][Next]_vars

(* Threads that are inside a call come back to finish it: the scheduler    *)
(* runs them, and a mutex that is released again and again is acquired.    *)
(* The target keeps calling mp_dispatch_queue_process(), callbacks return, *)
(* deadlines that are not infinite pass.  No client has to call anything,  *)
(* and spurious wakeups, infinite deadlines and ExternalWait are not fair. *)
Fairness ==
  /\ \A c \in Clients : SF_vars(ClientStep(c))
  /\ WF_vars(\E timeout \in Deadlines : ProcessEnter(timeout))
  /\ WF_vars(TargetLoop)
  /\ WF_vars(ProcessItemDone)
  /\ WF_vars(ProcessWake)
  /\ WF_vars(armed = Soon /\ ProcessTimeout)
  /\ WF_vars(ExternalWake)

FairSpec == Spec /\ Fairness

-----------------------------------------------------------------------------
(* Properties *)

Lockers == {c \in Clients : pc[c] \in LockPcs \cup {"holding"}}

(* dispatch.c:358: while a client is between mp_dispatch_lock() and        *)
(* mp_dispatch_unlock(), no other client is, and the target is trapped in  *)
(* mp_dispatch_queue_process() without running a callback.                 *)
ExclusiveAccess ==
  \A c \in Clients :
    pc[c] = "holding" =>
      /\ Trapped
      /\ \A d \in Clients \ {c} : pc[d] # "holding"

(* lock_requests counts the threads in mp_dispatch_lock() or holding the   *)
(* lock; as long as there is one the target stays trapped once it arrived. *)
RequestsCounted ==
  /\ lock_requests = Cardinality(Lockers)
  /\ locked_explicit # NoClient => Trapped

(* Every thread asleep on queue->cond has a reason to be: whatever makes   *)
(* its loop condition change also wakes it.  There is one condition        *)
(* variable for five different waits, so each change must be broadcast.    *)
(* A target that blocks elsewhere has been told by wakeup_fn, or will be.  *)
NoLostWakeup ==
  /\ Target \in asleep =>
       \/ tpc = "lockwait" /\ lock_requests > 0
       \/ /\ tpc = "timedwait"
          /\ queue = <<>>
          /\ ~interrupted
          /\ armed = wait
  /\ tpc = "external" /\ queue # <<>> /\ ~signaled =>
       \E c \in Clients : pc[c] \in {"wakeup", "runwakeup"}
  /\ tpc = "external" /\ ~signaled =>
       \A c \in Clients : pc[c] \notin {"lockwait1", "lockrecheck", "lockwait2"}
  /\ \A c \in Clients \cap asleep :
       \/ pc[c] = "runwait" /\ c \notin completed
       \/ pc[c] = "lockwait1" /\ ~in_process
       \/ pc[c] = "lockwait2" /\ locked

(* dispatch.c:237: the item of a mp_dispatch_run() call is on the caller's *)
(* stack: it is queued, running or completed, exactly once, as long as the *)
(* caller is inside the call, and unknown to the queue otherwise.          *)
RunItemOwned ==
  \A c \in Clients :
    Cardinality({i \in DOMAIN queue : queue[i].fn = c})
      + (IF tpc = "callback" /\ cur.fn = c THEN 1 ELSE 0)
      + (IF c \in completed THEN 1 ELSE 0)
    = IF pc[c] \in RunPcs THEN 1 ELSE 0

(* dispatch.c:196: a notification is merged only with one that has not     *)
(* begun to run, so the callback still runs after it; and it is queued     *)
(* only once.                                                              *)
NotificationPending ==
  \A f \in Fns :
    /\ f \in owed => \E i \in DOMAIN queue : queue[i] = [fn |-> f, kind |-> "notify"]
    /\ Cardinality({i \in DOMAIN queue : queue[i] = [fn |-> f, kind |-> "notify"]}) <= 1

(* dispatch.c:76: ending all senders, then running a callback that makes   *)
(* the target exit and joining it, leaves a queue that queue_dtor()'s      *)
(* assertions accept.                                                      *)
DestroySafe ==
  Destroyable => /\ queue = <<>>
                 /\ ~in_process
                 /\ lock_requests = 0
                 /\ ~locked

(* The queue as a monitor over the target's state. *)
Owner ==
  IF locked_explicit # NoClient THEN locked_explicit
  ELSE IF Trapped THEN NoClient ELSE Target

Monitor == INSTANCE DispatchMonitor WITH
  Nobody <- NoClient, owner <- Owner, requests <- Lockers

(* dispatch.c:358: the dispatch lock behaves like a mutex over the state   *)
(* of the target, which gets its own state back only when no lock is       *)
(* requested; requests are granted as long as the target keeps coming.     *)
ImplementsMonitor == Monitor!FairSpec

(* mp_dispatch_run() returns unless lockers keep the target away for ever. *)
RunReturns ==
  \A c \in Clients :
    pc[c] \in RunPcs ~> (pc[c] \notin RunPcs \/ lock_requests > 0)

=============================================================================

--------------------------- MODULE DispatchProofs ---------------------------
(***************************************************************************)
(* Proofs about Dispatch: the dispatch lock is exclusive, no thread that   *)
(* sleeps on queue->cond has missed its wakeup, and the queue implements   *)
(* the abstract monitor, for any number of clients, any set of callbacks   *)
(* and a queue of any length.                                              *)
(***************************************************************************)
EXTENDS Dispatch, SequenceLemmas

(* The part of the type invariant the proofs need. *)
ControlTypeOK ==
  /\ lock_requests \in Nat
  /\ locked \in BOOLEAN
  /\ in_process \in BOOLEAN
  /\ locked_explicit \in Clients \cup {NoClient}
  /\ tpc \in TargetPcs
  /\ asleep \subseteq Threads
  /\ pc \in [Clients -> ClientPcs]

(* How the flags of the queue relate to where the threads are. *)
FlagsOK ==
  /\ \A c \in Clients : pc[c] = "holding" <=> locked_explicit = c
  /\ in_process <=> tpc \in {"loop", "lockwait", "timedwait", "callback"}
  /\ locked <=> (tpc = "callback" \/ locked_explicit # NoClient)
  /\ \A c \in Clients : pc[c] = "lockwait2" => in_process

IInv == ControlTypeOK /\ FlagsOK /\ RequestsCounted

-----------------------------------------------------------------------------
(* Counting the lockers *)

(* The set of lockers is finite: Cardinality means something. *)
LEMMA LockersFinite == IsFiniteSet(Lockers) /\ IsFiniteSet(Lockers')
BY DispatchAssumption, FS_Subset DEF Lockers

(* A client that stays a locker, or stays none, leaves the set as it is. *)
LEMMA LockersSame ==
  ASSUME pc \in [Clients -> ClientPcs], NEW c \in Clients, NEW label,
         pc' = [pc EXCEPT ![c] = label],
         pc[c] \in LockPcs \cup {"holding"} <=> label \in LockPcs \cup {"holding"}
  PROVE  Lockers' = Lockers
BY DEF Lockers

(* mp_dispatch_lock() adds one locker. *)
LEMMA LockersAdd ==
  ASSUME pc \in [Clients -> ClientPcs], NEW c \in Clients, NEW label,
         pc' = [pc EXCEPT ![c] = label],
         pc[c] \notin LockPcs \cup {"holding"}, label \in LockPcs \cup {"holding"}
  PROVE  Cardinality(Lockers') = Cardinality(Lockers) + 1
<1>1. Lockers' = Lockers \cup {c} /\ c \notin Lockers
  BY DEF Lockers
<1> QED
  BY <1>1, LockersFinite, FS_AddElement

(* mp_dispatch_unlock() removes one. *)
LEMMA LockersRemove ==
  ASSUME pc \in [Clients -> ClientPcs], NEW c \in Clients, NEW label,
         pc' = [pc EXCEPT ![c] = label],
         pc[c] \in LockPcs \cup {"holding"}, label \notin LockPcs \cup {"holding"}
  PROVE  Cardinality(Lockers') = Cardinality(Lockers) - 1
<1>1. Lockers' = Lockers \ {c} /\ c \in Lockers
  BY DEF Lockers
<1> QED
  BY <1>1, LockersFinite, FS_RemoveElement

(* As long as there is a locker, lock_requests is not zero. *)
LEMMA LockerCounted ==
  ASSUME RequestsCounted, NEW c \in Lockers
  PROVE  lock_requests > 0
<1>1. Cardinality(Lockers) # 0
  BY LockersFinite, FS_EmptySet
<1>2. Cardinality(Lockers) \in Nat
  BY LockersFinite, FS_CardinalityType
<1> QED
  BY <1>1, <1>2 DEF RequestsCounted

-----------------------------------------------------------------------------
(* The inductive invariant *)

(* A freshly created queue satisfies the invariant.                        *)
LEMMA InitIInv == Init => IInv
<1> SUFFICES ASSUME Init PROVE IInv
  OBVIOUS
<1>1. Lockers = {}
  BY DEF Init, Lockers, LockPcs
<1>2. Cardinality(Lockers) = 0
  BY <1>1, FS_EmptySet
<1> QED
  BY <1>2, DispatchAssumption
  DEF Init, IInv, ControlTypeOK, FlagsOK, RequestsCounted, TargetPcs, ClientPcs, Threads

(* Steps that leave every client where it is, or move it between places    *)
(* that count alike, leave the number of lockers alone.                    *)
LEMMA RequestsKept ==
  ASSUME RequestsCounted, Lockers' = Lockers, lock_requests' = lock_requests,
         locked_explicit' # NoClient => tpc' \in {"loop", "lockwait", "timedwait"}
  PROVE  RequestsCounted'
BY DEF RequestsCounted, Trapped

(* Taking the lock, or going to sleep for it, from inside mp_dispatch_lock.*)
LEMMA TakeOrSleepStep ==
  ASSUME IInv, NEW c \in Clients, TakeOrSleep(c), in_process,
         pc[c] # "holding",
         UNCHANGED <<tpc, in_process>>, MutexFree
  PROVE  /\ locked' \in BOOLEAN
         /\ locked_explicit' \in Clients \cup {NoClient}
         /\ asleep' \subseteq Threads
         /\ pc' \in [Clients -> ClientPcs]
         /\ FlagsOK'
         /\ locked_explicit' # NoClient => tpc' \in {"loop", "lockwait", "timedwait"}
         /\ \E label \in {"holding", "lockwait2"} : pc' = [pc EXCEPT ![c] = label]
<1>1. CASE ~locked
  BY <1>1, DispatchAssumption
  DEF TakeOrSleep, IInv, ControlTypeOK, FlagsOK, RequestsCounted, Trapped, Goto, ClientPcs, LockPcs, Threads
<1>2. CASE locked
  BY <1>2, DispatchAssumption
  DEF TakeOrSleep, IInv, ControlTypeOK, FlagsOK, RequestsCounted, Trapped, Goto, ClientPcs, LockPcs, Threads
<1> QED
  BY <1>1, <1>2 DEF IInv, ControlTypeOK

(* A step of the target that changes no client. *)
LEMMA TargetStepIInv ==
  ASSUME IInv,
         \/ \E timeout \in Deadlines : ProcessEnter(timeout)
         \/ TargetLoop \/ ProcessItemDone \/ ProcessWake \/ ProcessTimeout
         \/ ExternalWait \/ ExternalWake
  PROVE  IInv'
<1>1. pc' = pc /\ lock_requests' = lock_requests /\ locked_explicit' = locked_explicit
  BY DEF ProcessEnter, TargetLoop, ProcessBlocked, ProcessItem, ProcessIdle, NothingToDo,
         ProcessLeave, ProcessItemDone, ProcessWake, ProcessTimeout,
         ExternalWait, ExternalWake, shared
<1>2. Lockers' = Lockers
  BY <1>1 DEF Lockers
<1>3. ASSUME lock_requests = 0 PROVE locked_explicit = NoClient /\ \A c \in Clients : pc[c] # "lockwait2"
  <2>1. \A c \in Clients : c \notin Lockers
    BY <1>3, LockerCounted DEF IInv, ControlTypeOK
  <2> QED
    BY <2>1 DEF IInv, ControlTypeOK, FlagsOK, Lockers, LockPcs
<1>4. ControlTypeOK'
  BY <1>1 DEF IInv, ControlTypeOK, ProcessEnter, TargetLoop, ProcessBlocked,
         ProcessItem, ProcessIdle, NothingToDo, ProcessLeave, ProcessItemDone, ProcessWake,
         ProcessTimeout, ExternalWait, ExternalWake, shared, TargetPcs,
         Threads, Broadcast
<1>5. FlagsOK' /\ (locked_explicit' # NoClient => tpc' \in {"loop", "lockwait", "timedwait"})
  <2>1. CASE \E timeout \in Deadlines : ProcessEnter(timeout)
    BY <2>1 DEF IInv, FlagsOK, RequestsCounted, Trapped, ProcessEnter
  <2>2. CASE ProcessBlocked
    BY <2>2 DEF IInv, FlagsOK, ProcessBlocked, shared
  <2>3. CASE ProcessItem
    BY <2>3, <1>3 DEF IInv, FlagsOK, ProcessItem
  <2>4. CASE ProcessIdle
    BY <2>4, <1>3 DEF IInv, FlagsOK, ProcessIdle, NothingToDo, shared
  <2>5. CASE ProcessLeave
    BY <2>5, <1>3 DEF IInv, FlagsOK, ProcessLeave, NothingToDo
  <2>6. CASE ProcessItemDone
    BY <2>6 DEF IInv, FlagsOK, RequestsCounted, Trapped, ProcessItemDone
  <2>7. CASE ProcessWake
    BY <2>7 DEF IInv, FlagsOK, ProcessWake, shared
  <2>8. CASE ProcessTimeout
    BY <2>8 DEF IInv, FlagsOK, ProcessTimeout
  <2>9. CASE ExternalWait \/ ExternalWake
    BY <2>9 DEF IInv, FlagsOK, RequestsCounted, Trapped, ExternalWait, ExternalWake, shared
  <2> QED
    BY <2>1, <2>2, <2>3, <2>4, <2>5, <2>6, <2>7, <2>8, <2>9 DEF TargetLoop
<1>6. RequestsCounted'
  BY <1>1, <1>2, <1>5, RequestsKept DEF IInv
<1> QED
  BY <1>4, <1>5, <1>6 DEF IInv

(* Client c goes to label, neither of the two being in or near the lock,   *)
(* or both inside mp_dispatch_lock().                                      *)
Moves(c, label) ==
  /\ pc' = [pc EXCEPT ![c] = label]
  /\ label \in ClientPcs \ {"holding", "lockwait2"}
  /\ pc[c] # "holding"
  /\ pc[c] \in LockPcs <=> label \in LockPcs

(* The flags of the lock and the place of the target stay what they are.   *)
Quiet ==
  /\ asleep' \subseteq Threads
  /\ UNCHANGED <<in_process, locked, lock_requests, locked_explicit, tpc>>

(* Client c is in mp_dispatch_lock() and takes the lock or sleeps for it.  *)
Waits(c) ==
  /\ pc[c] \in LockPcs
  /\ TakeOrSleep(c)
  /\ in_process
  /\ MutexFree
  /\ UNCHANGED <<tpc, in_process, lock_requests>>

(* Such a move of a client preserves the invariant.                        *)
LEMMA MoveIInv ==
  ASSUME IInv, NEW c \in Clients, \E label : Moves(c, label), Quiet
  PROVE  IInv'
<1>1. PICK label : Moves(c, label)
  OBVIOUS
<1>2. Lockers' = Lockers
  BY <1>1, LockersSame DEF Moves, IInv, ControlTypeOK
<1>3. RequestsCounted'
  BY <1>2, RequestsKept DEF IInv, RequestsCounted, Trapped, Quiet
<1>4. FlagsOK'
  BY <1>1, DispatchAssumption DEF Moves, IInv, FlagsOK, ControlTypeOK, Quiet
<1> QED
  BY <1>1, <1>3, <1>4 DEF Moves, IInv, ControlTypeOK, Quiet

(* A step that moves no client and touches no flag of the lock. *)
LEMMA QuietIInv ==
  ASSUME IInv, UNCHANGED pc, Quiet
  PROVE  IInv'
<1>1. Lockers' = Lockers
  BY DEF Lockers
<1> QED
  BY <1>1 DEF IInv, ControlTypeOK, FlagsOK, RequestsCounted, Trapped, Quiet

(* A step in which a waiting client takes the lock or sleeps for it. *)
LEMMA WaiterIInv ==
  ASSUME IInv, NEW c \in Clients, Waits(c)
  PROVE  IInv'
<1> USE DEF Waits
<1>1. PICK label \in {"holding", "lockwait2"} : pc' = [pc EXCEPT ![c] = label]
  BY TakeOrSleepStep DEF LockPcs
<1>2. Lockers' = Lockers
  BY <1>1, LockersSame DEF IInv, ControlTypeOK, LockPcs
<1>3. RequestsCounted'
  BY <1>2, TakeOrSleepStep, RequestsKept DEF IInv, LockPcs
<1> QED
  BY <1>3, TakeOrSleepStep DEF IInv, ControlTypeOK, LockPcs

(* Entering mp_dispatch_lock() preserves it: one locker, one request more. *)
LEMMA LockRequestIInv ==
  ASSUME IInv, NEW c \in Clients, LockRequest(c)
  PROVE  IInv'
<1>1. \E label \in {"holding", "lockwait2", "lockwakeup"} : pc' = [pc EXCEPT ![c] = label]
  <2>1. CASE in_process
    BY <2>1 DEF LockRequest, TakeOrSleep, Goto
  <2>2. CASE ~in_process
    BY <2>2 DEF LockRequest, Goto
  <2> QED
    BY <2>1, <2>2
<1>2. Cardinality(Lockers') = Cardinality(Lockers) + 1
  BY <1>1, LockersAdd DEF IInv, ControlTypeOK, LockRequest, LockPcs
<1>3. /\ locked' \in BOOLEAN
      /\ locked_explicit' \in Clients \cup {NoClient}
      /\ asleep' \subseteq Threads
      /\ pc' \in [Clients -> ClientPcs]
      /\ FlagsOK'
      /\ locked_explicit' # NoClient => tpc' \in {"loop", "lockwait", "timedwait"}
  <2>1. CASE in_process
    BY <2>1, TakeOrSleepStep DEF LockRequest, target
  <2>2. CASE ~in_process
    BY <2>2, DispatchAssumption
    DEF LockRequest, target, IInv, ControlTypeOK, FlagsOK, RequestsCounted,
        Trapped, Goto, ClientPcs, LockPcs
  <2> QED
    BY <2>1, <2>2
<1>4. RequestsCounted'
  BY <1>2, <1>3 DEF IInv, RequestsCounted, LockRequest, Trapped
<1> QED
  BY <1>3, <1>4 DEF IInv, ControlTypeOK, LockRequest, target

(* So does mp_dispatch_unlock(): one locker, one request less.             *)
LEMMA UnlockIInv ==
  ASSUME IInv, NEW c \in Clients, Unlock(c)
  PROVE  IInv'
<1>1. Cardinality(Lockers') = Cardinality(Lockers) - 1
  BY LockersRemove DEF IInv, ControlTypeOK, Unlock, Goto, LockPcs
<1>2. lock_requests > 0
  BY LockerCounted DEF IInv, Lockers, Unlock
<1>3. tpc' = tpc /\ in_process' = in_process
  BY DEF Unlock, target
<1>4. ControlTypeOK'
  <2>1. lock_requests' \in Nat
    BY <1>2 DEF IInv, ControlTypeOK, Unlock
  <2>2. pc' \in [Clients -> ClientPcs]
    BY DEF IInv, ControlTypeOK, Unlock, Goto, ClientPcs
  <2> QED
    BY <1>3, <2>1, <2>2 DEF IInv, ControlTypeOK, Unlock, Broadcast
<1>5. FlagsOK'
  BY <1>3, DispatchAssumption
  DEF IInv, ControlTypeOK, FlagsOK, RequestsCounted, Trapped, Unlock, Goto, Threads
<1>6. RequestsCounted'
  BY <1>1 DEF IInv, RequestsCounted, Unlock, Trapped
<1> QED
  BY <1>4, <1>5, <1>6 DEF IInv

(* Appending an item touches no flag of the lock. *)
LEMMA AppendQuiet ==
  ASSUME ControlTypeOK, NEW item, Append_(item)
  PROVE  /\ asleep' \subseteq Threads
         /\ UNCHANGED <<in_process, locked, lock_requests, locked_explicit>>
BY DEF ControlTypeOK, Append_, Broadcast, shared

(* What a call any thread may make amounts to: it leaves the lock alone.   *)
CallCase(t) == Quiet /\ (UNCHANGED pc \/ (t \in Clients /\ \E label : Moves(t, label)))

(* Every such call is one.                                                 *)
LEMMA ThreadCallCases ==
  ASSUME IInv, NEW t \in Threads, ThreadCall(t)
  PROVE  CallCase(t)
<1> USE DEF CallCase
<1>1. ASSUME NEW f \in Fns, NEW kind \in {"async", "notify"}, Enqueue(t, f, kind)
      PROVE  CallCase(t)
  <2>1. Quiet
    BY <1>1, AppendQuiet DEF Enqueue, IInv, target, Quiet
  <2>2. UNCHANGED pc \/ (t \in Clients /\ Moves(t, "wakeup"))
    BY <1>1 DEF Enqueue, MayCall, Goto, Threads, Moves, ClientPcs, LockPcs
  <2> QED
    BY <2>1, <2>2
<1>2. ASSUME NEW f \in Fns, CancelFn(t, f)
      PROVE  CallCase(t)
  BY <1>2 DEF CancelFn, target, Quiet, IInv, ControlTypeOK
<1>3. CASE Interrupt(t)
  BY <1>3 DEF Interrupt, Quiet, Broadcast, target
<1>4. ASSUME NEW until \in {NoWait, Soon}, AdjustTimeout(t, until)
      PROVE  CallCase(t)
  BY <1>4 DEF AdjustTimeout, Quiet, Broadcast, target
<1> QED
  BY <1>1, <1>2, <1>3, <1>4 DEF ThreadCall

(* What a step of a client amounts to.                                     *)
ClientCase(c) ==
  \/ Quiet /\ (UNCHANGED pc \/ \E label : Moves(c, label))
  \/ Waits(c)
  \/ LockRequest(c)
  \/ Unlock(c)

(* Every step of a client is one of these.                                 *)
LEMMA ClientCases ==
  ASSUME IInv, NEW c \in Clients, ClientStep(c) \/ ClientCall(c)
  PROVE  ClientCase(c)
<1> USE DEF ClientCase
<1>0. asleep \subseteq Threads /\ c \in Threads
  BY DEF IInv, ControlTypeOK, Threads
<1>1. CASE CallWakeupFn(c)
  <2>1. Moves(c, "idle")
    BY <1>1 DEF CallWakeupFn, Goto, Moves, ClientPcs, LockPcs, RunPcs
  <2> QED
    BY <1>0, <1>1, <2>1 DEF Quiet, CallWakeupFn, shared, target
<1>2. CASE RunWakeup(c)
  <2>1. Moves(c, "runwait")
    BY <1>2 DEF RunWakeup, Goto, Moves, ClientPcs, LockPcs, RunPcs
  <2> QED
    BY <1>0, <1>2, <2>1 DEF Quiet, RunWakeup, shared, target
<1>3. CASE RunSleep(c)
  BY <1>0, <1>3 DEF Quiet, RunSleep, shared, target
<1>4. CASE RunReturn(c)
  <2>1. Moves(c, IF terminate THEN "gone" ELSE "idle")
    BY <1>4 DEF RunReturn, Goto, Moves, ClientPcs, LockPcs
  <2> QED
    BY <1>0, <1>4, <2>1 DEF Quiet, RunReturn, shared, target
<1>5. CASE LockWakeup(c)
  <2>1. Moves(c, "lockrecheck")
    BY <1>5 DEF LockWakeup, Goto, Moves, ClientPcs, LockPcs, RunPcs
  <2> QED
    BY <1>0, <1>5, <2>1 DEF Quiet, LockWakeup, shared, target
<1>6. CASE LockRecheck(c)
  <2>1. CASE in_process
    BY <1>6, <2>1 DEF Waits, LockRecheck, target, LockPcs
  <2>2. CASE ~in_process
    <3>1. Moves(c, "lockwait1")
      BY <1>6, <2>2 DEF LockRecheck, Goto, Moves, ClientPcs, LockPcs
    <3> QED
      BY <1>0, <1>6, <2>2, <3>1 DEF Quiet, LockRecheck, target
  <2> QED
    BY <2>1, <2>2
<1>7. CASE LockWait1(c)
  <2>1. CASE in_process
    BY <1>7, <2>1 DEF Waits, LockWait1, target, LockPcs
  <2>2. CASE ~in_process
    <3>1. Moves(c, "lockwakeup")
      BY <1>7, <2>2 DEF LockWait1, Goto, Moves, ClientPcs, LockPcs
    <3> QED
      BY <1>0, <1>7, <2>2, <3>1 DEF Quiet, LockWait1, target
  <2> QED
    BY <2>1, <2>2
<1>8. CASE LockWait2(c)
  BY <1>8 DEF Waits, LockWait2, target, IInv, FlagsOK, LockPcs
<1>9. CASE Unlock(c)
  BY <1>9
<1>10. ASSUME NEW kind \in {"sync", "exit"}, RunAppend(c, kind)
       PROVE  ClientCase(c)
  <2>1. Moves(c, IF wakeup_fn THEN "runwakeup" ELSE "runwait")
    BY <1>10 DEF RunAppend, Goto, Moves, ClientPcs, LockPcs, RunPcs
  <2> QED
    BY <1>10, <2>1, AppendQuiet DEF Quiet, RunAppend, target, IInv
<1>11. CASE LockRequest(c)
  BY <1>11
<1>12. CASE ClientLeave(c)
  <2>1. Moves(c, "gone")
    BY <1>12 DEF ClientLeave, Goto, Moves, ClientPcs, LockPcs, RunPcs
  <2> QED
    BY <1>0, <1>12, <2>1 DEF Quiet, ClientLeave, shared, target
<1> QED
  BY <1>1, <1>2, <1>3, <1>4, <1>5, <1>6, <1>7, <1>8, <1>9, <1>10, <1>11, <1>12
  DEF ClientStep, ClientCall

(* Every step preserves it.                                                *)
LEMMA NextIInv == IInv /\ [Next]_vars => IInv'
<1> SUFFICES ASSUME IInv, [Next]_vars PROVE IInv'
  OBVIOUS
<1>0. asleep \subseteq Threads
  BY DEF IInv, ControlTypeOK
<1>1. ASSUME NEW c \in Clients, ClientStep(c) \/ ClientCall(c) PROVE IInv'
  <2>1. ClientCase(c)
    BY <1>1, ClientCases
  <2> QED
    BY <2>1, QuietIInv, MoveIInv, WaiterIInv, LockRequestIInv, UnlockIInv DEF ClientCase
<1>2. ASSUME NEW t \in Threads, ThreadCall(t) PROVE IInv'
  BY <1>2, ThreadCallCases, QuietIInv, MoveIInv DEF CallCase
<1>3. ASSUME NEW t \in Threads, SpuriousWakeup(t) PROVE IInv'
  BY <1>0, <1>3, QuietIInv DEF SpuriousWakeup, shared, target, Quiet
<1>4. CASE Destroyed \/ UNCHANGED vars
  BY <1>0, <1>4, QuietIInv DEF Destroyed, vars, shared, target, Quiet
<1> QED
  BY <1>1, <1>2, <1>3, <1>4, TargetStepIInv DEF Next

(* The flags agree with where the threads are, in every reachable state.   *)
THEOREM InductiveInvariant == Spec => []IInv
BY InitIInv, NextIInv, PTL DEF Spec

-----------------------------------------------------------------------------
(* The dispatch lock *)

(* dispatch.c:358: mp_dispatch_lock() gives exclusive access to the state  *)
(* of the target: no second holder, no callback, no target outside of      *)
(* mp_dispatch_queue_process().                                            *)
THEOREM Exclusion == Spec => []ExclusiveAccess
<1>1. IInv => ExclusiveAccess
  BY DispatchAssumption DEF IInv, FlagsOK, RequestsCounted, ExclusiveAccess, Threads
<1> QED
  BY <1>1, InductiveInvariant, PTL

(* lock_requests is the number of threads that want or have the lock.      *)
THEOREM Counting == Spec => []RequestsCounted
<1>1. IInv => RequestsCounted
  BY DEF IInv
<1> QED
  BY <1>1, InductiveInvariant, PTL

-----------------------------------------------------------------------------
(* Sleeping threads *)

(* With a wakeup callback, a target that is about to block in its own      *)
(* event loop has been signaled, or will be, if something waits for it.    *)
WakeupOwed ==
  /\ tpc = "external" => wakeup_fn
  /\ wakeup_fn /\ tpc \in {"out", "external"} /\ ~signaled =>
       /\ queue # <<>> => \E c \in Clients : pc[c] \in {"wakeup", "runwakeup"}
       /\ \A c \in Clients : pc[c] \notin {"lockrecheck", "lockwait1", "lockwait2"}

WInv == IInv /\ NoLostWakeup /\ WakeupOwed

(* A client in mp_dispatch_lock() keeps the target from leaving.           *)
LEMMA NoRequestNoLocker ==
  ASSUME IInv, lock_requests = 0, NEW c \in Clients
  PROVE  pc[c] \notin LockPcs
BY LockerCounted DEF IInv, ControlTypeOK, Lockers

(* The target's steps leave no sleeper behind.                             *)
LEMMA TargetStepWInv ==
  ASSUME WInv, IInv',
         \/ \E timeout \in Deadlines : ProcessEnter(timeout)
         \/ TargetLoop \/ ProcessItemDone \/ ProcessWake \/ ProcessTimeout
         \/ ExternalWait \/ ExternalWake
  PROVE  NoLostWakeup' /\ WakeupOwed'
<1> USE DispatchAssumption DEF WInv, NoLostWakeup, WakeupOwed, LockPcs
<1>0. ASSUME lock_requests = 0, NEW c \in Clients PROVE pc[c] \notin LockPcs
  BY <1>0, NoRequestNoLocker
<1>1. CASE \E timeout \in Deadlines : ProcessEnter(timeout)
  BY <1>0, <1>1 DEF ProcessEnter, IInv, ControlTypeOK, Threads
<1>2. CASE ProcessBlocked
  BY <1>2 DEF ProcessBlocked, shared, IInv, ControlTypeOK, FlagsOK, Threads
<1>3. CASE ProcessItem
  BY <1>0, <1>3 DEF ProcessItem, IInv, ControlTypeOK, FlagsOK, Threads
<1>4. CASE ProcessItemDone
  BY <1>4 DEF ProcessItemDone, Broadcast, IInv, ControlTypeOK, FlagsOK, Threads
<1>5. CASE ProcessIdle
  BY <1>0, <1>5 DEF ProcessIdle, NothingToDo, shared, IInv, ControlTypeOK, FlagsOK, Threads
<1>6. CASE ProcessLeave
  BY <1>0, <1>6 DEF ProcessLeave, NothingToDo, IInv, ControlTypeOK, FlagsOK, Threads
<1>7. CASE ProcessWake
  BY <1>7 DEF ProcessWake, shared, IInv, ControlTypeOK, FlagsOK, Threads
<1>8. CASE ProcessTimeout
  BY <1>8 DEF ProcessTimeout, IInv, ControlTypeOK, FlagsOK, Threads
<1>9. CASE ExternalWait
  BY <1>9 DEF ExternalWait, shared, IInv, ControlTypeOK, FlagsOK, Threads
<1>10. CASE ExternalWake
  BY <1>10 DEF ExternalWake, shared, IInv, ControlTypeOK, FlagsOK, Threads
<1> QED
  BY <1>1, <1>2, <1>3, <1>4, <1>5, <1>6, <1>7, <1>8, <1>9, <1>10 DEF TargetLoop

(* Nor do the clients' steps.                                              *)
LEMMA ClientWInv ==
  ASSUME WInv, IInv', NEW c \in Clients, ClientStep(c) \/ ClientCall(c)
  PROVE  NoLostWakeup' /\ WakeupOwed'
<1> USE DispatchAssumption DEF WInv, NoLostWakeup, WakeupOwed, RunPcs
<1>1. CASE CallWakeupFn(c)
  BY <1>1 DEF CallWakeupFn, shared, Goto, target, IInv, ControlTypeOK, FlagsOK, Threads
<1>2. CASE RunWakeup(c)
  BY <1>2 DEF RunWakeup, shared, Goto, target, IInv, ControlTypeOK, FlagsOK, Threads
<1>3. CASE RunSleep(c)
  BY <1>3 DEF RunSleep, shared, target, IInv, ControlTypeOK, FlagsOK, Threads
<1>4. CASE RunReturn(c)
  BY <1>4 DEF RunReturn, shared, Goto, target, IInv, ControlTypeOK, FlagsOK, Threads
<1>5. CASE LockWakeup(c)
  BY <1>5 DEF LockWakeup, shared, Goto, target, IInv, ControlTypeOK, FlagsOK, Threads
<1>6. CASE LockRecheck(c)
  BY <1>6 DEF LockRecheck, TakeOrSleep, Goto, target, IInv, ControlTypeOK, FlagsOK, Threads
<1>7. CASE LockWait1(c)
  BY <1>7 DEF LockWait1, TakeOrSleep, Goto, target, IInv, ControlTypeOK, FlagsOK, Threads
<1>8. CASE LockWait2(c)
  BY <1>8 DEF LockWait2, TakeOrSleep, Goto, target, IInv, ControlTypeOK, FlagsOK, Threads
<1>9. CASE Unlock(c)
  BY <1>9 DEF Unlock, Broadcast, Goto, target, IInv, ControlTypeOK, FlagsOK, Threads
<1>10. CASE LockRequest(c)
  BY <1>10 DEF LockRequest, TakeOrSleep, Goto, target, IInv, ControlTypeOK, FlagsOK, Threads
<1>11. CASE ClientLeave(c)
  BY <1>11 DEF ClientLeave, shared, Goto, target, IInv, ControlTypeOK, FlagsOK, Threads
<1>12. ASSUME NEW kind \in {"sync", "exit"}, RunAppend(c, kind)
       PROVE  NoLostWakeup' /\ WakeupOwed'
  BY <1>12 DEF RunAppend, Append_, Broadcast, Goto, shared, target, IInv, ControlTypeOK, Threads
<1> QED
  BY <1>1, <1>2, <1>3, <1>4, <1>5, <1>6, <1>7, <1>8, <1>9, <1>10, <1>11, <1>12 DEF ClientStep, ClientCall

(* Nor do calls any thread may make.                                       *)
LEMMA ThreadCallWInv ==
  ASSUME WInv, IInv', NEW t \in Threads, ThreadCall(t)
  PROVE  NoLostWakeup' /\ WakeupOwed'
<1> USE DispatchAssumption DEF WInv, NoLostWakeup, WakeupOwed, RunPcs
<1>1. ASSUME NEW f \in Fns, NEW kind \in {"async", "notify"}, Enqueue(t, f, kind)
      PROVE  NoLostWakeup' /\ WakeupOwed'
  BY <1>1 DEF Enqueue, Append_, Mergeable, Broadcast, Goto, MayCall, shared, target, IInv, ControlTypeOK, Threads
<1>2. ASSUME NEW f \in Fns, CancelFn(t, f)
      PROVE  NoLostWakeup' /\ WakeupOwed'
  BY <1>2 DEF CancelFn, target
<1>3. CASE Interrupt(t)
  BY <1>3 DEF Interrupt, Broadcast, target
<1>4. ASSUME NEW until \in {NoWait, Soon}, AdjustTimeout(t, until)
      PROVE  NoLostWakeup' /\ WakeupOwed'
  BY <1>4 DEF AdjustTimeout, Broadcast, target
<1> QED
  BY <1>1, <1>2, <1>3, <1>4 DEF ThreadCall

(* WInv is inductive.                                                      *)
LEMMA NextWInv == WInv /\ [Next]_vars => WInv'
<1> SUFFICES ASSUME WInv, [Next]_vars PROVE NoLostWakeup' /\ WakeupOwed'
  BY NextIInv DEF WInv
<1>0. IInv'
  BY NextIInv DEF WInv
<1>1. ASSUME NEW c \in Clients, ClientStep(c) \/ ClientCall(c)
      PROVE  NoLostWakeup' /\ WakeupOwed'
  BY <1>0, <1>1, ClientWInv
<1>2. ASSUME NEW t \in Threads, ThreadCall(t)
      PROVE  NoLostWakeup' /\ WakeupOwed'
  BY <1>0, <1>2, ThreadCallWInv
<1>3. ASSUME NEW t \in Threads, SpuriousWakeup(t)
      PROVE  NoLostWakeup' /\ WakeupOwed'
  BY <1>3 DEF SpuriousWakeup, shared, target, WInv, NoLostWakeup, WakeupOwed
<1>4. CASE Destroyed \/ UNCHANGED vars
  BY <1>4 DEF Destroyed, vars, shared, target, WInv, NoLostWakeup, WakeupOwed
<1> QED
  BY <1>0, <1>1, <1>2, <1>3, <1>4, TargetStepWInv DEF Next

(* No thread sleeps on queue->cond although what it waits for has          *)
(* happened, and no target blocks elsewhere with work left and no wakeup   *)
(* on its way.                                                             *)
THEOREM NoWakeupIsLost == Spec => []NoLostWakeup
<1>1. Init => WInv
  BY InitIInv DEF Init, WInv, NoLostWakeup, WakeupOwed
<1>2. WInv => NoLostWakeup
  BY DEF WInv
<1> QED
  BY <1>1, <1>2, NextWInv, PTL DEF Spec

-----------------------------------------------------------------------------
(* The abstract monitor *)

(* Steps that leave every client, the lock and Trapped alone are stutters. *)
LEMMA OwnerSame ==
  ASSUME UNCHANGED <<pc, locked_explicit>>, Trapped' <=> Trapped
  PROVE  UNCHANGED <<Owner, Lockers>>
BY DEF Owner, Lockers

(* The target gives its state up, and takes it back, as Trap and Resume.   *)
LEMMA TargetStepMonitor ==
  ASSUME IInv,
         \/ \E timeout \in Deadlines : ProcessEnter(timeout)
         \/ TargetLoop \/ ProcessItemDone \/ ProcessWake \/ ProcessTimeout
         \/ ExternalWait \/ ExternalWake
  PROVE  [Monitor!Next]_(Monitor!avars)
<1> USE DEF Monitor!avars
<1>1. UNCHANGED <<pc, locked_explicit>>
  BY DEF ProcessEnter, TargetLoop, ProcessBlocked, ProcessItem, ProcessIdle,
         ProcessLeave, ProcessItemDone, ProcessWake, ProcessTimeout,
         ExternalWait, ExternalWake, shared
<1>2. UNCHANGED Lockers
  BY <1>1 DEF Lockers
<1>3. ASSUME lock_requests = 0 PROVE locked_explicit = NoClient /\ Lockers = {}
  <2>1. \A c \in Clients : c \notin Lockers
    BY <1>3, LockerCounted DEF IInv, ControlTypeOK
  <2> QED
    BY <2>1 DEF IInv, ControlTypeOK, FlagsOK, Lockers
<1>4. CASE (\E timeout \in Deadlines : ProcessEnter(timeout)) \/ ProcessItemDone
  <2>1. ~Trapped /\ Trapped' /\ locked_explicit = NoClient
    BY <1>4 DEF ProcessEnter, ProcessItemDone, IInv, RequestsCounted, Trapped
  <2> QED
    BY <1>1, <1>2, <2>1 DEF Owner, Monitor!Next, Monitor!Trap
<1>5. CASE ProcessItem \/ ProcessLeave
  <2>1. Trapped /\ ~Trapped' /\ lock_requests = 0
    BY <1>5 DEF ProcessItem, ProcessLeave, NothingToDo, Trapped
  <2> QED
    BY <1>1, <1>2, <1>3, <2>1 DEF Owner, Monitor!Next, Monitor!Resume
<1>6. CASE ProcessBlocked \/ ProcessIdle \/ ProcessWake \/ ProcessTimeout
           \/ ExternalWait \/ ExternalWake
  <2>1. Trapped' <=> Trapped
    BY <1>6 DEF ProcessBlocked, ProcessIdle, ProcessWake, ProcessTimeout,
                ExternalWait, ExternalWake, Trapped
  <2> QED
    BY <1>1, <2>1, OwnerSame
<1> QED
  BY <1>4, <1>5, <1>6 DEF TargetLoop

(* A client that takes the lock from inside mp_dispatch_lock() is granted  *)
(* it; one that sleeps again changes nothing the monitor sees.             *)
LEMMA WaiterMonitor ==
  ASSUME IInv, NEW c \in Clients, Waits(c)
  PROVE  [Monitor!Next]_(Monitor!avars)
<1> USE DEF Monitor!avars, Waits
<1>1. PICK label \in {"holding", "lockwait2"} : pc' = [pc EXCEPT ![c] = label]
  BY DEF TakeOrSleep, Goto
<1>2. UNCHANGED Lockers /\ c \in Lockers
  BY <1>1, LockersSame DEF IInv, ControlTypeOK, LockPcs, Lockers
<1>3. CASE ~locked
  <2>1. Owner = NoClient /\ Owner' = c
    BY <1>3, DispatchAssumption
    DEF TakeOrSleep, Owner, Trapped, MutexFree, IInv, ControlTypeOK, FlagsOK, Threads
  <2> QED
    BY <1>2, <2>1 DEF Monitor!Next, Monitor!Grant
<1>4. CASE locked
  BY <1>2, <1>4 DEF TakeOrSleep, Owner, Trapped
<1> QED
  BY <1>3, <1>4 DEF IInv, ControlTypeOK

(* mp_dispatch_lock() requests the lock, and may be granted it at once.    *)
LEMMA LockRequestMonitor ==
  ASSUME IInv, NEW c \in Clients, LockRequest(c)
  PROVE  Monitor!Next
<1>1. \E label \in {"holding", "lockwait2", "lockwakeup"} : pc' = [pc EXCEPT ![c] = label]
  BY DEF LockRequest, TakeOrSleep, Goto
<1>2. c \notin Lockers /\ Lockers' = Lockers \cup {c}
  BY <1>1 DEF Lockers, LockRequest, LockPcs, IInv, ControlTypeOK
<1>3. Owner' = Owner \/ (Owner = NoClient /\ Owner' = c)
  BY DispatchAssumption
  DEF LockRequest, TakeOrSleep, target, Owner, Trapped, MutexFree, IInv,
      ControlTypeOK, FlagsOK, Threads
<1> QED
  BY <1>2, <1>3 DEF Monitor!Next, Monitor!Request

(* mp_dispatch_unlock() gives the state back to nobody.                    *)
LEMMA UnlockMonitor ==
  ASSUME IInv, NEW c \in Clients, Unlock(c)
  PROVE  Monitor!Next
<1>1. Lockers' = Lockers \ {c}
  BY DEF Lockers, Unlock, Goto, LockPcs, IInv, ControlTypeOK
<1>2. Owner = c /\ Owner' = NoClient
  BY DispatchAssumption
  DEF Unlock, target, Owner, Trapped, IInv, ControlTypeOK, FlagsOK, RequestsCounted, Threads
<1> QED
  BY <1>1, <1>2 DEF Monitor!Next, Monitor!Return

(* A move of a client that is not near the lock is invisible.              *)
LEMMA MoveMonitor ==
  ASSUME IInv, NEW c \in Clients, \E label : Moves(c, label),
         Quiet
  PROVE  UNCHANGED Monitor!avars
<1>1. Lockers' = Lockers
  BY LockersSame DEF Moves, IInv, ControlTypeOK
<1> QED
  BY <1>1 DEF Monitor!avars, Owner, Trapped, Quiet

(* So is a step that moves nobody.                                         *)
LEMMA QuietMonitor ==
  ASSUME UNCHANGED pc, Quiet
  PROVE  UNCHANGED Monitor!avars
BY DEF Monitor!avars, Owner, Trapped, Lockers, Quiet

(* The dispatch queue implements the monitor: misc/dispatch.c's lock is a  *)
(* mutex over the target's state that the target itself takes back only    *)
(* when nobody requests it.                                                *)
THEOREM ImplementsMonitorSafety == Spec => Monitor!Spec
<1>1. Init => Monitor!Init
  BY DispatchAssumption
  DEF Init, Monitor!Init, Owner, Trapped, Lockers, LockPcs
<1>2. IInv /\ [Next]_vars => [Monitor!Next]_(Monitor!avars)
  <2> SUFFICES ASSUME IInv, [Next]_vars PROVE [Monitor!Next]_(Monitor!avars)
    OBVIOUS
  <2>1. ASSUME NEW c \in Clients, ClientStep(c) \/ ClientCall(c)
        PROVE  [Monitor!Next]_(Monitor!avars)
    <3>1. ClientCase(c)
      BY <2>1, ClientCases
    <3> QED
      BY <3>1, MoveMonitor, QuietMonitor, WaiterMonitor, LockRequestMonitor,
         UnlockMonitor DEF ClientCase
  <2>2. ASSUME NEW t \in Threads, ThreadCall(t)
        PROVE  [Monitor!Next]_(Monitor!avars)
    BY <2>2, ThreadCallCases, MoveMonitor, QuietMonitor DEF CallCase
  <2>3. ASSUME NEW t \in Threads, SpuriousWakeup(t)
        PROVE  [Monitor!Next]_(Monitor!avars)
    BY <2>3, QuietMonitor DEF SpuriousWakeup, shared, target, Quiet, IInv, ControlTypeOK
  <2>4. CASE Destroyed \/ UNCHANGED vars
    BY <2>4, QuietMonitor DEF Destroyed, vars, shared, target, Quiet, IInv, ControlTypeOK
  <2> QED
    BY <2>1, <2>2, <2>3, <2>4, TargetStepMonitor DEF Next
<1> QED
  BY <1>1, <1>2, InductiveInvariant, PTL DEF Spec, Monitor!Spec

-----------------------------------------------------------------------------
(* The queued items *)

(* The items of client c's mp_dispatch_run(), and a notification.          *)
ItemsOf(c) == {x \in Items : x.fn = c}
Note(f) == [fn |-> f, kind |-> "notify"]

ItemsOK ==
  /\ queue \in Seq(Items)
  /\ completed \subseteq Clients
  /\ tpc = "callback" => cur \in Items

(* RunItemOwned, with the queue's items of a client as a count.            *)
Running(c) == IF tpc = "callback" /\ cur.fn = c THEN 1 ELSE 0
Completed(c) == IF c \in completed THEN 1 ELSE 0
RunOwned ==
  \A c \in Clients : Count(queue, ItemsOf(c)) + Running(c) + Completed(c)
                       = IF pc[c] \in RunPcs THEN 1 ELSE 0

(* NotificationPending, likewise.                                          *)
Notes(f) == Count(queue, {Note(f)})
NotesOwned == \A f \in Fns : Notes(f) <= 1 /\ (f \in owed => Notes(f) = 1)

OInv == IInv /\ ItemsOK /\ RunOwned /\ NotesOwned

LEMMA CountNat == ItemsOK => \A S : Count(queue, S) \in Nat
BY WhereFinite DEF ItemsOK

(* A step that leaves the items where they are.                            *)
SameItems ==
  /\ UNCHANGED <<queue, completed, owed>>
  /\ tpc = "callback" <=> tpc' = "callback"
  /\ tpc = "callback" => UNCHANGED cur
  /\ \A c \in Clients : pc[c] \in RunPcs <=> pc'[c] \in RunPcs

LEMMA SameItemsOInv ==
  ASSUME OInv, SameItems
  PROVE  ItemsOK' /\ RunOwned' /\ NotesOwned'
<1>1. ItemsOK'
  BY DEF OInv, ItemsOK, SameItems
<1>2. \A c \in Clients : Running(c)' = Running(c) /\ Completed(c)' = Completed(c)
  BY DEF SameItems, Running, Completed
<1>3. RunOwned'
  BY <1>2 DEF OInv, RunOwned, SameItems
<1> QED
  BY <1>1, <1>3 DEF OInv, NotesOwned, Notes, SameItems

(* mp_dispatch_append() leaves the items of others alone, and merges a     *)
(* notification only with one that is queued.                              *)
LEMMA AppendCounts ==
  ASSUME ItemsOK, NEW x \in Items, Append_(x), NEW S
  PROVE  /\ queue' \in Seq(Items)
         /\ Count(queue', S) = Count(queue, S) + (IF x \in S /\ ~Mergeable(x) THEN 1 ELSE 0)
<1>1. CASE Mergeable(x)
  BY <1>1, CountNat DEF Append_, shared, ItemsOK
<1>2. CASE ~Mergeable(x)
  <2>1. queue' = Append(queue, x)
    BY <1>2 DEF Append_
  <2> QED
    BY <1>2, <2>1, CountAppend, AppendProperties DEF ItemsOK
<1> QED
  BY <1>1, <1>2

(* A callback is queued: it belongs to no client.                          *)
LEMMA EnqueueOInv ==
  ASSUME OInv, NEW t \in Threads, NEW f \in Fns, NEW kind \in {"async", "notify"},
         Enqueue(t, f, kind)
  PROVE  ItemsOK' /\ RunOwned' /\ NotesOwned'
<1> DEFINE x == [fn |-> f, kind |-> kind]
<1>1. x \in Items /\ \A c \in Clients : x \notin ItemsOf(c)
  BY DispatchAssumption DEF Items, ItemsOf
<1>2. Append_(x) /\ UNCHANGED <<completed, tpc, cur>>
  BY DEF Enqueue, target
<1>3. ItemsOK'
  BY <1>1, <1>2, AppendCounts DEF OInv, ItemsOK
<1>4. RunOwned'
  <2> SUFFICES ASSUME NEW c \in Clients
               PROVE  Count(queue', ItemsOf(c)) + Running(c)' + Completed(c)'
                        = IF pc'[c] \in RunPcs THEN 1 ELSE 0
    BY DEF RunOwned, ItemsOf
  <2>1. Count(queue', ItemsOf(c)) = Count(queue, ItemsOf(c))
    BY <1>1, <1>2, AppendCounts, CountNat DEF OInv
  <2>2. Running(c)' = Running(c) /\ Completed(c)' = Completed(c)
    BY <1>2 DEF Running, Completed
  <2>3. pc[c] \in RunPcs <=> pc'[c] \in RunPcs
    BY DEF Enqueue, Goto, MayCall, RunPcs, OInv, IInv, ControlTypeOK
  <2> QED
    BY <2>1, <2>2, <2>3 DEF OInv, RunOwned
<1>5. NotesOwned'
  <2> SUFFICES ASSUME NEW g \in Fns
               PROVE  Notes(g)' <= 1 /\ (g \in owed' => Notes(g)' = 1)
    BY DEF NotesOwned
  <2>1. Notes(g)' = Notes(g) + (IF x = Note(g) /\ ~Mergeable(x) THEN 1 ELSE 0)
    BY <1>1, <1>2, AppendCounts DEF OInv, Notes, Note
  <2>2. Notes(g) \in Nat
    BY CountNat DEF OInv, Notes
  <2>3. CASE x = Note(g)
    <3>1. Mergeable(x) <=> Notes(g) > 0
      BY <2>3, CountPositive DEF Mergeable, Note, Notes, OInv, ItemsOK
    <3> QED
      BY <2>1, <2>2, <2>3, <3>1 DEF OInv, NotesOwned
  <2>4. CASE x # Note(g)
    <3>1. g \in owed' => g \in owed
      BY <2>4 DEF Enqueue, Note
    <3> QED
      BY <2>1, <2>2, <2>4, <3>1 DEF OInv, NotesOwned
  <2> QED
    BY <2>3, <2>4
<1> QED
  BY <1>3, <1>4, <1>5

(* mp_dispatch_run() queues one item for its caller.                       *)
LEMMA RunAppendOInv ==
  ASSUME OInv, NEW c \in Clients, NEW kind \in {"sync", "exit"}, RunAppend(c, kind)
  PROVE  ItemsOK' /\ RunOwned' /\ NotesOwned'
<1> DEFINE x == [fn |-> c, kind |-> kind]
<1>1. x \in Items /\ ~Mergeable(x) /\ \A d \in Clients : x \in ItemsOf(d) <=> d = c
  BY DEF Items, ItemsOf, Mergeable
<1>2. Append_(x) /\ UNCHANGED <<completed, tpc, cur, owed>>
  BY DEF RunAppend, target
<1>3. ItemsOK'
  BY <1>1, <1>2, AppendCounts DEF OInv, ItemsOK
<1>4. RunOwned'
  <2> SUFFICES ASSUME NEW d \in Clients
               PROVE  Count(queue', ItemsOf(d)) + Running(d)' + Completed(d)'
                        = IF pc'[d] \in RunPcs THEN 1 ELSE 0
    BY DEF RunOwned, ItemsOf
  <2>1. Count(queue', ItemsOf(d)) = Count(queue, ItemsOf(d)) + (IF d = c THEN 1 ELSE 0)
    BY <1>1, <1>2, AppendCounts DEF OInv
  <2>2. Running(d)' = Running(d) /\ Completed(d)' = Completed(d)
    BY <1>2 DEF Running, Completed
  <2>3. /\ pc[c] \notin RunPcs /\ pc'[c] \in RunPcs
        /\ d # c => pc'[d] = pc[d]
    BY DEF RunAppend, Goto, RunPcs, OInv, IInv, ControlTypeOK
  <2>4. Count(queue, ItemsOf(d)) \in Nat /\ Running(d) \in Nat /\ Completed(d) \in Nat
    BY CountNat DEF OInv, Running, Completed
  <2> QED
    BY <2>1, <2>2, <2>3, <2>4 DEF OInv, RunOwned
<1>5. NotesOwned'
  <2> SUFFICES ASSUME NEW g \in Fns
               PROVE  Notes(g)' <= 1 /\ (g \in owed' => Notes(g)' = 1)
    BY DEF NotesOwned
  <2>1. x \notin {Note(g)}
    BY DEF Note
  <2>2. Notes(g)' = Notes(g)
    BY <1>1, <1>2, <2>1, AppendCounts, CountNat DEF OInv, Notes, Note
  <2> QED
    BY <1>2, <2>2 DEF OInv, NotesOwned
<1> QED
  BY <1>3, <1>4, <1>5

(* ... and returns when the item is completed.                             *)
LEMMA RunReturnOInv ==
  ASSUME OInv, NEW c \in Clients, RunReturn(c)
  PROVE  ItemsOK' /\ RunOwned' /\ NotesOwned'
<1>1. UNCHANGED <<queue, tpc, cur, owed>> /\ completed' = completed \ {c} /\ c \in completed
  BY DEF RunReturn, shared, target
<1>2. ItemsOK' /\ NotesOwned'
  BY <1>1 DEF OInv, ItemsOK, NotesOwned, Notes
<1>3. RunOwned'
  <2> SUFFICES ASSUME NEW d \in Clients
               PROVE  Count(queue, ItemsOf(d)) + Running(d)' + Completed(d)'
                        = IF pc'[d] \in RunPcs THEN 1 ELSE 0
    BY <1>1 DEF RunOwned, ItemsOf
  <2>1. Running(d)' = Running(d) /\ (d # c => Completed(d)' = Completed(d))
    BY <1>1 DEF Running, Completed
  <2>2. Completed(c) = 1 /\ Completed(c)' = 0
    BY <1>1 DEF Completed
  <2>3. /\ pc[c] \in RunPcs /\ pc'[c] \notin RunPcs
        /\ d # c => pc'[d] = pc[d]
    BY DEF RunReturn, Goto, RunPcs, OInv, IInv, ControlTypeOK
  <2>4. Count(queue, ItemsOf(d)) \in Nat /\ Running(d) \in Nat /\ Completed(d) \in Nat
    BY CountNat DEF OInv, Running, Completed
  <2> QED
    BY <2>1, <2>2, <2>3, <2>4 DEF OInv, RunOwned
<1> QED
  BY <1>2, <1>3

(* mp_dispatch_cancel_fn() removes the items of one callback, no others.   *)
LEMMA CancelOInv ==
  ASSUME OInv, NEW t \in Threads, NEW f \in Fns, CancelFn(t, f)
  PROVE  ItemsOK' /\ RunOwned' /\ NotesOwned'
<1> DEFINE rest == {i \in DOMAIN queue : queue[i].fn # f}
<1>0. queue \in Seq(Items) /\ UNCHANGED <<completed, tpc, cur, pc>> /\ owed' = owed \ {f}
  BY DEF CancelFn, target, OInv, ItemsOK
<1>a. PICK n \in 0..Len(queue) : \E pos \in [1..n -> rest] :
        /\ \A i, j \in 1..n : i < j => pos[i] < pos[j]
        /\ \A i \in rest : \E j \in 1..n : pos[j] = i
        /\ queue' = Pick(queue, pos, n)
  BY DEF CancelFn, Pick
<1>1. PICK pos \in [1..n -> rest] :
        /\ \A i, j \in 1..n : i < j => pos[i] < pos[j]
        /\ \A i \in rest : \E j \in 1..n : pos[j] = i
        /\ queue' = Pick(queue, pos, n)
  BY <1>a
<1>2. \A i, j \in 1..n : pos[i] = pos[j] => i = j
  <2> SUFFICES ASSUME NEW i \in 1..n, NEW j \in 1..n, pos[i] = pos[j], i # j PROVE FALSE
    OBVIOUS
  <2>1. pos[i] \in Nat /\ pos[j] \in Nat
    BY <1>0, LenProperties
  <2>2. i < j \/ j < i
    OBVIOUS
  <2> QED
    BY <1>1, <2>1, <2>2
<1>3. pos \in [1..n -> DOMAIN queue]
  OBVIOUS
<1>4. queue' \in Seq(Items)
      /\ \A S : Count(queue', S) = Cardinality(WherePicked(queue, pos, n, S))
  BY <1>0, <1>1, <1>2, <1>3, CountPick
<1>5. ASSUME NEW S, \A x \in S : x.fn # f
      PROVE  Count(queue', S) = Count(queue, S)
  <2>1. Where(queue, S) \subseteq rest
    BY <1>5 DEF Where
  <2>2. WherePicked(queue, pos, n, S) = Where(queue, S)
    BY <1>1, <2>1 DEF WherePicked
  <2> QED
    BY <1>4, <2>2 DEF Count
<1>6. Notes(f)' = 0
  <2>1. Where(queue, {Note(f)}) \cap rest = {}
    BY DEF Where, Note
  <2>2. \A j \in 1..n : pos[j] \in rest
    OBVIOUS
  <2>3. WherePicked(queue, pos, n, {Note(f)}) = {}
    BY <2>1, <2>2 DEF WherePicked
  <2>4. Cardinality(WherePicked(queue, pos, n, {Note(f)})) = 0
    BY <2>3, FS_EmptySet
  <2> QED
    BY <1>4, <2>4 DEF Notes, Note
<1>7. RunOwned'
  <2> SUFFICES ASSUME NEW c \in Clients
               PROVE  Count(queue', ItemsOf(c)) + Running(c)' + Completed(c)'
                        = IF pc'[c] \in RunPcs THEN 1 ELSE 0
    BY DEF RunOwned, ItemsOf
  <2>1. \A x \in ItemsOf(c) : x.fn # f
    BY DispatchAssumption DEF ItemsOf
  <2>2. Count(queue', ItemsOf(c)) = Count(queue, ItemsOf(c))
    BY <1>5, <2>1
  <2> QED
    BY <1>0, <2>2 DEF OInv, RunOwned, Running, Completed
<1>8. NotesOwned'
  <2> SUFFICES ASSUME NEW g \in Fns
               PROVE  Notes(g)' <= 1 /\ (g \in owed' => Notes(g)' = 1)
    BY DEF NotesOwned
  <2>1. CASE g = f
    BY <1>0, <1>6, <2>1
  <2>2. CASE g # f
    <3>1. \A x \in {Note(g)} : x.fn # f
      BY <2>2 DEF Note
    <3>2. Notes(g)' = Notes(g)
      BY <1>5, <3>1 DEF Notes, Note
    <3> QED
      BY <1>0, <3>2 DEF OInv, NotesOwned
  <2> QED
    BY <2>1, <2>2
<1> QED
  BY <1>0, <1>4, <1>7, <1>8 DEF OInv, ItemsOK

(* The target takes the first item ...                                     *)
LEMMA ProcessItemOInv ==
  ASSUME OInv, ProcessItem
  PROVE  ItemsOK' /\ RunOwned' /\ NotesOwned'
<1>1. /\ queue \in Seq(Items) /\ queue # <<>> /\ queue' = Tail(queue)
      /\ cur' = Head(queue) /\ tpc # "callback" /\ tpc' = "callback"
      /\ UNCHANGED <<completed, pc>>
  BY DEF ProcessItem, OInv, ItemsOK
<1>2. Head(queue) \in Items /\ Tail(queue) \in Seq(Items)
  BY <1>1, HeadTailProperties
<1>3. \A S : Count(queue', S) = Count(queue, S) - (IF Head(queue) \in S THEN 1 ELSE 0)
  BY <1>1, CountTail
<1>4. RunOwned'
  <2> SUFFICES ASSUME NEW c \in Clients
               PROVE  Count(queue', ItemsOf(c)) + Running(c)' + Completed(c)'
                        = IF pc'[c] \in RunPcs THEN 1 ELSE 0
    BY DEF RunOwned, ItemsOf
  <2>1. Count(queue', ItemsOf(c)) = Count(queue, ItemsOf(c)) - (IF Head(queue).fn = c THEN 1 ELSE 0)
    BY <1>2, <1>3 DEF ItemsOf
  <2>2. Running(c) = 0 /\ Running(c)' = (IF Head(queue).fn = c THEN 1 ELSE 0)
        /\ Completed(c)' = Completed(c)
    BY <1>1 DEF Running, Completed
  <2>3. Count(queue, ItemsOf(c)) \in Nat /\ Completed(c) \in Nat
    BY CountNat DEF OInv, Completed
  <2> QED
    BY <1>1, <2>1, <2>2, <2>3 DEF OInv, RunOwned
<1>5. NotesOwned'
  <2> SUFFICES ASSUME NEW g \in Fns
               PROVE  Notes(g)' <= 1 /\ (g \in owed' => Notes(g)' = 1)
    BY DEF NotesOwned
  <2>1. Notes(g)' = Notes(g) - (IF Head(queue) = Note(g) THEN 1 ELSE 0)
    BY <1>3 DEF Notes, Note
  <2>2. g \in owed' => g \in owed /\ Head(queue) # Note(g)
    BY <1>1 DEF ProcessItem, Note
  <2>3. Notes(g) \in Nat
    BY CountNat DEF OInv, Notes
  <2> QED
    BY <2>1, <2>2, <2>3 DEF OInv, NotesOwned
<1> QED
  BY <1>1, <1>2, <1>4, <1>5 DEF OInv, ItemsOK

(* ... and when its callback has returned, the owner may go on.            *)
LEMMA ProcessItemDoneOInv ==
  ASSUME OInv, ProcessItemDone
  PROVE  ItemsOK' /\ RunOwned' /\ NotesOwned'
<1>1. /\ tpc = "callback" /\ tpc' # "callback" /\ UNCHANGED <<queue, pc, owed>>
      /\ cur \in Items
      /\ completed' = IF cur.kind \in {"sync", "exit"} THEN completed \cup {cur.fn}
                                                      ELSE completed
  BY DEF ProcessItemDone, OInv, ItemsOK
<1>2. cur.fn \in Clients <=> cur.kind \in {"sync", "exit"}
  BY <1>1, DispatchAssumption DEF Items
<1>3. ItemsOK' /\ NotesOwned'
  BY <1>1, <1>2 DEF OInv, ItemsOK, NotesOwned, Notes
<1>4. RunOwned'
  <2> SUFFICES ASSUME NEW c \in Clients
               PROVE  Count(queue, ItemsOf(c)) + Running(c)' + Completed(c)'
                        = IF pc[c] \in RunPcs THEN 1 ELSE 0
    BY <1>1 DEF RunOwned, ItemsOf
  <2>1. /\ Running(c)' = 0
        /\ Running(c) = (IF cur.fn = c THEN 1 ELSE 0)
        /\ Completed(c)' = (IF cur.fn = c THEN 1 ELSE Completed(c))
    BY <1>1, <1>2 DEF Running, Completed
  <2>2. Count(queue, ItemsOf(c)) \in Nat /\ Completed(c) \in {0, 1}
    BY CountNat DEF OInv, Completed
  <2> QED
    BY <2>1, <2>2 DEF OInv, RunOwned
<1> QED
  BY <1>3, <1>4

(* All other steps leave the items alone.                                  *)
LEMMA NextOInv == OInv /\ [Next]_vars => OInv'
<1> SUFFICES ASSUME OInv, [Next]_vars PROVE ItemsOK' /\ RunOwned' /\ NotesOwned'
  BY NextIInv DEF OInv
<1>0. pc \in [Clients -> ClientPcs]
  BY DEF OInv, IInv, ControlTypeOK
<1>1. ASSUME NEW c \in Clients, ClientStep(c) \/ LockRequest(c) \/ ClientLeave(c), ~RunReturn(c)
      PROVE  SameItems
  <2>1. UNCHANGED <<queue, completed, owed, tpc, cur>>
    BY <1>1 DEF ClientStep, CallWakeupFn, RunWakeup, RunSleep, LockWakeup, LockRecheck, LockWait1,
         LockWait2, Unlock, LockRequest, ClientLeave, shared, target
  <2>2. pc' = pc \/ \E label \in ClientPcs :
          /\ pc' = [pc EXCEPT ![c] = label]
          /\ pc[c] \in RunPcs <=> label \in RunPcs
    BY <1>1 DEF ClientStep, CallWakeupFn, RunWakeup, RunSleep, LockWakeup, LockRecheck, LockWait1,
         LockWait2, Unlock, LockRequest, ClientLeave, TakeOrSleep, Goto, RunPcs, ClientPcs, LockPcs
  <2> QED
    BY <1>0, <2>1, <2>2 DEF SameItems
<1>2. ASSUME NEW t \in Threads,
             \/ Interrupt(t) \/ \E until \in {NoWait, Soon} : AdjustTimeout(t, until)
             \/ SpuriousWakeup(t)
      PROVE  SameItems
  BY <1>2 DEF Interrupt, AdjustTimeout, SpuriousWakeup, SameItems, shared, target
<1>3. ASSUME \/ \E timeout \in Deadlines : ProcessEnter(timeout)
             \/ ProcessBlocked \/ ProcessIdle \/ ProcessLeave \/ ProcessWake \/ ProcessTimeout
             \/ ExternalWait \/ ExternalWake \/ Destroyed \/ UNCHANGED vars
      PROVE  SameItems
  BY <1>3 DEF ProcessEnter, ProcessBlocked, ProcessIdle, ProcessLeave, ProcessWake, ProcessTimeout,
       ExternalWait, ExternalWake, Destroyed, vars, SameItems, shared, target
<1> QED
  BY <1>1, <1>2, <1>3, SameItemsOInv, EnqueueOInv, RunAppendOInv, RunReturnOInv, CancelOInv,
     ProcessItemOInv, ProcessItemDoneOInv DEF Next, ClientCall, ClientStep, ThreadCall, TargetLoop

LEMMA InitOInv == Init => OInv
<1> SUFFICES ASSUME Init PROVE ItemsOK /\ RunOwned /\ NotesOwned
  BY InitIInv DEF OInv
<1> QED
  BY CountEmpty DEF Init, ItemsOK, RunOwned, NotesOwned, Notes, Running, Completed, RunPcs

(* The item of a mp_dispatch_run() call, which lives on the stack of the   *)
(* caller, is queued, running or completed, in one place at a time, as     *)
(* long as the caller is inside the call, and nowhere after it.            *)
THEOREM RunItemsAreKept == Spec => []RunItemOwned
<1>1. OInv => RunItemOwned
  <2> SUFFICES ASSUME OInv, NEW c \in Clients
               PROVE  Cardinality({i \in DOMAIN queue : queue[i].fn = c}) + Running(c) + Completed(c)
                        = IF pc[c] \in RunPcs THEN 1 ELSE 0
    BY DEF RunItemOwned, Running, Completed
  <2>1. \A i \in DOMAIN queue : queue[i] \in Items
    BY LenProperties, ElementOfSeq DEF OInv, ItemsOK
  <2>2. {i \in DOMAIN queue : queue[i].fn = c} = Where(queue, ItemsOf(c))
    BY <2>1 DEF Where, ItemsOf
  <2> QED
    BY <2>2 DEF OInv, RunOwned, Count
<1> QED
  BY <1>1, InitOInv, NextOInv, PTL DEF Spec

(* A notification that nobody's callback followed is still queued, and no  *)
(* notification is queued twice.                                           *)
THEOREM NotificationsArePending == Spec => []NotificationPending
<1>1. OInv => NotificationPending
  <2> SUFFICES ASSUME OInv, NEW f \in Fns
               PROVE  /\ f \in owed => \E i \in DOMAIN queue : queue[i] = Note(f)
                      /\ Cardinality({i \in DOMAIN queue : queue[i] = Note(f)}) <= 1
    BY DEF NotificationPending, Note
  <2>1. {i \in DOMAIN queue : queue[i] = Note(f)} = Where(queue, {Note(f)})
    BY DEF Where
  <2>2. Notes(f) <= 1 /\ (f \in owed => Notes(f) = 1)
    BY DEF OInv, NotesOwned
  <2>3. Notes(f) > 0 <=> \E i \in DOMAIN queue : queue[i] \in {Note(f)}
    BY CountPositive DEF OInv, ItemsOK, Notes
  <2> QED
    BY <2>1, <2>2, <2>3 DEF Notes, Count
<1> QED
  BY <1>1, InitOInv, NextOInv, PTL DEF Spec

-----------------------------------------------------------------------------
(* Tearing the queue down *)

OthersGone(c) == \A d \in Clients \ {c} : pc[d] = "gone"

(* Whoever asks the target to exit is the last client; once the target was *)
(* told, nobody calls into the queue any more, and the target does not     *)
(* leave its main loop before the queue is empty.                          *)
QueuedExit == \A i \in DOMAIN queue : queue[i].kind = "exit" => OthersGone(queue[i].fn)
RunningExit == tpc = "callback" /\ cur.kind = "exit" => OthersGone(cur.fn)
ExitOK ==
  /\ terminate \in BOOLEAN
  /\ QueuedExit
  /\ RunningExit
  /\ terminate => \A c \in Clients : pc[c] = "gone" \/ (pc[c] \in RunPcs /\ c \in completed)
  /\ tpc = "exited" => terminate /\ queue = <<>>

XInv == OInv /\ ExitOK

(* A thread that has finished does not come back.                          *)
LEMMA GoneStays ==
  ASSUME IInv, [Next]_vars, NEW d \in Clients, pc[d] = "gone"
  PROVE  pc'[d] = "gone"
<1>0. pc \in [Clients -> ClientPcs] /\ Target \notin Clients
  BY DispatchAssumption DEF IInv, ControlTypeOK
<1>1. ASSUME NEW c \in Clients, ClientStep(c) \/ ClientCall(c) PROVE pc'[d] = "gone"
  <2>1. pc' = pc \/ \E label : pc' = [pc EXCEPT ![c] = label] /\ pc[c] # "gone"
    BY <1>1 DEF ClientStep, ClientCall, CallWakeupFn, RunWakeup, RunSleep, RunReturn, LockWakeup,
         LockRecheck, LockWait1, LockWait2, Unlock, RunAppend, LockRequest, ClientLeave,
         TakeOrSleep, Goto
  <2> QED
    BY <1>0, <2>1
<1>2. ASSUME NEW t \in Threads, ThreadCall(t) \/ SpuriousWakeup(t) PROVE pc'[d] = "gone"
  <2>1. pc' = pc \/ (t \in Clients /\ pc[t] # "gone" /\ pc' = [pc EXCEPT ![t] = "wakeup"])
    BY <1>2 DEF ThreadCall, Enqueue, CancelFn, Interrupt, AdjustTimeout, SpuriousWakeup, MayCall,
         Goto, Threads
  <2> QED
    BY <1>0, <2>1
<1>3. ASSUME \/ \E timeout \in Deadlines : ProcessEnter(timeout)
             \/ TargetLoop \/ ProcessItemDone \/ ProcessWake \/ ProcessTimeout
             \/ ExternalWait \/ ExternalWake \/ Destroyed \/ UNCHANGED vars
      PROVE  pc' = pc
  BY <1>3 DEF ProcessEnter, TargetLoop, ProcessBlocked, ProcessItem, ProcessIdle, ProcessLeave,
       ProcessItemDone, ProcessWake, ProcessTimeout, ExternalWait, ExternalWake, Destroyed, vars
<1> QED
  BY <1>1, <1>2, <1>3 DEF Next

(* The steps that move no item change nothing for a target about to exit.  *)
LEMMA SameItemsExitOK ==
  ASSUME XInv, [Next]_vars, SameItems, terminate' = terminate,
         tpc' = "exited" => tpc = "exited" \/ (terminate /\ queue = <<>>)
  PROVE  ExitOK'
<1>1. \A d \in Clients : pc[d] = "gone" => pc'[d] = "gone"
  BY GoneStays DEF XInv, OInv
<1>2. QueuedExit'
  BY <1>1 DEF XInv, ExitOK, QueuedExit, OthersGone, SameItems
<1>3. RunningExit'
  BY <1>1 DEF XInv, ExitOK, RunningExit, OthersGone, SameItems
<1> QED
  BY <1>1, <1>2, <1>3 DEF XInv, ExitOK, SameItems

(* Neither do those that queue or cancel a callback: once the target was   *)
(* told to exit, only its own callbacks can.                               *)
LEMMA CallbackExitOK ==
  ASSUME XInv, [Next]_vars, UNCHANGED <<tpc, cur, terminate, completed>>, tpc # "exited",
         \A c \in Clients : pc[c] \in RunPcs => pc'[c] = pc[c],
         \A i \in DOMAIN queue' :
           queue'[i].kind = "exit" => \E j \in DOMAIN queue : queue'[i] = queue[j]
  PROVE  ExitOK'
<1>1. \A d \in Clients : pc[d] = "gone" => pc'[d] = "gone"
  BY GoneStays DEF XInv, OInv
<1>2. QueuedExit'
  BY <1>1 DEF XInv, ExitOK, QueuedExit, OthersGone
<1>3. RunningExit'
  BY <1>1 DEF XInv, ExitOK, RunningExit, OthersGone
<1> QED
  BY <1>1, <1>2, <1>3 DEF XInv, ExitOK

(* Nobody calls into a queue whose target has exited.                      *)
LEMMA NoCallOnExit ==
  ASSUME XInv, terminate, NEW c \in Clients
  PROVE  pc[c] \in {"gone"} \cup RunPcs
BY DEF XInv, ExitOK

(* The items of a queue to which one was appended.                         *)
LEMMA AppendedItems ==
  ASSUME ItemsOK, NEW x \in Items, Append_(x)
  PROVE  \A i \in DOMAIN queue' : queue'[i] = x \/ \E j \in DOMAIN queue : queue'[i] = queue[j]
<1>1. CASE Mergeable(x)
  BY <1>1 DEF Append_, shared
<1>2. CASE ~Mergeable(x)
  <2>1. queue' = Append(queue, x)
    BY <1>2 DEF Append_
  <2>2. /\ DOMAIN queue = 1..Len(queue) /\ Len(queue) \in Nat
        /\ DOMAIN queue' = 1..(Len(queue) + 1)
        /\ \A i \in 1..Len(queue) : queue'[i] = queue[i]
        /\ queue'[Len(queue) + 1] = x
    BY <2>1, AppendProperties, LenProperties DEF ItemsOK
  <2> QED
    BY <2>2
<1> QED
  BY <1>1, <1>2

LEMMA EnqueueExitOK ==
  ASSUME XInv, [Next]_vars, NEW t \in Threads, NEW f \in Fns, NEW kind \in {"async", "notify"},
         Enqueue(t, f, kind)
  PROVE  ExitOK'
<1>1. [fn |-> f, kind |-> kind] \in Items /\ Append_([fn |-> f, kind |-> kind])
  BY DEF Items, Enqueue
<1>2. \A i \in DOMAIN queue' :
        queue'[i].kind = "exit" => \E j \in DOMAIN queue : queue'[i] = queue[j]
  BY <1>1, AppendedItems DEF XInv, OInv
<1>3. UNCHANGED <<tpc, cur, terminate, completed>>
      /\ \A c \in Clients : pc[c] \in RunPcs => pc'[c] = pc[c]
  BY DEF Enqueue, target, MayCall, Goto, RunPcs, XInv, OInv, IInv, ControlTypeOK
<1>4. tpc # "exited"
  <2>1. CASE t = Target
    BY <2>1 DEF Enqueue, MayCall
  <2>2. CASE t \in Clients
    BY <2>2, NoCallOnExit, DispatchAssumption DEF Enqueue, MayCall, RunPcs, XInv, ExitOK
  <2> QED
    BY <2>1, <2>2 DEF Threads
<1> QED
  BY <1>2, <1>3, <1>4, CallbackExitOK

LEMMA CancelExitOK ==
  ASSUME XInv, [Next]_vars, NEW t \in Threads, NEW f \in Fns, CancelFn(t, f)
  PROVE  ExitOK'
<1>1. UNCHANGED <<tpc, cur, terminate, completed, pc>>
  BY DEF CancelFn, target
<1>2. tpc # "exited"
  BY DEF CancelFn, XInv, ExitOK
<1>3. \A i \in DOMAIN queue' : \E j \in DOMAIN queue : queue'[i] = queue[j]
  BY DEF CancelFn
<1> QED
  BY <1>1, <1>2, <1>3, CallbackExitOK

(* The one who asks the target to exit is the only one left.               *)
LEMMA RunAppendExitOK ==
  ASSUME XInv, [Next]_vars, NEW c \in Clients, NEW kind \in {"sync", "exit"}, RunAppend(c, kind)
  PROVE  ExitOK'
<1> DEFINE x == [fn |-> c, kind |-> kind]
<1>1. \A d \in Clients : pc[d] = "gone" => pc'[d] = "gone"
  BY GoneStays DEF XInv, OInv
<1>3. kind = "exit" => OthersGone(c)
  BY DEF RunAppend, OthersGone
<1>4. x \in Items /\ Append_(x) /\ UNCHANGED <<tpc, cur, terminate>> /\ tpc # "exited"
  BY DEF Items, RunAppend, target
<1>5. ~terminate
  BY NoCallOnExit DEF RunAppend, RunPcs
<1>6. QueuedExit'
  <2> SUFFICES ASSUME NEW i \in DOMAIN queue', queue'[i].kind = "exit", NEW d \in Clients,
                      d # queue'[i].fn
               PROVE  pc'[d] = "gone"
    BY DEF QueuedExit, OthersGone
  <2>1. CASE queue'[i] = x
    BY <1>1, <1>3, <2>1 DEF OthersGone
  <2>2. CASE \E j \in DOMAIN queue : queue'[i] = queue[j]
    BY <1>1, <2>2 DEF XInv, ExitOK, QueuedExit, OthersGone
  <2> QED
    BY <1>4, <2>1, <2>2, AppendedItems DEF XInv, OInv
<1>7. RunningExit'
  BY <1>1, <1>4 DEF XInv, ExitOK, RunningExit, OthersGone
<1> QED
  BY <1>4, <1>5, <1>6, <1>7 DEF XInv, ExitOK

(* When it returns it has left, too.                                       *)
LEMMA RunReturnExitOK ==
  ASSUME XInv, [Next]_vars, NEW c \in Clients, RunReturn(c)
  PROVE  ExitOK'
<1>1. \A d \in Clients : pc[d] = "gone" => pc'[d] = "gone"
  BY GoneStays DEF XInv, OInv
<1>3. UNCHANGED <<queue, tpc, cur, terminate>> /\ completed' = completed \ {c}
      /\ \A d \in Clients : pc'[d] = IF d = c THEN IF terminate THEN "gone" ELSE "idle" ELSE pc[d]
  BY DEF RunReturn, shared, target, Goto, XInv, OInv, IInv, ControlTypeOK
<1>4. terminate' => \A d \in Clients : pc'[d] = "gone" \/ (pc'[d] \in RunPcs /\ d \in completed')
  BY <1>3 DEF XInv, ExitOK
<1>5. QueuedExit'
  BY <1>1, <1>3 DEF XInv, ExitOK, QueuedExit, OthersGone
<1>6. RunningExit'
  BY <1>1, <1>3 DEF XInv, ExitOK, RunningExit, OthersGone
<1> QED
  BY <1>3, <1>4, <1>5, <1>6 DEF XInv, ExitOK

(* Its item reaches the target ...                                         *)
LEMMA ProcessItemExitOK ==
  ASSUME XInv, [Next]_vars, ProcessItem
  PROVE  ExitOK'
<1>2. /\ queue \in Seq(Items) /\ queue # <<>> /\ queue' = Tail(queue) /\ cur' = Head(queue)
      /\ tpc' = "callback" /\ UNCHANGED <<terminate, pc, completed>>
  BY DEF ProcessItem, XInv, OInv, ItemsOK
<1>3. cur' = queue[1] /\ 1 \in DOMAIN queue
      /\ \A i \in DOMAIN queue' : i + 1 \in DOMAIN queue /\ queue'[i] = queue[i + 1]
  <2>1. /\ Len(queue) \in Nat \ {0} /\ DOMAIN queue = 1..Len(queue)
        /\ Tail(queue) \in Seq(Items) /\ Len(Tail(queue)) = Len(queue) - 1
        /\ \A i \in 1..Len(Tail(queue)) : Tail(queue)[i] = queue[i + 1]
    BY <1>2, EmptySeq, LenProperties, HeadTailProperties
  <2>2. DOMAIN queue' = 1..(Len(queue) - 1)
    BY <1>2, <2>1, LenProperties
  <2> QED
    BY <1>2, <2>1, <2>2
<1>4. QueuedExit'
  BY <1>2, <1>3 DEF XInv, ExitOK, QueuedExit, OthersGone
<1>5. RunningExit'
  BY <1>2, <1>3 DEF XInv, ExitOK, QueuedExit, RunningExit, OthersGone
<1> QED
  BY <1>2, <1>4, <1>5 DEF XInv, ExitOK

(* ... which from then on serves nobody but itself.                        *)
LEMMA ProcessItemDoneExitOK ==
  ASSUME XInv, [Next]_vars, ProcessItemDone
  PROVE  ExitOK'
<1>2. /\ tpc = "callback" /\ tpc' = "loop" /\ UNCHANGED <<queue, pc>> /\ cur \in Items
      /\ completed \subseteq completed'
      /\ cur.kind = "exit" => cur.fn \in completed'
      /\ terminate' = (terminate \/ cur.kind = "exit")
  BY DEF ProcessItemDone, XInv, OInv, ItemsOK
<1>3. ASSUME cur.kind = "exit"
      PROVE  \A c \in Clients : pc[c] = "gone" \/ (pc[c] \in RunPcs /\ c \in completed')
  <2>1. cur.fn \in Clients
    BY <1>2, <1>3 DEF Items
  <2>2. Running(cur.fn) = 1 /\ Count(queue, ItemsOf(cur.fn)) \in Nat /\ Completed(cur.fn) \in Nat
    BY <1>2, CountNat DEF Running, Completed, XInv, OInv
  <2>3. pc[cur.fn] \in RunPcs
    BY <2>1, <2>2 DEF XInv, OInv, RunOwned
  <2>4. OthersGone(cur.fn)
    BY <1>2, <1>3 DEF XInv, ExitOK, RunningExit
  <2> QED
    BY <1>2, <1>3, <2>3, <2>4 DEF OthersGone
<1>4. terminate' => \A c \in Clients : pc'[c] = "gone" \/ (pc'[c] \in RunPcs /\ c \in completed')
  BY <1>2, <1>3 DEF XInv, ExitOK
<1>5. QueuedExit' /\ RunningExit'
  BY <1>2 DEF XInv, ExitOK, QueuedExit, RunningExit, OthersGone
<1> QED
  BY <1>2, <1>4, <1>5 DEF XInv, ExitOK

LEMMA NextXInv == XInv /\ [Next]_vars => XInv'
<1> SUFFICES ASSUME XInv, [Next]_vars PROVE ExitOK'
  BY NextOInv DEF XInv
<1>0. pc \in [Clients -> ClientPcs]
  BY DEF XInv, OInv, IInv, ControlTypeOK
<1>1. ASSUME NEW c \in Clients, ClientStep(c) \/ LockRequest(c) \/ ClientLeave(c), ~RunReturn(c)
      PROVE  ExitOK'
  <2>1. UNCHANGED <<queue, completed, owed, tpc, cur, terminate>>
    BY <1>1 DEF ClientStep, CallWakeupFn, RunWakeup, RunSleep, LockWakeup, LockRecheck, LockWait1,
         LockWait2, Unlock, LockRequest, ClientLeave, shared, target
  <2>2. pc' = pc \/ \E label \in ClientPcs :
          /\ pc' = [pc EXCEPT ![c] = label]
          /\ pc[c] \in RunPcs <=> label \in RunPcs
    BY <1>1 DEF ClientStep, CallWakeupFn, RunWakeup, RunSleep, LockWakeup, LockRecheck, LockWait1,
         LockWait2, Unlock, LockRequest, ClientLeave, TakeOrSleep, Goto, RunPcs, ClientPcs, LockPcs
  <2>3. SameItems
    BY <1>0, <2>1, <2>2 DEF SameItems
  <2> QED
    BY <2>1, <2>3, SameItemsExitOK
<1>2. ASSUME NEW t \in Threads,
             \/ Interrupt(t) \/ \E until \in {NoWait, Soon} : AdjustTimeout(t, until)
             \/ SpuriousWakeup(t)
      PROVE  ExitOK'
  <2>1. SameItems /\ UNCHANGED <<tpc, terminate>>
    BY <1>2 DEF Interrupt, AdjustTimeout, SpuriousWakeup, SameItems, shared, target
  <2> QED
    BY <2>1, SameItemsExitOK
<1>3. ASSUME \/ \E timeout \in Deadlines : ProcessEnter(timeout)
             \/ ProcessBlocked \/ ProcessIdle \/ ProcessLeave \/ ProcessWake \/ ProcessTimeout
             \/ ExternalWait \/ ExternalWake \/ Destroyed \/ UNCHANGED vars
      PROVE  ExitOK'
  <2>1. SameItems /\ terminate' = terminate
    BY <1>3 DEF ProcessEnter, ProcessBlocked, ProcessIdle, ProcessLeave, ProcessWake, ProcessTimeout,
         ExternalWait, ExternalWake, Destroyed, vars, SameItems, shared, target
  <2>2. tpc' = "exited" => tpc = "exited" \/ (terminate /\ queue = <<>>)
    BY <1>3 DEF ProcessEnter, ProcessBlocked, ProcessIdle, ProcessLeave, NothingToDo, ProcessWake,
         ProcessTimeout, ExternalWait, ExternalWake, Destroyed, vars, shared, target
  <2> QED
    BY <2>1, <2>2, SameItemsExitOK
<1> QED
  BY <1>1, <1>2, <1>3, EnqueueExitOK, RunAppendExitOK, RunReturnExitOK, CancelExitOK,
     ProcessItemExitOK, ProcessItemDoneExitOK DEF Next, ClientCall, ClientStep, ThreadCall, TargetLoop

(* dispatch.c:76: when the target has exited and every sender has ended,   *)
(* queue_dtor()'s assertions hold: nothing is queued, the target is not in *)
(* mp_dispatch_queue_process(), and nobody has or wants the lock.          *)
THEOREM DestroyIsSafe == Spec => []DestroySafe
<1>1. Init => XInv
  <2> SUFFICES ASSUME Init PROVE ExitOK
    BY InitOInv DEF XInv
  <2>1. queue = <<>> /\ tpc = "out" /\ terminate = FALSE
    BY DEF Init
  <2>2. QueuedExit
    BY <2>1 DEF QueuedExit
  <2> QED
    BY <2>1, <2>2 DEF ExitOK, RunningExit
<1>2. XInv => DestroySafe
  <2> SUFFICES ASSUME XInv, Destroyable
               PROVE  queue = <<>> /\ ~in_process /\ lock_requests = 0 /\ ~locked
    BY DEF DestroySafe
  <2>1. Lockers = {}
    BY DEF Lockers, LockPcs, Destroyable
  <2>2. lock_requests = 0
    BY <2>1, FS_EmptySet DEF XInv, OInv, IInv, RequestsCounted
  <2> QED
    BY <2>2 DEF XInv, OInv, IInv, ExitOK, FlagsOK, RequestsCounted, Trapped, Destroyable
<1> QED
  BY <1>1, <1>2, NextXInv, PTL DEF Spec

=============================================================================

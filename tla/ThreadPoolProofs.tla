-------------------------- MODULE ThreadPoolProofs --------------------------
(***************************************************************************)
(* Proofs about ThreadPool, for any number of workers and jobs and any     *)
(* limits: freeing the pool leaves no work and no thread behind, queueing  *)
(* cannot fail in a pool created with a thread, idle threads never leave   *)
(* fewer than the minimum, work waits for other work only at the limit, and*)
(* every step is one of JobPool or a stutter.                              *)
(***************************************************************************)
EXTENDS ThreadPool, SequenceLemmas

Working == {t \in Workers : pc[t] = "working"}

(* The part of the type invariant the proofs need. *)
ControlOK ==
  /\ work \in Seq(Jobs)
  /\ threads \subseteq Workers
  /\ busy_threads \in Nat
  /\ terminate \in BOOLEAN
  /\ pc \in [Workers -> WorkerPcs]
  /\ got_timeout \subseteq Workers
  /\ joining \subseteq Workers

(* pool->threads, or the destructor's copy, lists the threads there are.   *)
ThreadsListed ==
  /\ terminate <=> owner \in {"joining", "freed"}
  /\ owner \in {"open", "freeing", "joining", "freed"}
  /\ ~terminate => /\ threads = {t \in Workers : pc[t] # "none"}
                   /\ \A t \in Workers : pc[t] # "exited"
  /\ terminate => threads = {}
  /\ owner = "joining" => joining = {t \in Workers : pc[t] # "none"}
  /\ owner = "freed" => \A t \in Workers : pc[t] = "none"

(* Work is taken by somebody before the last thread goes.                  *)
WorkAttended ==
  /\ work # <<>> => \E t \in Workers : pc[t] \notin {"none", "exited"}
  /\ \A t \in Workers : pc[t] = "exited" => work = <<>>

(* A thread that decided to leave does so before the mutex is released.    *)
TimeoutsOK ==
  /\ \A t, u \in Workers : pc[t] = "loop" /\ pc[u] = "loop" => t = u
  /\ \A t \in got_timeout :
       \/ pc[t] = "working"
       \/ pc[t] = "loop" /\ ~terminate /\ num_threads > MinThreads

Counted ==
  /\ busy_threads = Cardinality(Working)
  /\ owner = "open" => num_threads >= InitThreads
  /\ InitThreads > 0 => refused \cap QueueJobs = {}

IInv == ControlOK /\ ThreadsListed /\ WorkAttended /\ TimeoutsOK /\ Counted /\ WorkCovered

-----------------------------------------------------------------------------
(* Counting *)

(* Sets of workers are finite.                                             *)
LEMMA WorkersFinite ==
  ASSUME NEW S, S \subseteq Workers
  PROVE  IsFiniteSet(S) /\ Cardinality(S) \in Nat
BY PoolAssumption, FS_Subset, FS_CardinalityType

(* A pool whose num_threads is not zero has a thread.                      *)
LEMMA SomeThread ==
  ASSUME num_threads > 0
  PROVE  threads # {}
<1>1. Cardinality({}) = 0
  BY FS_EmptySet
<1> QED
  BY <1>1 DEF num_threads

(* Threads that are not working make num_threads exceed busy_threads.      *)
LEMMA IdleThread ==
  ASSUME IInv, NEW t \in Workers, pc[t] \notin {"none", "working"}, ~terminate
  PROVE  busy_threads < num_threads
<1>1. Working \subseteq threads \ {t} /\ t \in threads
  BY DEF Working, IInv, ThreadsListed
<1>2. IsFiniteSet(threads) /\ Cardinality(threads \ {t}) = Cardinality(threads) - 1
  BY <1>1, WorkersFinite, FS_RemoveElement DEF IInv, ControlOK
<1>3. Cardinality(Working) <= Cardinality(threads \ {t})
  BY <1>1, <1>2, FS_Subset
<1>4. Cardinality(Working) \in Nat /\ Cardinality(threads) \in Nat
  BY <1>1, WorkersFinite DEF IInv, ControlOK, Working
<1> QED
  BY <1>2, <1>3, <1>4 DEF IInv, Counted, num_threads

(* A worker that neither begins nor ends to work leaves the count alone.   *)
LEMMA WorkingSame ==
  ASSUME IInv, NEW t \in Workers, NEW label, pc' = [pc EXCEPT ![t] = label],
         pc[t] # "working", label # "working"
  PROVE  Working' = Working
BY DEF IInv, ControlOK, Working

-----------------------------------------------------------------------------
(* The inductive invariant *)

(* A new pool satisfies it, also one that could not create its threads.    *)
LEMMA InitIInv == Init => IInv
<1> SUFFICES ASSUME Init PROVE IInv
  OBVIOUS
<1> USE DEF Init
<1>1. Working = {} /\ Cardinality(Working) = 0
  BY FS_EmptySet DEF Working
<1>2. num_threads \in Nat /\ num_threads <= InitThreads
  BY WorkersFinite, PoolAssumption DEF num_threads
<1>3. ControlOK
  <2>1. threads \subseteq Workers /\ work \in Seq(Jobs)
    OBVIOUS
  <2>2. pc \in [Workers -> WorkerPcs]
    BY DEF WorkerPcs
  <2> QED
    BY <2>1, <2>2 DEF ControlOK
<1>4. ThreadsListed
  BY DEF ThreadsListed
<1>5. WorkAttended /\ TimeoutsOK
  BY DEF WorkAttended, TimeoutsOK
<1>6. Counted
  BY <1>1 DEF Counted
<1>7. WorkCovered
  BY <1>2, PoolAssumption DEF WorkCovered
<1> QED
  BY <1>3, <1>4, <1>5, <1>6, <1>7 DEF IInv

(* Queueing one more item.                                                 *)
LEMMA LenAppend ==
  ASSUME NEW j \in Jobs, work \in Seq(Jobs), work' = Append(work, j)
  PROVE  work' \in Seq(Jobs) /\ Len(work') = Len(work) + 1 /\ work' # <<>>
OBVIOUS

(* A pool with room for the item has a thread for it.                      *)
LEMMA AddToThreadsIInv ==
  ASSUME IInv, NEW j \in Jobs, AddToThreads(j)
  PROVE  IInv'
<1> USE DEF IInv, AddToThreads, Accept, MayAdd
<1>1. work' \in Seq(Jobs) /\ Len(work') = Len(work) + 1 /\ work' # <<>>
  BY LenAppend DEF ControlOK
<1>2. num_threads' = num_threads /\ num_threads \in Nat /\ Len(work) \in Nat
  BY WorkersFinite DEF num_threads, ControlOK
<1>3. Working' = Working
  BY DEF Working
<1>4. num_threads > 0
  BY <1>2, PoolAssumption DEF TooFewThreads, ControlOK
<1>5. threads # {}
  BY <1>4, SomeThread
<1>6. ControlOK'
  BY <1>1 DEF ControlOK
<1>7. ThreadsListed'
  BY DEF ThreadsListed
<1>8. WorkAttended'
  BY <1>5 DEF WorkAttended, ThreadsListed, ControlOK
<1>9. TimeoutsOK'
  BY <1>2 DEF TimeoutsOK
<1>10. Counted'
  BY <1>2, <1>3 DEF Counted
<1>11. WorkCovered'
  BY <1>1, <1>2, PoolAssumption DEF WorkCovered, TooFewThreads, ControlOK
<1> QED
  BY <1>6, <1>7, <1>8, <1>9, <1>10, <1>11

(* A thread created for the item.                                          *)
LEMMA AddWithNewThreadIInv ==
  ASSUME IInv, NEW j \in Jobs, AddWithNewThread(j)
  PROVE  IInv'
<1> USE DEF IInv, AddWithNewThread, Accept, MayAdd
<1>1. work' \in Seq(Jobs) /\ Len(work') = Len(work) + 1 /\ work' # <<>>
  BY LenAppend DEF ControlOK
<1>2. PICK t \in Workers : /\ pc[t] = "none"
                           /\ threads' = threads \cup {t}
                           /\ pc' = [pc EXCEPT ![t] = "start"]
  OBVIOUS
<1>3. t \notin threads
  BY <1>2 DEF ThreadsListed
<1>4. num_threads' = num_threads + 1 /\ num_threads \in Nat /\ Len(work) \in Nat
  BY <1>2, <1>3, WorkersFinite, FS_AddElement DEF num_threads, ControlOK
<1>5. Working' = Working
  BY <1>2, WorkingSame
<1>6. ControlOK'
  BY <1>1, <1>2 DEF ControlOK, WorkerPcs
<1>7. ThreadsListed'
  BY <1>2 DEF ThreadsListed, ControlOK
<1>8. WorkAttended'
  BY <1>2 DEF WorkAttended, ThreadsListed, ControlOK
<1>9. TimeoutsOK'
  BY <1>2, <1>4, PoolAssumption DEF TimeoutsOK, ControlOK
<1>10. Counted'
  BY <1>4, <1>5, PoolAssumption DEF Counted
<1>11. WorkCovered'
  BY <1>1, <1>4, PoolAssumption DEF WorkCovered, TooFewThreads, ControlOK
<1> QED
  BY <1>6, <1>7, <1>8, <1>9, <1>10, <1>11

(* No thread could be created: the item is queued behind others or refused.*)
LEMMA AddCreateFailedIInv ==
  ASSUME IInv, NEW j \in Jobs, AddCreateFailed(j)
  PROVE  IInv'
<1> USE DEF IInv, AddCreateFailed, MayAdd
<1>1. UNCHANGED <<threads, pc, busy_threads, terminate, got_timeout, owner, joining>>
  BY DEF Accept
<1>2. num_threads' = num_threads /\ num_threads \in Nat
  BY <1>1, WorkersFinite DEF num_threads, ControlOK
<1>3. Working' = Working
  BY <1>1 DEF Working
<1>4. ThreadsListed'
  BY <1>1 DEF ThreadsListed
<1>5. TimeoutsOK'
  BY <1>1, <1>2 DEF TimeoutsOK
<1>6. WorkCovered'
  BY <1>1, <1>2 DEF WorkCovered
<1>7. CASE MayQueue(j)
  <2>1. work' \in Seq(Jobs) /\ work' # <<>> /\ refused' = refused
    BY <1>7, LenAppend DEF Accept, ControlOK
  <2>2. threads # {}
    BY <1>7, SomeThread DEF MayQueue
  <2>3. ControlOK' /\ WorkAttended'
    BY <1>1, <2>1, <2>2 DEF ControlOK, WorkAttended, ThreadsListed
  <2> QED
    BY <1>1, <1>2, <1>3, <1>4, <1>5, <1>6, <2>1, <2>3 DEF Counted
<1>8. CASE ~MayQueue(j)
  <2>1. work' = work /\ refused' = refused \cup {j}
    BY <1>8
  <2>2. ControlOK' /\ WorkAttended'
    BY <1>1, <2>1 DEF ControlOK, WorkAttended
  <2>3. InitThreads > 0 => j \notin QueueJobs
    BY <1>2, <1>8, PoolAssumption DEF Counted, MayQueue
  <2> QED
    BY <1>1, <1>2, <1>3, <1>4, <1>5, <1>6, <2>1, <2>2, <2>3 DEF Counted
<1> QED
  BY <1>7, <1>8

-----------------------------------------------------------------------------
(* worker_thread() *)

(* Coming back to the head of the loop.                                    *)
LEMMA AcquireIInv ==
  ASSUME IInv, NEW t \in Workers, Acquire(t)
  PROVE  IInv'
<1> USE DEF IInv, Acquire
<1>1. Working' = Working
  BY WorkingSame
<1>2. num_threads' = num_threads
  BY DEF num_threads
<1>3. ControlOK' /\ ThreadsListed' /\ WorkAttended'
  BY DEF ControlOK, ThreadsListed, WorkAttended, WorkerPcs
<1>4. TimeoutsOK'
  BY <1>2 DEF TimeoutsOK, MutexFree, ControlOK
<1> QED
  BY <1>1, <1>2, <1>3, <1>4 DEF Counted, WorkCovered

(* Taking the oldest item.                                                 *)
LEMMA TakeWorkIInv ==
  ASSUME IInv, NEW t \in Workers, TakeWork(t)
  PROVE  IInv'
<1> USE DEF IInv, TakeWork
<1>1. work' \in Seq(Jobs) /\ Len(work') = Len(work) - 1
  BY DEF ControlOK
<1>2. num_threads' = num_threads
  BY DEF num_threads
<1>3. Cardinality(Working') = Cardinality(Working) + 1
  <2>1. Working' = Working \cup {t} /\ t \notin Working
    BY DEF Working, ControlOK
  <2> QED
    BY <2>1, WorkersFinite, FS_AddElement DEF Working
<1>4. ControlOK'
  BY <1>1 DEF ControlOK, WorkerPcs
<1>5. ThreadsListed' /\ WorkAttended'
  BY DEF ControlOK, ThreadsListed, WorkAttended
<1>6. TimeoutsOK'
  BY <1>2 DEF TimeoutsOK, ControlOK
<1>7. Counted'
  BY <1>2, <1>3 DEF Counted
<1>8. WorkCovered'
  BY <1>1, <1>2 DEF WorkCovered, ControlOK
<1> QED
  BY <1>4, <1>5, <1>6, <1>7, <1>8

(* Finishing an item.                                                      *)
LEMMA FinishWorkIInv ==
  ASSUME IInv, NEW t \in Workers, FinishWork(t)
  PROVE  IInv'
<1> USE DEF IInv, FinishWork
<1>1. num_threads' = num_threads /\ num_threads \in Nat
  BY WorkersFinite DEF num_threads, ControlOK
<1>2. Cardinality(Working') = Cardinality(Working) - 1 /\ Cardinality(Working') \in Nat
  <2>1. Working' = Working \ {t} /\ t \in Working
    BY DEF Working, ControlOK
  <2> QED
    BY <2>1, WorkersFinite, FS_RemoveElement DEF Working
<1>3. busy_threads' \in Nat
  BY <1>2 DEF Counted
<1>4. ControlOK'
  BY <1>3 DEF ControlOK, WorkerPcs
<1>5. ThreadsListed' /\ WorkAttended'
  BY DEF ControlOK, ThreadsListed, WorkAttended
<1>6. TimeoutsOK'
  BY <1>1 DEF TimeoutsOK, ControlOK, MutexFree
<1>7. Counted'
  BY <1>1, <1>2 DEF Counted
<1>8. WorkCovered'
  BY <1>1, PoolAssumption DEF WorkCovered, ControlOK
<1> QED
  BY <1>4, <1>5, <1>6, <1>7, <1>8

(* Going to sleep.                                                         *)
LEMMA SleepIInv ==
  ASSUME IInv, NEW t \in Workers, Sleep(t)
  PROVE  IInv'
<1> USE DEF IInv, Sleep
<1>1. PICK label \in {"timedwait", "wait"} : pc' = [pc EXCEPT ![t] = label]
  OBVIOUS
<1>2. Working' = Working
  BY <1>1, WorkingSame
<1>3. num_threads' = num_threads
  BY DEF num_threads
<1>4. ControlOK' /\ ThreadsListed' /\ WorkAttended' /\ TimeoutsOK'
  BY <1>1, <1>3 DEF ControlOK, ThreadsListed, WorkAttended, WorkerPcs, TimeoutsOK
<1> QED
  BY <1>2, <1>3, <1>4 DEF Counted, WorkCovered

(* Timing out.                                                             *)
LEMMA TimeoutIInv ==
  ASSUME IInv, NEW t \in Workers, Timeout(t)
  PROVE  IInv'
<1> USE DEF IInv, Timeout
<1>1. Working' = Working
  BY WorkingSame
<1>2. num_threads' = num_threads /\ num_threads \in Nat
  BY WorkersFinite DEF num_threads, ControlOK
<1>3. ControlOK' /\ ThreadsListed' /\ WorkAttended'
  BY DEF ControlOK, ThreadsListed, WorkAttended, WorkerPcs
<1>4. Surplus => ~terminate
  <2>1. Cardinality({}) = 0
    BY FS_EmptySet
  <2> QED
    BY <2>1, PoolAssumption DEF Surplus, ThreadsListed, num_threads
<1>5. TimeoutsOK'
  BY <1>2, <1>4 DEF TimeoutsOK, MutexFree, ControlOK, Surplus
<1> QED
  BY <1>1, <1>2, <1>3, <1>5 DEF Counted, WorkCovered

(* A thread that leaves for good leaves at least the minimum behind.       *)
LEMMA LeaveKeepsMinimum ==
  ASSUME IInv, NEW t \in Workers, Leave(t), ~terminate
  PROVE  /\ num_threads' = num_threads - 1
         /\ num_threads' \in Nat
         /\ num_threads' >= MinThreads
<1>1. t \in threads /\ t \in got_timeout
  BY DEF IInv, ThreadsListed, Leave, MayLeave
<1>2. num_threads' = num_threads - 1 /\ num_threads' \in Nat
  BY <1>1, WorkersFinite, FS_RemoveElement DEF IInv, ControlOK, Leave, num_threads
<1>3. num_threads > MinThreads /\ num_threads \in Nat
  BY <1>1, WorkersFinite DEF IInv, ControlOK, TimeoutsOK, Leave, num_threads
<1> QED
  BY <1>2, <1>3, PoolAssumption

(* Leaving, by timeout or because the pool is freed.                       *)
LEMMA LeaveIInv ==
  ASSUME IInv, NEW t \in Workers, Leave(t)
  PROVE  IInv'
<1> USE DEF IInv, Leave, MayLeave
<1>1. Working' = Working
  BY WorkingSame
<1>2. ControlOK'
  BY DEF ControlOK, WorkerPcs
<1>3. ThreadsListed'
  BY DEF ControlOK, ThreadsListed
<1>4. WorkAttended'
  BY DEF ControlOK, WorkAttended
<1>5. TimeoutsOK'
  BY DEF ControlOK, TimeoutsOK
<1>6. CASE terminate
  <2>1. num_threads' = num_threads
    BY <1>6 DEF num_threads
  <2> QED
    BY <1>1, <1>2, <1>3, <1>4, <1>5, <2>1 DEF Counted, WorkCovered
<1>7. CASE ~terminate
  <2>1. num_threads' = num_threads - 1 /\ num_threads' >= MinThreads /\ num_threads' \in Nat
    BY <1>7, LeaveKeepsMinimum
  <2>2. Counted'
    BY <1>1, <2>1, PoolAssumption DEF Counted
  <2>3. busy_threads < num_threads /\ Len(work') = 0 /\ num_threads \in Nat
    BY <1>7, IdleThread, WorkersFinite DEF num_threads, ControlOK
  <2>4. WorkCovered'
    BY <2>1, <2>3, PoolAssumption DEF WorkCovered, ControlOK
  <2> QED
    BY <1>2, <1>3, <1>4, <1>5, <2>2, <2>4
<1> QED
  BY <1>6, <1>7 DEF ControlOK

-----------------------------------------------------------------------------
(* thread_pool_dtor() *)

(* The destructor takes the threads over, and joins them.                  *)
LEMMA DtorIInv ==
  ASSUME IInv, Free \/ Terminate \/ Join
  PROVE  IInv'
<1> USE DEF IInv
<1>1. CASE Free
  <2>1. Working' = Working /\ num_threads' = num_threads
    BY <1>1 DEF Working, num_threads, Free
  <2> QED
    BY <1>1, <2>1 DEF Free, ControlOK, ThreadsListed, WorkAttended, TimeoutsOK, Counted, WorkCovered
<1>2. CASE Terminate
  <2>1. Working' = Working
    BY <1>2 DEF Working, Terminate
  <2>2. num_threads' = 0
    BY <1>2, FS_EmptySet DEF num_threads, Terminate
  <2>3. ControlOK' /\ ThreadsListed' /\ WorkAttended'
    BY <1>2 DEF Terminate, ControlOK, ThreadsListed, WorkAttended
  <2>4. TimeoutsOK'
    BY <1>2 DEF Terminate, TimeoutsOK, MutexFree, ControlOK
  <2>5. Counted' /\ WorkCovered'
    BY <1>2, <2>1, <2>2, PoolAssumption DEF Terminate, Counted, WorkCovered
  <2> QED
    BY <2>3, <2>4, <2>5
<1>3. CASE Join
  <2>1. Working' = Working /\ num_threads' = num_threads
    BY <1>3 DEF Working, num_threads, Join
  <2>2. ControlOK'
    BY <1>3 DEF Join, ControlOK, WorkerPcs
  <2>3. ThreadsListed' /\ WorkAttended' /\ TimeoutsOK'
    BY <1>3, <2>1 DEF Join, ControlOK, ThreadsListed, WorkAttended, TimeoutsOK
  <2> QED
    BY <1>3, <2>1, <2>2, <2>3 DEF Join, Counted, WorkCovered
<1> QED
  BY <1>1, <1>2, <1>3

(* Every step preserves the invariant.                                     *)
LEMMA NextIInv == IInv /\ [Next]_vars => IInv'
<1> SUFFICES ASSUME IInv, [Next]_vars PROVE IInv'
  OBVIOUS
<1>1. ASSUME NEW j \in Jobs, Add(j) PROVE IInv'
  BY <1>1, AddToThreadsIInv, AddWithNewThreadIInv, AddCreateFailedIInv DEF Add
<1>2. ASSUME NEW t \in Workers, WorkerStep(t) \/ Timeout(t) PROVE IInv'
  BY <1>2, AcquireIInv, TakeWorkIInv, FinishWorkIInv, SleepIInv, LeaveIInv,
     TimeoutIInv DEF WorkerStep
<1>3. CASE (\E t \in Workers : SpuriousWakeup(t)) \/ Freed \/ UNCHANGED vars
  <2>1. UNCHANGED <<work, threads, busy_threads, terminate, pc, got_timeout,
                    owner, joining, refused, failed>>
    BY <1>3 DEF SpuriousWakeup, Freed, vars
  <2>2. Working' = Working /\ num_threads' = num_threads
    BY <2>1 DEF Working, num_threads
  <2> QED
    BY <2>1, <2>2 DEF IInv, ControlOK, ThreadsListed, WorkAttended, TimeoutsOK,
       Counted, WorkCovered
<1>4. CASE Free \/ Terminate \/ Join
  BY <1>4, DtorIInv
<1> QED
  BY <1>1, <1>2, <1>3, <1>4 DEF Next

(* The invariant holds in every reachable state.                           *)
THEOREM InductiveInvariant == Spec => []IInv
BY InitIInv, NextIInv, PTL DEF Spec

-----------------------------------------------------------------------------
(* What it implies *)

(* thread_pool.h:9: when the destructor returns, all work has been done    *)
(* and no thread of the pool is left.                                      *)
THEOREM FreeLeavesNothing == Spec => []FreedClean
<1>1. IInv => FreedClean
  BY DEF IInv, FreedClean, ThreadsListed, WorkAttended
<1> QED
  BY <1>1, InductiveInvariant, PTL

(* thread_pool.h:14: mp_thread_pool_queue() never refuses work if the pool *)
(* was created with a thread, whatever pthread_create() does later.        *)
THEOREM QueueNeverFails == Spec => []QueueCannotFail
<1>1. IInv => QueueCannotFail
  BY DEF IInv, QueueCannotFail, Counted
<1> QED
  BY <1>1, InductiveInvariant, PTL

(* thread_pool.c:195: work waits for other work only if the pool has all   *)
(* the threads it may have (or could not create one).                      *)
THEOREM WorkIsCovered == Spec => []WorkCovered
<1>1. IInv => WorkCovered
  BY DEF IInv
<1> QED
  BY <1>1, InductiveInvariant, PTL

(* thread_pool.h:13: timeouts never take the pool below min_threads.       *)
THEOREM MinimumIsKept == Spec => MinimumKept
<1>1. IInv /\ [Next]_vars
        => [num_threads' < num_threads => num_threads' >= MinThreads \/ terminate']_vars
  <2> SUFFICES ASSUME IInv, [Next]_vars, num_threads' < num_threads
               PROVE  num_threads' >= MinThreads \/ terminate'
    OBVIOUS
  <2>1. num_threads \in Nat
    BY WorkersFinite DEF IInv, ControlOK, num_threads
  <2>2. threads' # threads
    BY <2>1 DEF num_threads
  <2>3. CASE \E t \in Workers : Leave(t)
    <3>1. terminate' = terminate
      BY <2>3 DEF Leave
    <3>2. ~terminate => num_threads' >= MinThreads
      BY <2>3, LeaveKeepsMinimum
    <3> QED
      BY <3>1, <3>2 DEF IInv, ControlOK
  <2>4. CASE Terminate
    BY <2>4 DEF Terminate
  <2>5. CASE \E j \in Jobs : AddWithNewThread(j)
    <3>1. PICK t \in Workers : pc[t] = "none" /\ threads' = threads \cup {t}
      BY <2>5 DEF AddWithNewThread
    <3>2. num_threads' >= num_threads
      BY <3>1, <2>1, WorkersFinite, FS_AddElement DEF IInv, ControlOK, num_threads
    <3> QED
      BY <2>1, <3>1, <3>2, WorkersFinite DEF IInv, ControlOK, num_threads
  <2> QED
    BY <2>2, <2>3, <2>4, <2>5
    DEF Next, Add, AddToThreads, AddCreateFailed, WorkerStep, Acquire, TakeWork,
        FinishWork, Sleep, Timeout, SpuriousWakeup, Free, Join, Freed, vars
<1> QED
  BY <1>1, InductiveInvariant, PTL DEF Spec, MinimumKept

-----------------------------------------------------------------------------
(* Sleeping workers *)

Sleepers == asleep \subseteq {t \in Workers : pc[t] \in {"wait", "timedwait"}}

SInv == IInv /\ Sleepers /\ NoWorkStranded

(* The sleepers are workers, and Awake is a finite set of workers.         *)
LEMMA AwakeFinite ==
  /\ IsFiniteSet(Awake) /\ Cardinality(Awake) \in Nat
  /\ IsFiniteSet(Awake') /\ Cardinality(Awake') \in Nat
<1>1. Awake \subseteq Workers /\ Awake' \subseteq Workers
  BY DEF Awake
<1> QED
  BY <1>1, WorkersFinite

(* One more worker is awake.                                               *)
LEMMA AwakeGains ==
  ASSUME NEW t, t \in Awake', t \notin Awake, Awake \subseteq Awake'
  PROVE  Cardinality(Awake') >= Cardinality(Awake) + 1
<1>1. Cardinality(Awake \cup {t}) = Cardinality(Awake) + 1
  BY AwakeFinite, FS_AddElement
<1>2. Cardinality(Awake \cup {t}) <= Cardinality(Awake')
  BY AwakeFinite, FS_Subset
<1> QED
  BY <1>1, <1>2, AwakeFinite

(* No worker falls asleep or leaves.                                       *)
LEMMA AwakeGrows ==
  ASSUME Awake \subseteq Awake'
  PROVE  Cardinality(Awake') >= Cardinality(Awake)
BY AwakeFinite, FS_Subset

(* Queueing wakes one sleeper for the item.                                *)
LEMMA AcceptWakes ==
  ASSUME SInv, NEW j \in Jobs, Accept(j),
         \A t \in Workers : pc'[t] = pc[t] \/ (pc[t] = "none" /\ pc'[t] = "start")
  PROVE  /\ Sleepers'
         /\ asleep' # {} => Len(work') <= Cardinality(Awake')
<1>1. Len(work') = Len(work) + 1 /\ Len(work) \in Nat
  BY LenAppend DEF Accept, SInv, IInv, ControlOK
<1>2. CASE asleep = {}
  BY <1>2 DEF Accept, Signal, Sleepers
<1>3. CASE asleep # {}
  <2>1. PICK t \in asleep : asleep' = asleep \ {t}
    BY <1>3 DEF Accept, Signal
  <2>2. Sleepers'
    BY <2>1 DEF SInv, Sleepers
  <2>3. t \in Awake' /\ t \notin Awake /\ Awake \subseteq Awake'
    BY <2>1 DEF SInv, Sleepers, Awake
  <2> QED
    BY <1>1, <1>3, <2>2, <2>3, AwakeGains, AwakeFinite DEF SInv, NoWorkStranded
<1> QED
  BY <1>2, <1>3

(* Every way of adding work does that.                                     *)
LEMMA AddSInv ==
  ASSUME SInv, NEW j \in Jobs, Add(j)
  PROVE  /\ Sleepers'
         /\ asleep' # {} => Len(work') <= Cardinality(Awake')
<1>1. CASE AddToThreads(j)
  <2>1. Accept(j) /\ \A t \in Workers : pc'[t] = pc[t]
    BY <1>1 DEF AddToThreads
  <2> QED
    BY <2>1, AcceptWakes
<1>2. CASE AddWithNewThread(j)
  <2>1. Accept(j) /\ \A t \in Workers : pc'[t] = pc[t] \/ (pc[t] = "none" /\ pc'[t] = "start")
    BY <1>2 DEF AddWithNewThread, SInv, IInv, ControlOK
  <2> QED
    BY <2>1, AcceptWakes
<1>3. CASE AddCreateFailed(j) /\ MayQueue(j)
  <2>1. Accept(j) /\ \A t \in Workers : pc'[t] = pc[t]
    BY <1>3 DEF AddCreateFailed
  <2> QED
    BY <2>1, AcceptWakes
<1>4. CASE AddCreateFailed(j) /\ ~MayQueue(j)
  <2>1. UNCHANGED <<work, asleep, pc>>
    BY <1>4 DEF AddCreateFailed
  <2> QED
    BY <2>1 DEF SInv, Sleepers, NoWorkStranded, Awake
<1> QED
  BY <1>1, <1>2, <1>3, <1>4 DEF Add

(* A worker that stops being awake takes an item along, or leaves none.    *)
LEMMA WorkerSInv ==
  ASSUME SInv, NEW t \in Workers, WorkerStep(t) \/ Timeout(t) \/ SpuriousWakeup(t)
  PROVE  /\ Sleepers'
         /\ asleep' # {} => Len(work') <= Cardinality(Awake')
<1> USE DEF SInv, Sleepers, IInv, ControlOK
<1>1. CASE Acquire(t) \/ FinishWork(t) \/ Timeout(t) \/ SpuriousWakeup(t)
  <2>1. Sleepers' /\ Awake \subseteq Awake' /\ work' = work /\ asleep' \subseteq asleep
    BY <1>1 DEF Acquire, FinishWork, Timeout, SpuriousWakeup, Awake
  <2>2. Len(work) \in Nat
    OBVIOUS
  <2> QED
    BY <2>1, <2>2, AwakeGrows, AwakeFinite DEF NoWorkStranded
<1>2. CASE TakeWork(t)
  <2>1. Sleepers' /\ asleep' = asleep /\ Len(work') = Len(work) - 1 /\ Len(work) \in Nat
    BY <1>2 DEF TakeWork
  <2>2. Awake' = Awake \ {t} /\ t \in Awake
    BY <1>2 DEF TakeWork, Awake
  <2>3. Cardinality(Awake') = Cardinality(Awake) - 1
    BY <2>2, AwakeFinite, FS_RemoveElement
  <2> QED
    BY <2>1, <2>3, AwakeFinite DEF NoWorkStranded
<1>3. CASE Sleep(t) \/ Leave(t)
  <2>1. Sleepers' /\ Len(work') = 0
    BY <1>3 DEF Sleep, Leave, MayLeave
  <2> QED
    BY <2>1, AwakeFinite
<1> QED
  BY <1>1, <1>2, <1>3 DEF WorkerStep

(* No step strands work.                                                   *)
LEMMA NextSInv == SInv /\ [Next]_vars => SInv'
<1> SUFFICES ASSUME SInv, [Next]_vars PROVE SInv'
  OBVIOUS
<1>1. Sleepers' /\ (asleep' # {} => Len(work') <= Cardinality(Awake'))
  <2>1. CASE \E j \in Jobs : Add(j)
    BY <2>1, AddSInv
  <2>2. CASE \E t \in Workers : WorkerStep(t) \/ Timeout(t) \/ SpuriousWakeup(t)
    BY <2>2, WorkerSInv
  <2>3. CASE Free \/ Freed \/ UNCHANGED vars
    BY <2>3 DEF Free, Freed, vars, SInv, Sleepers, NoWorkStranded, Awake
  <2>4. CASE Terminate
    BY <2>4 DEF Terminate, WakeAll, Sleepers
  <2>5. CASE Join
    <3>1. Sleepers' /\ Awake \subseteq Awake' /\ work' = work /\ asleep' = asleep
      BY <2>5 DEF Join, SInv, Sleepers, Awake, IInv, ControlOK
    <3>2. Len(work) \in Nat
      BY DEF SInv, IInv, ControlOK
    <3> QED
      BY <3>1, <3>2, AwakeGrows, AwakeFinite DEF SInv, NoWorkStranded
  <2> QED
    BY <2>1, <2>2, <2>3, <2>4, <2>5 DEF Next
<1>2. IInv'
  BY NextIInv DEF SInv
<1> QED
  BY <1>1, <1>2 DEF SInv, IInv, WorkAttended, NoWorkStranded

(* thread_pool.c:206: one pthread_cond_signal() per item is enough: no item*)
(* waits in the queue for a worker that sleeps, also when a signal hits a  *)
(* worker that finds its item taken or that times out at the same moment.  *)
THEOREM WorkIsNotStranded == Spec => []NoWorkStranded
<1>1. Init => SInv
  <2> SUFFICES ASSUME Init PROVE Sleepers /\ asleep = {}
    BY InitIInv DEF SInv, IInv, WorkAttended, NoWorkStranded
  <2> QED
    BY DEF Init, Sleepers
<1>2. SInv => NoWorkStranded
  BY DEF SInv
<1> QED
  BY <1>1, <1>2, NextSInv, PTL DEF Spec

-----------------------------------------------------------------------------
(* The pool implements JobPool                                             *)

Present == {t \in Workers : pc[t] # "none"}

Begun == {job[t] : t \in Workers} \ {NoJob}

(* Every item is queued or run once: the work of the queue differs, and is *)
(* not run; two workers do not run the same.                               *)
JInv ==
  /\ IInv
  /\ Lists(work, ToSet(work), Jobs)
  /\ job \in [Workers -> Jobs \cup {NoJob}]
  /\ \A t \in Workers : job[t] # NoJob <=> pc[t] = "working"
  /\ \A t \in Workers : job[t] \notin ToSet(work)
  /\ \A t, u \in Workers : job[t] = job[u] /\ job[t] # NoJob => t = u
  /\ Cardinality(Present) <= MaxThreads

(* A step of the pool, seen in the variables of JobPool                    *)
PoolStep ==
  \/ /\ owner # "freed" /\ owner' # "freed" /\ Begun' = Begun
     /\ \E j \in Jobs : j \notin ToSet(work) \cup Begun /\ ToSet(work') = ToSet(work) \cup {j}
  \/ /\ Cardinality(Begun) < MaxThreads /\ (owner' = "freed" <=> owner = "freed")
     /\ \E j \in Jobs : /\ j \in ToSet(work) /\ ToSet(work') = ToSet(work) \ {j}
                        /\ Begun' = Begun \cup {j}
  \/ /\ (owner' = "freed" <=> owner = "freed") /\ ToSet(work') = ToSet(work)
     /\ \E j \in Jobs : j \in Begun /\ Begun' = Begun \ {j}
  \/ /\ ToSet(work) = {} /\ Begun = {} /\ ToSet(work') = {} /\ Begun' = {}
     /\ owner' = "freed"
  \/ /\ ToSet(work') = ToSet(work) /\ Begun' = Begun
     /\ (owner' = "freed" <=> owner = "freed")

LEMMA PoolStepMaps == PoolStep => [Service!Next]_(Service!pvars)
  <1> DEFINE P == {work[i] : i \in DOMAIN work}
             C == owner = "freed"
  <1>1. P = ToSet(work) /\ P' = ToSet(work')
    BY DEF ToSet
  <1>2. (owner' = "freed" <=> owner = "freed") => C' = C
    OBVIOUS
  <1>3. owner # "freed" => C = FALSE
    OBVIOUS
  <1>4. owner' = "freed" => C' = TRUE
    OBVIOUS
  <1>0. \A S : Service!Cardinality(S) = Cardinality(S)
    BY DEF Service!Cardinality, Cardinality
  <1>5. /\ P = {} /\ Begun = {} /\ C' = TRUE /\ P' = P /\ Begun' = Begun
          => Service!Close
        /\ \A j \in Jobs : ~C /\ j \notin P \cup Begun /\ P' = P \cup {j}
                           /\ Begun' = Begun /\ C' = C => Service!Accept(j)
        /\ \A j \in Jobs : j \in P /\ Cardinality(Begun) < MaxThreads /\ P' = P \ {j}
                           /\ Begun' = Begun \cup {j} /\ C' = C => Service!Start(j)
        /\ \A j \in Jobs : j \in Begun /\ Begun' = Begun \ {j} /\ P' = P /\ C' = C
                           => Service!Finish(j)
        /\ P' = P /\ Begun' = Begun /\ C' = C => UNCHANGED Service!pvars
    BY <1>0, Zenon DEF Begun, Service!pvars, Service!Accept, Service!Start, Service!Finish,
           Service!Close
  <1>6. C \in BOOLEAN /\ C' \in BOOLEAN
    OBVIOUS
  <1>7. owner # "freed" /\ owner' # "freed" => ~C /\ C' = C
    OBVIOUS
  <1> HIDE DEF P, C
  <1> SUFFICES ASSUME PoolStep PROVE [Service!Next]_(Service!pvars)
    OBVIOUS
  <1>8. CASE \E j \in Jobs : Service!Accept(j) \/ Service!Start(j) \/ Service!Finish(j)
    BY <1>8 DEF Service!Next
  <1>9. CASE Service!Close \/ UNCHANGED Service!pvars
    BY <1>9 DEF Service!Next
  <1> QED BY <1>1, <1>2, <1>4, <1>5, <1>7, <1>8, <1>9 DEF PoolStep

LEMMA SameJInv ==
  ASSUME JInv, IInv', UNCHANGED <<work, job>>,
         \A t \in Workers : pc'[t] = "working" <=> pc[t] = "working",
         Present' \subseteq Present \/ ~terminate'
  PROVE  JInv'
  <1>1. Cardinality(Present') <= MaxThreads
    <2>1. CASE ~terminate'
      BY <2>1 DEF IInv, ThreadsListed, WorkCovered, Present, num_threads
    <2>2. CASE Present' \subseteq Present
      <3>1. IsFiniteSet(Present) /\ Cardinality(Present) \in Nat
            /\ IsFiniteSet(Present') /\ Cardinality(Present') \in Nat
        BY WorkersFinite DEF Present
      <3>2. Cardinality(Present') <= Cardinality(Present)
        BY <2>2, <3>1, FS_Subset
      <3> QED BY <3>1, <3>2, PoolAssumption DEF JInv
    <2> QED BY <2>1, <2>2
  <1> QED BY <1>1 DEF JInv

(* A job is accepted that is not in the pool.                              *)
LEMMA AddJob ==
  ASSUME JInv, IInv', NEW j \in Jobs, Add(j)
  PROVE  JInv' /\ PoolStep
  <1>1. owner = "open" /\ owner' = "open" /\ ~Queued(j) /\ ~Running(j) /\ job' = job
    BY DEF Add, AddToThreads, AddWithNewThread, AddCreateFailed, MayAdd, Accept
  <1>2. j \notin ToSet(work) /\ j \notin Begun /\ \A t \in Workers : job[t] # j
    BY <1>1 DEF Queued, Running, ToSet, Begun
  <1>3. \A t \in Workers : pc'[t] = "working" <=> pc[t] = "working"
    BY DEF Add, AddToThreads, AddWithNewThread, AddCreateFailed, JInv, IInv, ControlOK
  <1>4. ~terminate'
    BY <1>1 DEF IInv, ThreadsListed
  <1>5. Begun' = Begun
    BY <1>1 DEF Begun
  <1>6. CASE work' = work
    <2>1. JInv'
      BY <1>1, <1>3, <1>4, <1>6, SameJInv
    <2> QED BY <1>1, <1>5, <1>6, <2>1 DEF PoolStep
  <1>7. CASE work' = Append(work, j)
    <2>1. Lists(work', ToSet(work) \cup {j}, Jobs)
      BY <1>2, <1>7, AppendLists DEF JInv
    <2>2. ToSet(work') = ToSet(work) \cup {j} /\ Lists(work', ToSet(work'), Jobs)
      BY <2>1 DEF Lists
    <2>3. Cardinality(Present') <= MaxThreads
      BY <1>4 DEF IInv, ThreadsListed, WorkCovered, Present, num_threads
    <2>4. \A t \in Workers : job'[t] \notin ToSet(work')
      BY <1>1, <1>2, <2>2 DEF JInv
    <2>5. JInv'
      BY <1>1, <1>3, <2>2, <2>3, <2>4 DEF JInv
    <2>6. PoolStep
      BY <1>1, <1>2, <1>5, <2>2 DEF PoolStep
    <2> QED BY <2>5, <2>6
  <1>8. work' = work \/ work' = Append(work, j)
    BY DEF Add, AddToThreads, AddWithNewThread, AddCreateFailed, Accept
  <1> QED BY <1>6, <1>7, <1>8

(* No more than MaxThreads run at the same time.                           *)
LEMMA StartsBelowLimit ==
  ASSUME JInv, NEW t \in Workers, pc[t] = "loop"
  PROVE  Cardinality(Begun) < MaxThreads
  <1> DEFINE B == {u \in Workers : job[u] # NoJob}
  <1>1. IsFiniteSet(Present) /\ Cardinality(Present) \in Nat /\ t \in Present
        /\ IsFiniteSet(B) /\ Cardinality(B) \in Nat
    BY WorkersFinite DEF Present
  <1>2. B \subseteq Present \ {t}
    BY DEF JInv, Present
  <1>3. Cardinality(Present \ {t}) = Cardinality(Present) - 1 /\ IsFiniteSet(Present \ {t})
    BY <1>1, FS_RemoveElement
  <1>4. Cardinality(B) <= Cardinality(Present) - 1
    BY <1>2, <1>3, FS_Subset
  <1>5. Begun = {job[u] : u \in B}
    BY DEF Begun
  <1>6. Cardinality(Begun) <= Cardinality(B) /\ Cardinality(Begun) \in Nat
    <2> DEFINE f == [u \in B |-> job[u]]
    <2>1. f \in Surjection(B, Begun)
      BY <1>5 DEF Surjection
    <2> HIDE DEF B, f
    <2>2. IsFiniteSet(Begun) /\ Cardinality(Begun) <= Cardinality(B)
      BY <1>1, <2>1, FS_Surjection
    <2> QED BY <2>2, FS_CardinalityType
  <1> QED BY <1>1, <1>4, <1>6, PoolAssumption DEF JInv

(* The oldest item is begun.                                               *)
LEMMA TakeJob ==
  ASSUME JInv, IInv', NEW t \in Workers, TakeWork(t)
  PROVE  JInv' /\ PoolStep
  <1> DEFINE j == Head(work)
  <1>1. /\ pc[t] = "loop" /\ work # <<>> /\ work' = Tail(work)
        /\ job' = [job EXCEPT ![t] = j] /\ pc' = [pc EXCEPT ![t] = "working"]
        /\ UNCHANGED <<owner, terminate>>
    BY DEF TakeWork
  <1>2. j \in ToSet(work) /\ Lists(work', ToSet(work) \ {j}, Jobs)
    BY <1>1, TailLists DEF JInv
  <1>3. j \in Jobs /\ j # NoJob
    BY <1>2, ElementsOf, PoolAssumption DEF JInv, Lists
  <1>4. ToSet(work') = ToSet(work) \ {j} /\ Lists(work', ToSet(work'), Jobs)
    BY <1>2 DEF Lists
  <1> HIDE DEF j
  <1>5. /\ job' \in [Workers -> Jobs \cup {NoJob}] /\ job'[t] = j /\ job[t] = NoJob
        /\ \A u \in Workers \ {t} : job'[u] = job[u]
        /\ pc'[t] = "working" /\ \A u \in Workers \ {t} : pc'[u] = pc[u]
    BY <1>1, <1>3 DEF JInv, IInv, ControlOK
  <1>6. \A u \in Workers : job[u] # j
    BY <1>2 DEF JInv
  <1>7. Begun' = Begun \cup {j}
    <2>1. \A x : x \in Begun' => x \in Begun \cup {j}
      BY <1>5 DEF Begun
    <2>2. \A x : x \in Begun => x \in Begun'
      BY <1>5 DEF Begun
    <2>3. j \in Begun'
      BY <1>3, <1>5 DEF Begun
    <2> QED BY <2>1, <2>2, <2>3
  <1>8. Present' = Present
    BY <1>1, <1>5 DEF Present
  <1>9. JInv'
    <2>1. \A u \in Workers : job'[u] # NoJob <=> pc'[u] = "working"
      BY <1>3, <1>5 DEF JInv
    <2>2. \A u \in Workers : job'[u] \notin ToSet(work')
      BY <1>4, <1>5 DEF JInv
    <2>3. \A u, v \in Workers : job'[u] = job'[v] /\ job'[u] # NoJob => u = v
      BY <1>5, <1>6 DEF JInv
    <2>4. Cardinality(Present') <= MaxThreads
      BY <1>8 DEF JInv
    <2> QED BY <1>4, <1>5, <2>1, <2>2, <2>3, <2>4 DEF JInv
  <1>10. Cardinality(Begun) < MaxThreads
    BY <1>1, StartsBelowLimit
  <1> QED BY <1>1, <1>2, <1>3, <1>4, <1>7, <1>9, <1>10 DEF PoolStep

(* It returns.                                                             *)
LEMMA FinishJob ==
  ASSUME JInv, IInv', NEW t \in Workers, FinishWork(t)
  PROVE  JInv' /\ PoolStep
  <1>1. /\ pc[t] = "working" /\ job' = [job EXCEPT ![t] = NoJob] /\ work' = work
        /\ pc' = [pc EXCEPT ![t] = "loop"] /\ UNCHANGED <<owner, terminate>>
    BY DEF FinishWork
  <1>2. /\ job' \in [Workers -> Jobs \cup {NoJob}] /\ job'[t] = NoJob
        /\ job[t] \in Jobs /\ job[t] # NoJob
        /\ \A u \in Workers \ {t} : job'[u] = job[u] /\ job'[u] # job[t]
        /\ pc'[t] = "loop" /\ \A u \in Workers \ {t} : pc'[u] = pc[u]
    BY <1>1 DEF JInv, IInv, ControlOK
  <1>3. Begun' = Begun \ {job[t]} /\ job[t] \in Begun
    BY <1>2 DEF Begun
  <1>4. Present' = Present
    BY <1>1, <1>2 DEF Present
  <1>5. NoJob \notin ToSet(work)
    BY ElementsOf, PoolAssumption DEF JInv, Lists
  <1>6. JInv'
    <2>1. \A u \in Workers : job'[u] # NoJob <=> pc'[u] = "working"
      BY <1>2 DEF JInv
    <2>2. \A u \in Workers : job'[u] \notin ToSet(work')
      BY <1>1, <1>2, <1>5 DEF JInv
    <2>3. \A u, v \in Workers : job'[u] = job'[v] /\ job'[u] # NoJob => u = v
      BY <1>2 DEF JInv
    <2>4. Cardinality(Present') <= MaxThreads
      BY <1>4 DEF JInv
    <2> QED BY <1>1, <1>2, <2>1, <2>2, <2>3, <2>4 DEF JInv
  <1> QED BY <1>1, <1>2, <1>3, <1>6 DEF PoolStep

(* The pool is gone when its threads are, and there is no work then.       *)
LEMMA JoinJob ==
  ASSUME JInv, IInv', Join
  PROVE  JInv' /\ PoolStep
  <1>1. /\ owner = "joining" /\ owner' = "freed" /\ UNCHANGED <<work, job, terminate>>
        /\ pc' = [t \in Workers |-> IF t \in joining THEN "none" ELSE pc[t]]
        /\ \A t \in joining : pc[t] = "exited"
    BY DEF Join
  <1>2. \A t \in Workers : pc[t] \in {"none", "exited"}
    BY <1>1 DEF JInv, IInv, ThreadsListed
  <1>3. work = <<>> /\ \A t \in Workers : job[t] = NoJob
    BY <1>2 DEF JInv, IInv, WorkAttended
  <1>4. ToSet(work) = {} /\ Begun = {} /\ Begun' = {}
    BY <1>1, <1>3 DEF ToSet, Begun
  <1>5. JInv'
    BY <1>1, <1>2, SameJInv DEF Present
  <1> QED BY <1>1, <1>4, <1>5 DEF PoolStep

(* Nothing else concerns the work.                                         *)
LEMMA OtherJob ==
  ASSUME JInv, IInv',
         \/ \E t \in Workers : \/ Acquire(t) \/ Sleep(t) \/ Leave(t) \/ Timeout(t)
                               \/ SpuriousWakeup(t)
         \/ Free \/ Terminate \/ Freed \/ UNCHANGED vars
  PROVE  JInv' /\ PoolStep
  <1>1. UNCHANGED <<work, job>> /\ (owner' = "freed" <=> owner = "freed")
    BY DEF Acquire, Sleep, Leave, Timeout, SpuriousWakeup, Free, Terminate, Freed, vars
  <1>2. /\ \A t \in Workers : pc'[t] = "working" <=> pc[t] = "working"
        /\ \A t \in Workers : pc'[t] # "none" => pc[t] # "none"
    BY DEF Acquire, Sleep, Leave, Timeout, SpuriousWakeup, Free, Terminate, Freed, vars, JInv,
       IInv, ControlOK
  <1>3. JInv'
    BY <1>1, <1>2, SameJInv DEF Present
  <1> QED BY <1>1, <1>3 DEF PoolStep, Begun

(* misc/thread_pool.h: the pool runs every item that it accepted, once, at *)
(* most max_threads of them at a time, and is gone only after all of them. *)
THEOREM ImplementsJobPoolSafety == Spec => Service!Spec
  <1>1. Init => JInv /\ Service!Init
    <2> SUFFICES ASSUME Init PROVE JInv /\ Service!Init
      OBVIOUS
    <2>1. work = <<>> /\ owner # "freed" /\ \A t \in Workers : job[t] = NoJob
      BY DEF Init
    <2>2. ToSet(work) = {} /\ Begun = {} /\ {work[i] : i \in DOMAIN work} = {}
      BY <2>1 DEF ToSet, Begun
    <2>3. IInv /\ ~terminate
      BY InitIInv DEF Init
    <2>4. Cardinality(Present) <= MaxThreads
      BY <2>3 DEF IInv, ThreadsListed, WorkCovered, Present, num_threads
    <2>5. Lists(work, ToSet(work), Jobs)
      BY <2>1, <2>2, EmptyLists
    <2>6. /\ job \in [Workers -> Jobs \cup {NoJob}]
          /\ \A t \in Workers : pc[t] # "working"
      BY DEF Init
    <2>7. JInv
      BY <2>1, <2>2, <2>3, <2>4, <2>5, <2>6 DEF JInv
    <2> QED BY <2>1, <2>2, <2>7 DEF Service!Init, Begun
  <1>2. JInv /\ IInv' /\ [Next]_vars => JInv' /\ [Service!Next]_(Service!pvars)
    <2> SUFFICES ASSUME JInv, IInv', [Next]_vars PROVE JInv' /\ PoolStep
      BY PoolStepMaps
    <2> QED BY AddJob, TakeJob, FinishJob, JoinJob, OtherJob DEF Next, WorkerStep
  <1> QED BY InductiveInvariant, <1>1, <1>2, PTL DEF Spec, Service!Spec
=============================================================================

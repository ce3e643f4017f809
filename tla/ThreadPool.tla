------------------------------ MODULE ThreadPool ------------------------------
(***************************************************************************)
(* The thread pool of misc/thread_pool.c.  Any thread queues work, workers *)
(* are created on demand, sleep on pool->wakeup, remove themselves after a *)
(* timeout, and are joined when the owner frees the pool.                  *)
(*                                                                         *)
(* A worker that holds pool->lock at the head of its loop is "loop"; no    *)
(* other critical section runs meanwhile.                                  *)
(***************************************************************************)
EXTENDS Naturals, Sequences, FiniteSets

CONSTANTS
  Workers,        (* thread identities that pthread_create() may hand out  *)
  QueueJobs,      (* work given to mp_thread_pool_queue()                  *)
  RunJobs,        (* work given to mp_thread_pool_run()                    *)
  NoJob,
  InitThreads, MinThreads, MaxThreads,
  CreateMayFail   (* can pthread_create() fail?                            *)

Jobs == QueueJobs \cup RunJobs

ASSUME PoolAssumption ==
  /\ IsFiniteSet(Workers)
  /\ {InitThreads, MinThreads, MaxThreads} \subseteq Nat
  /\ InitThreads <= MinThreads
  /\ MaxThreads > 0 /\ MaxThreads >= MinThreads
  /\ Cardinality(Workers) >= MaxThreads
  /\ QueueJobs \cap RunJobs = {}
  /\ NoJob \notin Jobs
  /\ CreateMayFail \in BOOLEAN

VARIABLES
  work,           (* pool->work, the oldest item first                     *)
  threads,        (* pool->threads[0 .. num_threads - 1]                   *)
  busy_threads,
  terminate,
  pc,             (* where each worker is                                  *)
  job,            (* the work a worker runs                                *)
  got_timeout,    (* the workers whose got_timeout is set                  *)
  asleep,         (* the workers blocked on pool->wakeup                   *)
  owner,          (* "open", "freeing" (about to enter the destructor),    *)
                  (* "joining", "freed"                                    *)
  joining,        (* the threads the destructor joins                      *)
  refused,        (* history: the work that was not accepted               *)
  failed          (* history: pthread_create() has failed                  *)

vars == <<work, threads, busy_threads, terminate, pc, job, got_timeout,
          asleep, owner, joining, refused, failed>>

num_threads == Cardinality(threads)

(* "none" also stands for a detached thread that has returned.             *)
WorkerPcs == {"none", "start", "loop", "wait", "timedwait", "working", "exited"}

Queued(j) == \E i \in DOMAIN work : work[i] = j
Running(j) == \E t \in Workers : job[t] = j

(* mp_thread_pool_create(): too few threads, and the new pool is freed.    *)
Init ==
  /\ work = <<>>
  /\ threads \in {T \in SUBSET Workers :
                    Cardinality(T) = InitThreads
                    \/ (CreateMayFail /\ Cardinality(T) < InitThreads)}
  /\ busy_threads = 0
  /\ terminate = FALSE
  /\ pc = [t \in Workers |-> IF t \in threads THEN "start" ELSE "none"]
  /\ job = [t \in Workers |-> NoJob]
  /\ got_timeout = {}
  /\ asleep = {}
  /\ owner = IF num_threads >= InitThreads THEN "open" ELSE "freeing"
  /\ joining = {}
  /\ refused = {}
  /\ failed = (num_threads < InitThreads)

-----------------------------------------------------------------------------
MutexFree == \A t \in Workers : pc[t] # "loop"

(* Mutant of Signal: no wakeup at all. *)
NoSignal == UNCHANGED asleep

(* pthread_cond_signal() *)
Signal ==
  IF asleep = {} THEN UNCHANGED asleep
                 ELSE \E t \in asleep : asleep' = asleep \ {t}

TooFewThreads ==
  busy_threads + Len(work) + 1 > num_threads /\ num_threads < MaxThreads

(* Mutant of MayQueue: work is queued only if a thread is idle.            *)
QueueIfIdle(j) == j \in QueueJobs /\ num_threads > busy_threads

(* If it can be queued, it gets done as long as there is one thread.       *)
MayQueue(j) == j \in QueueJobs /\ num_threads > 0

(* thread_pool_add(): the cases that put the item into the queue ...       *)
Accept(j) ==
  /\ work' = Append(work, j)
  /\ Signal
  /\ UNCHANGED <<busy_threads, terminate, job, got_timeout, owner, joining>>

(* Who may call: nobody whose call could overlap with the destruction, and *)
(* each job is given to the pool again only after it has run.              *)
MayAdd(j) ==
  /\ owner = "open"
  /\ MutexFree
  /\ ~Queued(j)
  /\ ~Running(j)

AddToThreads(j) ==
  /\ MayAdd(j)
  /\ ~TooFewThreads
  /\ Accept(j)
  /\ UNCHANGED <<threads, pc, refused, failed>>

AddWithNewThread(j) ==
  /\ MayAdd(j)
  /\ TooFewThreads
  /\ \E t \in Workers :
       /\ pc[t] = "none"
       /\ threads' = threads \cup {t}
       /\ pc' = [pc EXCEPT ![t] = "start"]
  /\ Accept(j)
  /\ UNCHANGED <<refused, failed>>

AddCreateFailed(j) ==
  /\ MayAdd(j)
  /\ TooFewThreads
  /\ CreateMayFail
  /\ failed' = TRUE
  /\ IF MayQueue(j)
       THEN Accept(j) /\ UNCHANGED refused
       ELSE /\ refused' = refused \cup {j}
            /\ UNCHANGED <<work, asleep, busy_threads, terminate, job,
                           got_timeout, owner, joining>>
  /\ UNCHANGED <<threads, pc>>

-----------------------------------------------------------------------------
(* worker_thread() *)

(* The mutex is taken: at the start, or on the return from the wait.       *)
Acquire(t) ==
  /\ pc[t] \in {"start", "wait", "timedwait"}
  /\ t \notin asleep
  /\ MutexFree
  /\ pc' = [pc EXCEPT ![t] = "loop"]
  /\ UNCHANGED <<work, threads, busy_threads, terminate, job, got_timeout,
                 asleep, owner, joining, refused, failed>>

TakeWork(t) ==
  /\ pc[t] = "loop"
  /\ work # <<>>
  /\ job' = [job EXCEPT ![t] = Head(work)]
  /\ work' = Tail(work)
  /\ busy_threads' = busy_threads + 1
  /\ pc' = [pc EXCEPT ![t] = "working"]
  /\ UNCHANGED <<threads, terminate, got_timeout, asleep, owner, joining, refused, failed>>

(* work.fn() returned and the mutex was taken again. *)
FinishWork(t) ==
  /\ pc[t] = "working"
  /\ MutexFree
  /\ job' = [job EXCEPT ![t] = NoJob]
  /\ busy_threads' = busy_threads - 1
  /\ got_timeout' = got_timeout \ {t}
  /\ pc' = [pc EXCEPT ![t] = "loop"]
  /\ UNCHANGED <<work, threads, terminate, asleep, owner, joining, refused, failed>>

Surplus == num_threads > MinThreads

Sleep(t) ==
  /\ pc[t] = "loop"
  /\ work = <<>>
  /\ t \notin got_timeout
  /\ ~terminate
  /\ asleep' = asleep \cup {t}
  /\ pc' = [pc EXCEPT ![t] = IF Surplus THEN "timedwait" ELSE "wait"]
  /\ UNCHANGED <<work, threads, busy_threads, terminate, job, got_timeout,
                 owner, joining, refused, failed>>

(* DESTROY_TIMEOUT passed, maybe after a signal that this thread consumes. *)
Timeout(t) ==
  /\ pc[t] = "timedwait"
  /\ MutexFree
  /\ got_timeout' = IF Surplus THEN got_timeout \cup {t} ELSE got_timeout
  /\ asleep' = asleep \ {t}
  /\ pc' = [pc EXCEPT ![t] = "loop"]
  /\ UNCHANGED <<work, threads, busy_threads, terminate, job, owner, joining, refused, failed>>

(* Mutant of MayLeave: termination is noticed before the work is done.     *)
LeaveAtOnce(t) == terminate \/ (work = <<>> /\ t \in got_timeout)

MayLeave(t) == work = <<>> /\ (t \in got_timeout \/ terminate)

(* The thread removes and detaches itself, unless it is going to be joined.*)
Leave(t) ==
  /\ pc[t] = "loop"
  /\ MayLeave(t)
  /\ threads' = IF terminate THEN threads ELSE threads \ {t}
  /\ pc' = [pc EXCEPT ![t] = IF terminate THEN "exited" ELSE "none"]
  /\ got_timeout' = got_timeout \ {t}
  /\ UNCHANGED <<work, busy_threads, terminate, job, asleep, owner, joining, refused, failed>>

SpuriousWakeup(t) ==
  /\ t \in asleep
  /\ asleep' = asleep \ {t}
  /\ UNCHANGED <<work, threads, busy_threads, terminate, pc, job, got_timeout,
                 owner, joining, refused, failed>>

-----------------------------------------------------------------------------
(* thread_pool_dtor() *)

Free ==
  /\ owner = "open"
  /\ owner' = "freeing"
  /\ UNCHANGED <<work, threads, busy_threads, terminate, pc, job, got_timeout,
                 asleep, joining, refused, failed>>

(* Mutant of WakeAll: one thread is told to terminate. *)
WakeOne == Signal

WakeAll == asleep' = {}

Terminate ==
  /\ owner = "freeing"
  /\ MutexFree
  /\ terminate' = TRUE
  /\ WakeAll
  /\ joining' = threads
  /\ threads' = {}
  /\ owner' = "joining"
  /\ UNCHANGED <<work, busy_threads, pc, job, got_timeout, refused, failed>>

Join ==
  /\ owner = "joining"
  /\ \A t \in joining : pc[t] = "exited"
  /\ pc' = [t \in Workers |-> IF t \in joining THEN "none" ELSE pc[t]]
  /\ joining' = {}
  /\ owner' = "freed"
  /\ UNCHANGED <<work, threads, busy_threads, terminate, job, got_timeout,
                 asleep, refused, failed>>

Freed == owner = "freed" /\ UNCHANGED vars

-----------------------------------------------------------------------------
Add(j) == AddToThreads(j) \/ AddWithNewThread(j) \/ AddCreateFailed(j)

WorkerStep(t) ==
  Acquire(t) \/ TakeWork(t) \/ FinishWork(t) \/ Sleep(t) \/ Leave(t)

Next ==
  \/ \E j \in Jobs : Add(j)
  \/ \E t \in Workers : WorkerStep(t) \/ Timeout(t) \/ SpuriousWakeup(t)
  \/ Free \/ Terminate \/ Join
  \/ Freed

Spec == Init /\ [][Next]_vars

(* Workers that can go on do (they get the mutex in the end, and the work  *)
(* they run returns); the destructor, once entered, does too.  Nobody has  *)
(* to add work or free the pool, and no timeout is relied on.              *)
Fairness ==
  /\ \A t \in Workers : SF_vars(WorkerStep(t))
  /\ SF_vars(Terminate)
  /\ WF_vars(Join)

FairSpec == Spec /\ Fairness

-----------------------------------------------------------------------------
(* Properties *)

Awake == {t \in Workers : pc[t] \in {"start", "loop", "wait", "timedwait"}} \ asleep

(* thread_pool.c:206 signals one thread per item: as long as some worker   *)
(* sleeps, enough others are on their way to the queue to empty it, and    *)
(* work that is queued always has a thread that will come for it.          *)
NoWorkStranded ==
  /\ asleep # {} => Len(work) <= Cardinality(Awake)
  /\ work # <<>> => \E t \in Workers : pc[t] \notin {"none", "exited"}

(* thread_pool.c:195: a new thread is created when the idle ones are spoken*)
(* for, so only a pool at its limit (or a failing pthread_create()) makes  *)
(* work wait for other work; and the limit is kept.                        *)
WorkCovered ==
  /\ num_threads <= MaxThreads
  /\ \/ busy_threads + Len(work) <= num_threads
     \/ num_threads = MaxThreads
     \/ failed
     \/ terminate

(* thread_pool.h:13: threads up to min_threads are never destroyed, even   *)
(* if several of them time out at the same time.                           *)
MinimumKept ==
  [][num_threads' < num_threads => num_threads' >= MinThreads \/ terminate']_vars

(* thread_pool.h:14, 24: queueing cannot fail if the pool was created with *)
(* at least one thread.                                                    *)
QueueCannotFail == InitThreads > 0 => refused \cap QueueJobs = {}

(* thread_pool.h:9: freeing the pool ends with no work left, no thread     *)
(* inside the pool and none unaccounted for.                               *)
FreedClean ==
  owner = "freed" =>
    /\ work = <<>>
    /\ threads = {}
    /\ \A t \in Workers : pc[t] = "none"

Service == INSTANCE JobPool WITH
  Parallel <- MaxThreads,
  pending <- {work[i] : i \in DOMAIN work},
  running <- {job[t] : t \in Workers} \ {NoJob},
  closed <- owner = "freed"

(* Every accepted item runs exactly once, at most max_threads at a time,   *)
(* also if the pool is freed in the meantime.                              *)
ImplementsJobPool == Service!FairSpec

(* Freeing the pool terminates: every sleeping worker notices and leaves.  *)
FreeReturns == owner = "freeing" ~> owner = "freed"

=============================================================================

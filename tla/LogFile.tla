------------------------------- MODULE LogFile -------------------------------
(***************************************************************************)
(* The log file of common/msg.c: any thread may log (mp_msg), which puts   *)
(* the line into a ring buffer; a thread of its own writes the lines to    *)
(* the file, so that slow I/O blocks nobody until the buffer is full; the  *)
(* main thread opens and closes the log file (mp_msg_update_msglevels,     *)
(* mp_msg_uninit).  A line is the number of the call that logged it.       *)
(***************************************************************************)
EXTENDS Naturals, Sequences, SequencesExt

CONSTANTS
  Writers,        (* the threads that log                                  *)
  Main, Logger,   (* the main thread and log_file_thread                   *)
  None,
  Capacity,       (* of the buffer (100 in the code)                       *)
  MaxLines,       (* bound: lines logged                                   *)
  MaxOpens        (* bound: log files opened                               *)

ASSUME ThreadsAssumption ==
  Main \notin Writers /\ Logger \notin Writers /\ Main # Logger
  /\ None \notin Writers \cup {Main, Logger}
ASSUME BoundsAssumption == Capacity \in Nat \ {0} /\ MaxLines \in Nat /\ MaxOpens \in Nat

VARIABLES
  root_lock,      (* the owner of root->lock                               *)
  log_file_lock,  (* the owner of log_file_lock, if kept between steps     *)
  asleep,         (* the threads in pthread_cond_wait(log_file_wakeup)     *)
  open,           (* the buffer exists                                     *)
  entries,        (* its lines, the oldest first                           *)
  log_file_thread_active,
  pc,             (* per thread                                            *)
  line,           (* per writer: the line it logs                          *)
  dead,           (* per writer: it saw that there is no log file thread   *)
  held,           (* the line that the log file thread writes, or none     *)
  lines, opens,   (* history: the lines logged, the files opened           *)
  file,           (* history: the lines in the open file                   *)
  skipped         (* history: the lines that are not to be written to it   *)

lockVars == <<root_lock, log_file_lock, asleep>>
bufVars == <<open, entries>>
histVars == <<lines, opens, file, skipped>>
vars == <<lockVars, bufVars, histVars, log_file_thread_active, pc, line, dead, held>>

Threads == Writers \cup {Main, Logger}

Init ==
  /\ root_lock = None /\ log_file_lock = None /\ asleep = {}
  /\ open = FALSE /\ entries = <<>>
  /\ log_file_thread_active = FALSE
  /\ pc = [t \in Threads |-> IF t = Logger THEN "none" ELSE "idle"]
  /\ line = [w \in Writers |-> 0] /\ dead = [w \in Writers |-> FALSE]
  /\ held = <<>>
  /\ lines = 0 /\ opens = 0 /\ file = <<>> /\ skipped = {}

Goto(t, l) == pc' = [pc EXCEPT ![t] = l]

(* pthread_cond_broadcast(): all that sleep must take the mutex again.     *)
Broadcast == asleep' = {}

-----------------------------------------------------------------------------
(* mp_msg_va() and write_msg_to_buffers()                                  *)

Log(w) ==
  /\ pc[w] = "idle" /\ root_lock = None /\ lines < MaxLines
  /\ lines' = lines + 1
  /\ line' = [line EXCEPT ![w] = lines + 1]
  /\ IF open
     THEN /\ root_lock' = w /\ dead' = [dead EXCEPT ![w] = FALSE]
          /\ Goto(w, "write")
          /\ UNCHANGED skipped
     ELSE /\ skipped' = skipped \cup {lines + 1}
          /\ UNCHANGED <<root_lock, dead, pc>>
  /\ UNCHANGED <<log_file_lock, asleep, bufVars, opens, file, log_file_thread_active, held>>

(* buffer->lock is held from here ...                                      *)
WriteFull(w) ==
  /\ pc[w] = "write" /\ Len(entries) = Capacity /\ ~dead[w]
  /\ Goto(w, "full")
  /\ UNCHANGED <<lockVars, bufVars, histVars, log_file_thread_active, line, dead, held>>

(* Mutant of Write: of a full buffer the newest line is dropped.           *)
WriteOverNewest(w) ==
  /\ pc[w] = "write" /\ (Len(entries) < Capacity \/ dead[w])
  /\ IF Len(entries) = Capacity
     THEN /\ entries' = Append(Front(entries), line[w])
          /\ skipped' = skipped \cup {Last(entries)}
     ELSE entries' = Append(entries, line[w]) /\ UNCHANGED skipped
  /\ Goto(w, "notify")
  /\ UNCHANGED <<lockVars, open, lines, opens, file, log_file_thread_active, line, dead, held>>

(* ... to here; without a log file thread the oldest line is dropped.      *)
Write(w) ==
  /\ pc[w] = "write" /\ (Len(entries) < Capacity \/ dead[w])
  /\ IF Len(entries) = Capacity
     THEN /\ entries' = Append(Tail(entries), line[w])
          /\ skipped' = skipped \cup {Head(entries)}
     ELSE entries' = Append(entries, line[w]) /\ UNCHANGED skipped
  /\ Goto(w, "notify")
  /\ UNCHANGED <<lockVars, open, lines, opens, file, log_file_thread_active, line, dead, held>>

(* The buffer is unlocked, log_file_lock is taken.                         *)
Block(w) ==
  /\ pc[w] = "full" /\ log_file_lock = None
  /\ IF log_file_thread_active
     THEN /\ asleep' = asleep \cup {w}
          /\ Goto(w, "blocked")
          /\ UNCHANGED dead
     ELSE /\ dead' = [dead EXCEPT ![w] = TRUE]
          /\ Goto(w, "write")
          /\ UNCHANGED asleep
  /\ UNCHANGED <<root_lock, log_file_lock, bufVars, histVars, log_file_thread_active, line, held>>

Unblock(w) ==
  /\ pc[w] = "blocked" /\ w \notin asleep /\ log_file_lock = None
  /\ Goto(w, "write")
  /\ UNCHANGED <<lockVars, bufVars, histVars, log_file_thread_active, line, dead, held>>

(* wakeup_log_file(), and the end of mp_msg_va()                           *)
Notify(w) ==
  /\ pc[w] = "notify" /\ log_file_lock = None
  /\ Broadcast
  /\ root_lock' = None
  /\ Goto(w, "idle")
  /\ UNCHANGED <<log_file_lock, bufVars, histVars, log_file_thread_active, line, dead, held>>

-----------------------------------------------------------------------------
(* log_file_thread()                                                       *)

LoggerLocks ==
  /\ pc[Logger] = "start" /\ log_file_lock = None
  /\ log_file_lock' = Logger
  /\ Goto(Logger, "locked")
  /\ UNCHANGED <<root_lock, asleep, bufVars, histVars, log_file_thread_active, line, dead, held>>

LoggerReads ==
  /\ pc[Logger] = "locked" /\ log_file_thread_active /\ entries # <<>>
  /\ held' = <<Head(entries)>> /\ entries' = Tail(entries)
  /\ log_file_lock' = None
  /\ Goto(Logger, "print")
  /\ UNCHANGED <<root_lock, asleep, open, histVars, log_file_thread_active, line, dead>>

LoggerSleeps ==
  /\ pc[Logger] = "locked" /\ log_file_thread_active /\ entries = <<>>
  /\ asleep' = asleep \cup {Logger}
  /\ log_file_lock' = None
  /\ Goto(Logger, "asleep")
  /\ UNCHANGED <<root_lock, bufVars, histVars, log_file_thread_active, line, dead, held>>

LoggerPrints ==
  /\ pc[Logger] = "print" /\ log_file_lock = None
  /\ file' = file \o held /\ held' = <<>>
  /\ log_file_lock' = Logger
  /\ Broadcast
  /\ Goto(Logger, "locked")
  /\ UNCHANGED <<root_lock, bufVars, lines, opens, skipped, log_file_thread_active, line, dead>>

LoggerWakes ==
  /\ pc[Logger] = "asleep" /\ Logger \notin asleep /\ log_file_lock = None
  /\ log_file_lock' = Logger
  /\ Goto(Logger, "locked")
  /\ UNCHANGED <<root_lock, asleep, bufVars, histVars, log_file_thread_active, line, dead, held>>

LoggerEnds ==
  /\ pc[Logger] = "locked" /\ ~log_file_thread_active
  /\ log_file_lock' = None
  /\ Goto(Logger, "ended")
  /\ UNCHANGED <<root_lock, asleep, bufVars, histVars, log_file_thread_active, line, dead, held>>

-----------------------------------------------------------------------------
(* The main thread: mp_msg_update_msglevels(), mp_msg_uninit()             *)

(* fopen() and mp_msg_log_buffer_new()                                     *)
OpenFile ==
  /\ pc[Main] = "idle" /\ ~open /\ root_lock = None /\ opens < MaxOpens
  /\ open' = TRUE /\ entries' = <<>>
  /\ opens' = opens + 1 /\ file' = <<>> /\ skipped' = 1..lines
  /\ Goto(Main, "opened")
  /\ UNCHANGED <<lockVars, lines, log_file_thread_active, line, dead, held>>

(* log_file_thread_active is set before pthread_create() and without       *)
(* log_file_lock.                                                          *)
Activate ==
  /\ pc[Main] = "opened"
  /\ log_file_thread_active' = TRUE
  /\ Goto(Main, "starting")
  /\ UNCHANGED <<lockVars, bufVars, histVars, line, dead, held>>

StartThread ==
  /\ pc[Main] = "starting"
  /\ pc' = [pc EXCEPT ![Main] = "idle", ![Logger] = "start"]
  /\ UNCHANGED <<lockVars, bufVars, histVars, log_file_thread_active, line, dead, held>>

(* pthread_create() fails: nobody is woken.                                *)
StartFails ==
  /\ pc[Main] = "starting"
  /\ log_file_thread_active' = FALSE
  /\ Goto(Main, "destroy")
  /\ UNCHANGED <<lockVars, bufVars, histVars, line, dead, held>>

(* Mutant of Terminate: nobody is woken.                                   *)
TerminateQuietly ==
  /\ pc[Main] = "idle" /\ open /\ log_file_lock = None
  /\ log_file_thread_active' = FALSE
  /\ Goto(Main, "join")
  /\ UNCHANGED <<lockVars, bufVars, histVars, line, dead, held>>

(* terminate_log_file_thread()                                             *)
Terminate ==
  /\ pc[Main] = "idle" /\ open /\ log_file_lock = None
  /\ log_file_thread_active' = FALSE
  /\ Broadcast
  /\ Goto(Main, "join")
  /\ UNCHANGED <<root_lock, log_file_lock, bufVars, histVars, line, dead, held>>

Join ==
  /\ pc[Main] = "join" /\ pc[Logger] = "ended"
  /\ pc' = [pc EXCEPT ![Main] = "destroy", ![Logger] = "none"]
  /\ UNCHANGED <<lockVars, bufVars, histVars, log_file_thread_active, line, dead, held>>

(* Mutant of Destroy: root->lock is not taken.                             *)
DestroyUnlocked ==
  /\ pc[Main] = "destroy"
  /\ open' = FALSE /\ entries' = <<>>
  /\ skipped' = 1..lines /\ file' = <<>>
  /\ Goto(Main, "idle")
  /\ UNCHANGED <<lockVars, lines, opens, log_file_thread_active, line, dead, held>>

(* mp_msg_log_buffer_destroy(): what was not written is dropped.           *)
Destroy ==
  /\ pc[Main] = "destroy" /\ root_lock = None
  /\ open' = FALSE /\ entries' = <<>>
  /\ skipped' = 1..lines /\ file' = <<>>
  /\ Goto(Main, "idle")
  /\ UNCHANGED <<lockVars, lines, opens, log_file_thread_active, line, dead, held>>

WriterStep(w) == WriteFull(w) \/ Write(w) \/ Block(w) \/ Unblock(w) \/ Notify(w)

LoggerStep == \/ LoggerLocks \/ LoggerReads \/ LoggerSleeps \/ LoggerPrints
              \/ LoggerWakes \/ LoggerEnds

MainReturns == Activate \/ StartThread \/ StartFails \/ Join \/ Destroy

Next ==
  \/ \E w \in Writers : Log(w) \/ WriterStep(w)
  \/ LoggerStep
  \/ OpenFile \/ Terminate \/ MainReturns

Spec == Init /\ [][Next]_vars

(* Threads that are in a call run on; mutexes are acquired at last.        *)
FairSpec == /\ Spec /\ SF_vars(LoggerStep) /\ SF_vars(MainReturns)
            /\ \A w \in Writers : SF_vars(WriterStep(w))

-----------------------------------------------------------------------------
TypeOK ==
  /\ root_lock \in Writers \cup {None} /\ log_file_lock \in {Logger, None}
  /\ asleep \subseteq Writers \cup {Logger}
  /\ {open, log_file_thread_active} \subseteq BOOLEAN
  /\ entries \in Seq(1..lines) /\ Len(entries) <= Capacity
  /\ pc \in [Threads -> {"none", "idle", "write", "full", "blocked", "notify", "start",
                         "locked", "print", "asleep", "ended", "opened", "starting", "join",
                         "destroy"}]
  /\ line \in [Writers -> 0..lines] /\ dead \in [Writers -> BOOLEAN]
  /\ lines \in 0..MaxLines /\ opens \in 0..MaxOpens /\ skipped \subseteq 1..lines

(* "buffer can't go away because the global log lock is held" (msg.c:357), *)
(* although the writer unlocks the buffer itself while it waits for room.  *)
BufferAlive == \A w \in Writers : pc[w] # "idle" => open /\ root_lock = w

(* The lines whose writers have not put them into the buffer yet           *)
Unfinished ==
  {line[w] : w \in {v \in Writers : pc[v] \in {"write", "full", "blocked"}}}

Increasing(q) == \A i, j \in DOMAIN q : i < j => q[i] < q[j]

(* The lines logged since the file was opened are written once and in      *)
(* order; a line is missing only when there was no thread to write it, and *)
(* then it is older than every line that the buffer still holds.           *)
WrittenInOrder ==
  LET written == file \o held \o entries
  IN /\ Increasing(written)
     /\ ToSet(written) = 1..lines \ (skipped \cup Unfinished)
     /\ \A gone \in skipped, kept \in ToSet(entries) : gone < kept

(* terminate_log_file_thread() on a running thread returns, whoever is     *)
(* blocked on the full buffer at that time, even after a lost wakeup.      *)
TerminateReturns == pc[Main] = "join" ~> pc[Main] = "idle"

(* "If the buffer is full, block until we can write again": nobody stays   *)
(* blocked after the log file thread made room and went to sleep.          *)
BlockedOnlyWhileFull ==
  \A w \in Writers : w \in asleep /\ Logger \in asleep => Len(entries) = Capacity
=============================================================================

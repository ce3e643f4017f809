---------------------------- MODULE LogFileProofs ----------------------------
(***************************************************************************)
(* The types, BufferAlive and WrittenInOrder, for any writers, capacity    *)
(* and bounds.                                                             *)
(***************************************************************************)
EXTENDS LogFile, SequenceLemmas

WriterPC == {"idle", "write", "full", "blocked", "notify"}

(* A writer that logs holds root->lock, and the buffer exists then; so     *)
(* only the main thread, which needs root->lock, can take it away.         *)
IInv ==
  /\ TypeOK
  /\ BufferAlive
  /\ \A w \in Writers : pc[w] \in WriterPC /\ (pc[w] # "idle" => line[w] # 0)

LEMMA InitIInv == Init => IInv
  <1> SUFFICES ASSUME Init PROVE IInv
    OBVIOUS
  <1> USE ThreadsAssumption, BoundsAssumption DEF Init
  <1>1. entries \in Seq(1..lines) /\ Len(entries) = 0
    BY EmptySeq
  <1>2. pc \in [Threads -> {"none", "idle"}]
    OBVIOUS
  <1>3. TypeOK
    <2>1. line \in [Writers -> 0..lines] /\ dead \in [Writers -> BOOLEAN]
      OBVIOUS
    <2>2. lines \in 0..MaxLines /\ opens \in 0..MaxOpens /\ Len(entries) <= Capacity
      BY <1>1
    <2>3. /\ pc \in [Threads -> {"none", "idle", "write", "full", "blocked", "notify",
                                "start", "locked", "print", "asleep", "ended",
                                "opened", "starting", "join", "destroy"}]
          /\ {open, log_file_thread_active} \subseteq BOOLEAN
      BY <1>2
    <2>4. /\ root_lock \in Writers \cup {None} /\ log_file_lock \in {Logger, None}
          /\ asleep \subseteq Writers \cup {Logger} /\ skipped \subseteq 1..lines
      OBVIOUS
    <2> QED BY <1>1, <2>1, <2>2, <2>3, <2>4 DEF TypeOK
  <1>4. \A w \in Writers : pc[w] = "idle"
    BY DEF Threads
  <1> QED BY <1>3, <1>4 DEF IInv, BufferAlive, WriterPC

(* The steps of a writer in mp_msg_va().                                   *)
LEMMA WriterStepIInv ==
  ASSUME NEW w \in Writers, IInv, Log(w) \/ WriterStep(w)
  PROVE  IInv'
  <1> USE ThreadsAssumption, BoundsAssumption
          DEF IInv, TypeOK, BufferAlive, WriterPC, Threads, Goto
  <1>1. CASE Log(w)
    <2>1. lines \in Nat /\ lines' = lines + 1 /\ entries' = entries
      BY <1>1 DEF Log, bufVars
    <2>2. entries' \in Seq(1..lines')
      <3>1. entries \in Seq(1..lines)
        OBVIOUS
      <3>4. 1..lines \subseteq 1..(lines + 1)
        BY <2>1
      <3> HIDE DEF IInv, TypeOK
      <3>2. entries \in Seq(1..(lines + 1))
        BY <3>1, <3>4, SeqMonotonic
      <3> QED BY <2>1, <3>2
    <2>3. lines' \in 0..MaxLines /\ skipped' \subseteq 1..lines'
      <3>1. lines' \in 0..MaxLines
        BY <1>1, <2>1 DEF Log
      <3>2. skipped' \subseteq skipped \cup {lines + 1}
        BY <1>1 DEF Log
      <3> QED BY <2>1, <3>1, <3>2
    <2>4. line' \in [Writers -> 0..lines'] /\ line'[w] # 0
          /\ \A v \in Writers \ {w} : line'[v] = line[v]
      BY <1>1, <2>1 DEF Log
    <2>5. TypeOK'
      BY <1>1, <2>1, <2>2, <2>3, <2>4 DEF Log, bufVars
    <2>6. \A v \in Writers : pc[v] = "idle"
      BY <1>1 DEF Log
    <2>7. /\ open' = open
          /\ \A v \in Writers \ {w} : pc'[v] = "idle"
          /\ IF open THEN pc'[w] = "write" /\ root_lock' = w ELSE pc'[w] = "idle"
      BY <1>1, <2>6 DEF Log, bufVars
    <2> HIDE DEF TypeOK
    <2> QED BY <2>4, <2>5, <2>7
  <1>2. CASE WriteFull(w)
    BY <1>2 DEF WriteFull, lockVars, bufVars, histVars
  <1>3. CASE Write(w)
    <2>1. line[w] \in 1..lines /\ entries \in Seq(1..lines) /\ lines \in Nat
      BY <1>3 DEF Write
    <2>2. CASE Len(entries) = Capacity
      <3>1. entries # <<>> /\ entries' = Append(Tail(entries), line[w])
        BY <1>3, <2>1, <2>2 DEF Write
      <3>2. Tail(entries) \in Seq(1..lines) /\ Len(Tail(entries)) = Capacity - 1
        BY <2>1, <2>2, <3>1
      <3>3. entries' \in Seq(1..lines) /\ Len(entries') <= Capacity
        BY <2>1, <3>1, <3>2
      <3>4. Head(entries) \in 1..lines
        BY <2>1, <3>1
      <3> QED BY <1>3, <2>2, <3>3, <3>4 DEF Write, lockVars
    <2>3. CASE Len(entries) # Capacity
      <3>1. entries' = Append(entries, line[w]) /\ Len(entries) + 1 <= Capacity
        BY <1>3, <2>1, <2>3 DEF Write
      <3>2. entries' \in Seq(1..lines) /\ Len(entries') <= Capacity
        BY <2>1, <3>1
      <3> QED BY <1>3, <2>3, <3>2 DEF Write, lockVars
    <2> QED BY <2>2, <2>3
  <1>4. CASE Block(w)
    <2>1. CASE log_file_thread_active
      BY <1>4, <2>1 DEF Block, bufVars, histVars
    <2>2. CASE ~log_file_thread_active
      BY <1>4, <2>2 DEF Block, bufVars, histVars
    <2> QED BY <2>1, <2>2
  <1>5. CASE Unblock(w)
    BY <1>5 DEF Unblock, lockVars, bufVars, histVars
  <1>6. CASE Notify(w)
    BY <1>6 DEF Notify, Broadcast, bufVars, histVars
  <1> QED BY <1>1, <1>2, <1>3, <1>4, <1>5, <1>6 DEF WriterStep

(* The steps of log_file_thread().                                         *)
LEMMA LoggerStepIInv ==
  ASSUME IInv, LoggerStep
  PROVE  IInv'
  <1> USE ThreadsAssumption, BoundsAssumption
          DEF IInv, TypeOK, BufferAlive, WriterPC, Threads, Goto, lockVars, bufVars, histVars
  <1>1. CASE LoggerLocks  BY <1>1 DEF LoggerLocks
  <1>2. CASE LoggerReads  BY <1>2 DEF LoggerReads
  <1>3. CASE LoggerSleeps BY <1>3 DEF LoggerSleeps
  <1>4. CASE LoggerPrints BY <1>4 DEF LoggerPrints, Broadcast
  <1>5. CASE LoggerWakes  BY <1>5 DEF LoggerWakes
  <1>6. CASE LoggerEnds   BY <1>6 DEF LoggerEnds
  <1> QED BY <1>1, <1>2, <1>3, <1>4, <1>5, <1>6 DEF LoggerStep

(* The steps of the main thread.                                           *)
LEMMA MainStepIInv ==
  ASSUME IInv, OpenFile \/ Terminate \/ MainReturns
  PROVE  IInv'
  <1> USE ThreadsAssumption, BoundsAssumption
          DEF IInv, TypeOK, BufferAlive, WriterPC, Threads, Goto, lockVars, bufVars, histVars
  <1>1. CASE OpenFile    BY <1>1 DEF OpenFile
  <1>2. CASE Terminate   BY <1>2 DEF Terminate, Broadcast
  <1>3. CASE Activate    BY <1>3 DEF Activate
  <1>4. CASE StartThread BY <1>4 DEF StartThread
  <1>5. CASE StartFails  BY <1>5 DEF StartFails
  <1>6. CASE Join        BY <1>6 DEF Join
  <1>7. CASE Destroy
    <2>1. entries' \in Seq(1..lines') /\ Len(entries') <= Capacity
      BY <1>7 DEF Destroy
    <2>2. \A w \in Writers : pc[w] = "idle" /\ pc'[w] = "idle"
      BY <1>7 DEF Destroy
    <2> QED BY <1>7, <2>1, <2>2 DEF Destroy
  <1> QED BY <1>1, <1>2, <1>3, <1>4, <1>5, <1>6, <1>7 DEF MainReturns

LEMMA StutterIInv ==
  ASSUME IInv, UNCHANGED vars
  PROVE  IInv'
  BY DEF IInv, TypeOK, BufferAlive, vars, lockVars, bufVars, histVars

(* Every state that the log file can get into has the types stated, and    *)
(* every writer that logs holds root->lock and finds its buffer alive.     *)
THEOREM InductiveInvariant == Spec => []IInv
  <1>1. IInv /\ [Next]_vars => IInv'
    BY WriterStepIInv, LoggerStepIInv, MainStepIInv, StutterIInv DEF Next
  <1> QED BY InitIInv, <1>1, PTL DEF Spec

(* mp_msg_log_buffer_destroy() never frees the buffer under a writer that  *)
(* has unlocked it to wait for room.                                       *)
THEOREM BufferStaysAlive == Spec => []BufferAlive
  <1>1. IInv => BufferAlive
    BY DEF IInv
  <1> QED BY InductiveInvariant, <1>1, PTL

-----------------------------------------------------------------------------
(* Increasing sequences                                                    *)

LEMMA IncreasingAppend ==
  ASSUME NEW q \in Seq(Nat), NEW x \in Nat, Increasing(q), \A y \in ToSet(q) : y < x
  PROVE  /\ Append(q, x) \in Seq(Nat) /\ Increasing(Append(q, x))
         /\ ToSet(Append(q, x)) = ToSet(q) \cup {x}
  <1> DEFINE a == Append(q, x)
             n == Len(q) + 1
  <1>1. /\ DOMAIN q = 1..Len(q) /\ Len(q) \in Nat
        /\ a \in Seq(Nat) /\ DOMAIN a = 1..n
        /\ \A i \in 1..Len(q) : a[i] = q[i]
        /\ a[n] = x
    BY LenProperties, AppendProperties
  <1> HIDE DEF a
  <1>2. \A i \in 1..Len(q) : q[i] \in ToSet(q) /\ q[i] \in Nat
    BY <1>1, ElementsOf, ElementOfSeq
  <1>3. \A i \in 1..n : i \in 1..Len(q) \/ i = n
    BY <1>1
  <1>4. Increasing(a)
    BY <1>1, <1>2, <1>3 DEF Increasing
  <1>5. ToSet(a) = ToSet(q) \cup {x}
    BY <1>1, <1>3 DEF ToSet
  <1> QED BY <1>1, <1>4, <1>5 DEF a

LEMMA IncreasingTail ==
  ASSUME NEW q \in Seq(Nat), q # <<>>, Increasing(q)
  PROVE  /\ Tail(q) \in Seq(Nat) /\ Increasing(Tail(q))
         /\ Head(q) \in ToSet(q) /\ ToSet(Tail(q)) = ToSet(q) \ {Head(q)}
         /\ \A y \in ToSet(Tail(q)) : Head(q) < y
  <1> DEFINE t == Tail(q)
             n == Len(q) - 1
  <1>1. /\ DOMAIN q = 1..Len(q) /\ Len(q) \in Nat \ {0}
        /\ t \in Seq(Nat) /\ DOMAIN t = 1..n /\ Head(q) = q[1]
        /\ \A i \in 1..n : t[i] = q[i + 1]
    <2>1. Len(q) \in Nat \ {0} /\ DOMAIN q = 1..Len(q)
      BY EmptySeq, LenProperties
    <2>2. /\ t \in Seq(Nat) /\ Len(t) = n /\ Head(q) = q[1]
          /\ \A i \in 1..n : t[i] = q[i + 1]
      BY <2>1, HeadTailProperties
    <2> QED BY <2>1, <2>2, LenProperties
  <1> HIDE DEF t
  <1>2. \A i \in 1..Len(q) : q[i] \in Nat
    BY <1>1, ElementOfSeq
  <1>9. \A i, j \in 1..Len(q) : i < j => q[i] < q[j]
    BY <1>1 DEF Increasing
  <1>3. \A i \in 1..n : i + 1 \in 1..Len(q) /\ q[1] < q[i + 1]
    BY <1>1, <1>9
  <1>4. Increasing(t)
    <2>1. ASSUME NEW i \in 1..n, NEW j \in 1..n, i < j PROVE t[i] < t[j]
      <3>1. i + 1 \in 1..Len(q) /\ j + 1 \in 1..Len(q) /\ i + 1 < j + 1
        BY <1>1, <2>1
      <3>2. q[i + 1] < q[j + 1]
        BY <1>9, <3>1
      <3> QED BY <1>1, <3>2
    <2> QED BY <1>1, <2>1 DEF Increasing
  <1>5. \A y \in ToSet(t) : y \in ToSet(q) /\ Head(q) < y
    BY <1>1, <1>3 DEF ToSet
  <1>6. \A y \in ToSet(q) : y = Head(q) \/ y \in ToSet(t)
    <2> TAKE y \in ToSet(q)
    <2>1. PICK i \in 1..Len(q) : y = q[i]
      BY <1>1 DEF ToSet
    <2>2. CASE i = 1
      BY <1>1, <2>1, <2>2
    <2>3. CASE i # 1
      <3>1. i - 1 \in 1..n /\ t[i - 1] = q[i]
        BY <1>1, <2>3
      <3> QED BY <1>1, <2>1, <3>1 DEF ToSet
    <2> QED BY <2>2, <2>3
  <1>7. Head(q) \in ToSet(q) /\ Head(q) \in Nat
    BY <1>1, <1>2 DEF ToSet
  <1>8. Head(q) \notin ToSet(t)
    BY <1>5, <1>7
  <1> QED BY <1>1, <1>4, <1>5, <1>6, <1>7, <1>8 DEF t

LEMMA IncreasingConcat ==
  ASSUME NEW p \in Seq(Nat), NEW q \in Seq(Nat), Increasing(p), Increasing(q),
         \A x \in ToSet(p), y \in ToSet(q) : x < y
  PROVE  Increasing(p \o q)
  <1> DEFINE r == p \o q
  <1>1. /\ DOMAIN r = 1..Len(p) + Len(q) /\ DOMAIN p = 1..Len(p) /\ DOMAIN q = 1..Len(q)
        /\ Len(p) \in Nat /\ Len(q) \in Nat
        /\ \A i \in 1..Len(p) + Len(q) : r[i] = IF i <= Len(p) THEN p[i] ELSE q[i - Len(p)]
    BY ConcatProperties, LenProperties
  <1> HIDE DEF r
  <1>2. SUFFICES ASSUME NEW i \in DOMAIN r, NEW j \in DOMAIN r, i < j PROVE r[i] < r[j]
    BY DEF Increasing, r
  <1>3. CASE j <= Len(p)
    <2>1. i \in DOMAIN p /\ j \in DOMAIN p /\ r[i] = p[i] /\ r[j] = p[j]
      BY <1>1, <1>2, <1>3
    <2> QED BY <1>2, <2>1 DEF Increasing
  <1>4. CASE i > Len(p)
    <2>1. /\ i - Len(p) \in DOMAIN q /\ j - Len(p) \in DOMAIN q
          /\ i - Len(p) < j - Len(p) /\ r[i] = q[i - Len(p)] /\ r[j] = q[j - Len(p)]
      BY <1>1, <1>2, <1>4
    <2> QED BY <2>1 DEF Increasing
  <1>5. CASE i <= Len(p) /\ j > Len(p)
    <2>1. /\ i \in DOMAIN p /\ j - Len(p) \in DOMAIN q
          /\ r[i] = p[i] /\ r[j] = q[j - Len(p)]
      BY <1>1, <1>2, <1>5
    <2>2. r[i] \in ToSet(p) /\ r[j] \in ToSet(q)
      BY <2>1 DEF ToSet
    <2> QED BY <2>2
  <1> QED BY <1>1, <1>3, <1>4, <1>5

-----------------------------------------------------------------------------
(* Lines in order                                                          *)

Busy(w) == pc[w] \in {"write", "full", "blocked"}

(* What has left the buffer, and what is in it.  A writer that is not done *)
(* has the newest line.                                                    *)
OInv ==
  /\ IInv
  /\ \A w \in Writers : Busy(w) => line[w] = lines /\ lines \notin skipped
  /\ pc[Main] = "destroy" \/ (pc[Main] = "idle" /\ ~open) => pc[Logger] = "none"
  /\ pc[Logger] \in {"none", "start", "locked", "print", "asleep", "ended"}
  /\ pc[Main] \in {"opened", "starting"} => open /\ pc[Logger] = "none"
  /\ held \in Seq(Nat) /\ (pc[Logger] # "print" => held = <<>>)
  /\ file \in Seq(Nat) /\ Increasing(file \o held) /\ Increasing(entries)
  /\ \A x \in ToSet(file \o held), y \in ToSet(entries) : x < y
  /\ ToSet(file \o held) \cup ToSet(entries) = 1..lines \ (skipped \cup Unfinished)
  /\ ~open => entries = <<>>
  /\ \A gone \in skipped, kept \in ToSet(entries) : gone < kept

LEMMA InitOInv == Init => OInv
  <1> SUFFICES ASSUME Init PROVE OInv
    OBVIOUS
  <1>1. /\ lines = 0 /\ skipped = {} /\ file = <<>> /\ held = <<>> /\ entries = <<>>
        /\ \A w \in Writers : ~Busy(w)
        /\ pc[Main] = "idle" /\ pc[Logger] = "none"
    BY ThreadsAssumption DEF Init, Busy, Threads
  <1>2. <<>> \in Seq(Nat) /\ <<>> \o <<>> = <<>> /\ ToSet(<<>>) = {} /\ Increasing(<<>>)
    BY EmptySeq DEF ToSet, Increasing
  <1>3. Unfinished = {}
    BY <1>1 DEF Unfinished, Busy
  <1>4. 1..lines = {}
    BY <1>1
  <1> QED BY InitIInv, <1>1, <1>2, <1>3, <1>4 DEF OInv

(* What OInv says of the lines depends on these alone.                     *)
LEMMA SameUnfinished ==
  ASSUME \A w \in Writers : line'[w] = line[w] /\ (Busy(w)' <=> Busy(w))
  PROVE  Unfinished' = Unfinished
  BY DEF Unfinished, Busy

(* A step that neither logs a line nor moves one.                          *)
LEMMA OtherStepsOInv ==
  ASSUME OInv, IInv', UNCHANGED <<lines, skipped, file, held, entries, open>>,
         \A w \in Writers : line'[w] = line[w] /\ (Busy(w)' <=> Busy(w)),
         pc'[Main] = "destroy" \/ (pc'[Main] = "idle" /\ ~open') => pc'[Logger] = "none",
         pc'[Logger] \in {"none", "start", "locked", "asleep", "ended"}
           \/ (pc[Logger] = "print" /\ pc'[Logger] = "print"),
         pc[Logger] # "print" \/ pc'[Logger] = "print",
         pc'[Main] \in {"opened", "starting"} => open' /\ pc'[Logger] = "none"
  PROVE  OInv'
  <1>1. Unfinished' = Unfinished
    BY SameUnfinished
  <1>2. \A w \in Writers : Busy(w)' => line'[w] = lines' /\ lines' \notin skipped'
    BY DEF OInv
  <1> QED BY <1>1, <1>2 DEF OInv

(* The steps of the main thread that leave the lines alone                 *)
LEMMA MainOInv ==
  ASSUME OInv, IInv', Terminate \/ Activate \/ StartThread \/ StartFails \/ Join
  PROVE  OInv'
  <1>1. UNCHANGED <<lines, skipped, file, held, entries, line, open>>
    BY DEF Terminate, Activate, StartThread, StartFails, Join, bufVars, histVars
  <1>2. \A w \in Writers : pc'[w] = pc[w]
    BY ThreadsAssumption DEF Terminate, Activate, StartThread, StartFails, Join, Goto, OInv,
       IInv, TypeOK, Threads
  <1>3. /\ pc'[Main] = "destroy" \/ (pc'[Main] = "idle" /\ ~open') => pc'[Logger] = "none"
        /\ pc'[Logger] \in {"none", "start", "locked", "asleep", "ended"}
             \/ (pc[Logger] = "print" /\ pc'[Logger] = "print")
        /\ pc[Logger] # "print" \/ pc'[Logger] = "print"
        /\ pc'[Main] \in {"opened", "starting"} => open' /\ pc'[Logger] = "none"
    <2> USE ThreadsAssumption DEF Goto, OInv, IInv, TypeOK, Threads
    <2>1. CASE Terminate   BY <2>1 DEF Terminate, bufVars
    <2>2. CASE Activate    BY <2>2 DEF Activate, bufVars
    <2>3. CASE StartThread BY <2>3 DEF StartThread, bufVars
    <2>4. CASE StartFails  BY <2>4 DEF StartFails, bufVars
    <2>5. CASE Join        BY <2>5 DEF Join, bufVars
    <2> QED BY <2>1, <2>2, <2>3, <2>4, <2>5
  <1> QED BY <1>1, <1>2, <1>3, OtherStepsOInv DEF Busy

(* Closing the file forgets the lines, opening another starts with none;   *)
(* no line is being logged, because the main thread needs root->lock.      *)
LEMMA OpenCloseOInv ==
  ASSUME OInv, IInv', OpenFile \/ Destroy
  PROVE  OInv'
  <1> USE ThreadsAssumption
  <1>1. /\ root_lock = None /\ pc[Logger] = "none"
        /\ lines' = lines /\ skipped' = 1..lines /\ file' = <<>> /\ entries' = <<>>
        /\ held' = held /\ line' = line
    BY DEF OpenFile, Destroy, OInv
  <1>2. /\ \A w \in Writers : pc'[w] = pc[w]
        /\ pc'[Logger] = "none"
        /\ \/ pc'[Main] = "opened" /\ open'
           \/ pc'[Main] = "idle" /\ ~open'
    BY <1>1 DEF OpenFile, Destroy, Goto, OInv, IInv, TypeOK, Threads
  <1>3. \A w \in Writers : ~Busy(w) /\ ~Busy(w)'
    BY <1>1, <1>2 DEF OInv, IInv, BufferAlive, Busy
  <1>4. held' = <<>> /\ <<>> \in Seq(Nat) /\ <<>> \o <<>> = <<>> /\ ToSet(<<>>) = {}
        /\ Increasing(<<>>)
    BY <1>1, EmptySeq DEF OInv, ToSet, Increasing
  <1>5. Unfinished' = {}
    BY <1>3 DEF Unfinished, Busy
  <1> QED BY <1>1, <1>2, <1>3, <1>4, <1>5 DEF OInv

LEMMA EntriesNat == IInv => entries \in Seq(Nat) /\ lines \in Nat
  <1>1. IInv => lines \in Nat /\ entries \in Seq(1..lines)
    BY BoundsAssumption DEF IInv, TypeOK
  <1>2. lines \in Nat => 1..lines \subseteq Nat
    OBVIOUS
  <1> QED BY <1>1, <1>2, SeqMonotonic

LEMMA SingletonConcat ==
  ASSUME NEW q \in Seq(Nat), NEW x \in Nat
  PROVE  q \o <<>> = q /\ q \o <<x>> = Append(q, x) /\ <<x>> \in Seq(Nat)
  OBVIOUS

(* The thread takes the oldest line out of the buffer ...                  *)
LEMMA ReadsOInv ==
  ASSUME OInv, IInv', LoggerReads
  PROVE  OInv'
  <1> DEFINE h == Head(entries)
             out == file \o held
  <1>1. /\ pc[Logger] = "locked" /\ entries # <<>> /\ held = <<>>
        /\ held' = <<h>> /\ entries' = Tail(entries)
        /\ UNCHANGED <<lines, skipped, file, line, open>>
    BY DEF LoggerReads, OInv, histVars
  <1>2. entries \in Seq(Nat) /\ Increasing(entries)
    BY EntriesNat DEF OInv
  <1>3. /\ Tail(entries) \in Seq(Nat) /\ Increasing(Tail(entries))
        /\ h \in ToSet(entries) /\ ToSet(Tail(entries)) = ToSet(entries) \ {h}
        /\ \A y \in ToSet(Tail(entries)) : h < y
    BY <1>1, <1>2, IncreasingTail
  <1>4. h \in Nat
    BY <1>2, <1>3, ElementsOf
  <1>5. out = file /\ out \in Seq(Nat) /\ Increasing(out)
        /\ \A x \in ToSet(out), y \in ToSet(entries) : x < y
    BY <1>1, SingletonConcat DEF OInv
  <1>6. /\ Append(out, h) \in Seq(Nat) /\ Increasing(Append(out, h))
        /\ ToSet(Append(out, h)) = ToSet(out) \cup {h}
    <2> HIDE DEF h, out
    <2> QED BY <1>3, <1>4, <1>5, IncreasingAppend
  <1>7. file' \o held' = Append(out, h) /\ held' \in Seq(Nat)
    <2>1. file \in Seq(Nat)
      BY DEF OInv
    <2> HIDE DEF h
    <2> QED BY <1>1, <1>4, <1>5, <2>1, SingletonConcat
  <1>8. /\ \A w \in Writers : pc'[w] = pc[w]
        /\ pc'[Logger] = "print" /\ pc'[Main] = pc[Main]
    BY ThreadsAssumption DEF LoggerReads, Goto, OInv, IInv, TypeOK, Threads
  <1>9. \A w \in Writers : line'[w] = line[w] /\ (Busy(w)' <=> Busy(w))
    BY <1>1, <1>8 DEF Busy
  <1>10. Unfinished' = Unfinished
    BY <1>9, SameUnfinished
  <1>11. /\ \A w \in Writers : Busy(w)' => line'[w] = lines' /\ lines' \notin skipped'
         /\ ~(pc'[Main] = "destroy" \/ (pc'[Main] = "idle" /\ ~open'))
         /\ pc'[Main] \notin {"opened", "starting"}
    BY <1>1, <1>8, <1>9 DEF OInv
  <1>12. /\ \A x \in ToSet(file' \o held'), y \in ToSet(entries') : x < y
         /\ ToSet(file' \o held') \cup ToSet(entries') = ToSet(out) \cup ToSet(entries)
    <2> HIDE DEF h, out
    <2> QED BY <1>1, <1>3, <1>5, <1>6, <1>7
  <1>13. ToSet(out) \cup ToSet(entries) = 1..lines' \ (skipped' \cup Unfinished')
    BY <1>1, <1>10 DEF OInv
  <1>14. file' \in Seq(Nat) /\ Increasing(file' \o held') /\ Increasing(entries')
    <2>1. file \in Seq(Nat)
      BY DEF OInv
    <2> HIDE DEF h, out
    <2> QED BY <1>1, <1>3, <1>6, <1>7, <2>1
  <1>15. /\ ~open' => entries' = <<>>
         /\ \A x \in skipped', y \in ToSet(entries') : x < y
    BY <1>1, <1>3 DEF OInv
  <1> HIDE DEF h, out
  <1> QED BY <1>7, <1>8, <1>11, <1>12, <1>13, <1>14, <1>15 DEF OInv

(* ... and writes it to the file.                                          *)
LEMMA PrintsOInv ==
  ASSUME OInv, IInv', LoggerPrints
  PROVE  OInv'
  <1>1. /\ pc[Logger] = "print" /\ file' = file \o held /\ held' = <<>>
        /\ UNCHANGED <<lines, skipped, entries, line, open>>
    BY DEF LoggerPrints, bufVars
  <1>2. file' \in Seq(Nat) /\ held' \in Seq(Nat) /\ file' \o held' = file'
    <2>1. file \o held \in Seq(Nat)
      BY ConcatProperties DEF OInv
    <2> HIDE DEF OInv
    <2> QED BY <1>1, <2>1, EmptySeq, SingletonConcat
  <1>3. /\ \A w \in Writers : pc'[w] = pc[w]
        /\ pc'[Logger] = "locked" /\ pc'[Main] = pc[Main]
    BY ThreadsAssumption DEF LoggerPrints, Goto, OInv, IInv, TypeOK, Threads
  <1>4. \A w \in Writers : line'[w] = line[w] /\ (Busy(w)' <=> Busy(w))
    BY <1>1, <1>3 DEF Busy
  <1>5. Unfinished' = Unfinished
    BY <1>4, SameUnfinished
  <1>6. /\ \A w \in Writers : Busy(w)' => line'[w] = lines' /\ lines' \notin skipped'
        /\ ~(pc'[Main] = "destroy" \/ (pc'[Main] = "idle" /\ ~open'))
        /\ pc'[Main] \notin {"opened", "starting"}
    BY <1>1, <1>3, <1>4 DEF OInv
  <1>7. file' \o held' = file \o held
    BY <1>1, <1>2
  <1> QED BY <1>1, <1>2, <1>3, <1>5, <1>6, <1>7 DEF OInv

(* The other steps of the thread                                           *)
LEMMA LoggerOInv ==
  ASSUME OInv, IInv', LoggerStep
  PROVE  OInv'
  <1>1. CASE LoggerReads \/ LoggerPrints
    BY <1>1, ReadsOInv, PrintsOInv
  <1>2. CASE LoggerLocks \/ LoggerSleeps \/ LoggerWakes \/ LoggerEnds
    <2>1. /\ UNCHANGED <<lines, skipped, file, held, entries, line, open>>
          /\ pc[Logger] \in {"start", "locked", "asleep"}
      BY <1>2 DEF LoggerLocks, LoggerSleeps, LoggerWakes, LoggerEnds, bufVars, histVars
    <2>2. /\ \A w \in Writers : pc'[w] = pc[w]
          /\ pc'[Logger] \in {"locked", "asleep", "ended"} /\ pc'[Main] = pc[Main]
      BY <1>2, ThreadsAssumption DEF LoggerLocks, LoggerSleeps, LoggerWakes, LoggerEnds, Goto,
         OInv, IInv, TypeOK, Threads
    <2>3. \A w \in Writers : line'[w] = line[w] /\ (Busy(w)' <=> Busy(w))
      BY <2>1, <2>2 DEF Busy
    <2>4. /\ ~(pc'[Main] = "destroy" \/ (pc'[Main] = "idle" /\ ~open'))
          /\ pc'[Main] \notin {"opened", "starting"}
      BY <2>1, <2>2 DEF OInv
    <2> QED BY <2>1, <2>2, <2>3, <2>4, OtherStepsOInv
  <1> QED BY <1>1, <1>2 DEF LoggerStep

(* What no writer touches                                                  *)
LEMMA WriterKeeps ==
  ASSUME OInv, NEW w \in Writers, Log(w) \/ WriterStep(w)
  PROVE  /\ UNCHANGED <<open, file, held>>
         /\ pc'[Main] = pc[Main] /\ pc'[Logger] = pc[Logger]
         /\ \A v \in Writers \ {w} : pc'[v] = pc[v] /\ line'[v] = line[v]
  <1> USE ThreadsAssumption DEF Goto, OInv, IInv, TypeOK, Threads
  <1>1. CASE Log(w)       BY <1>1 DEF Log, bufVars
  <1>2. CASE WriteFull(w) BY <1>2 DEF WriteFull, bufVars, histVars
  <1>3. CASE Write(w)     BY <1>3 DEF Write
  <1>4. CASE Block(w)     BY <1>4 DEF Block, bufVars, histVars
  <1>5. CASE Unblock(w)   BY <1>5 DEF Unblock, bufVars, histVars
  <1>6. CASE Notify(w)    BY <1>6 DEF Notify, bufVars, histVars
  <1> QED BY <1>1, <1>2, <1>3, <1>4, <1>5, <1>6 DEF WriterStep

(* While one thread holds root->lock, no other logs.                       *)
LEMMA OnlyBusy ==
  ASSUME OInv, NEW w \in Writers, pc[w] = "idle" => root_lock = None
  PROVE  \A v \in Writers \ {w} : ~Busy(v)
  BY ThreadsAssumption DEF OInv, IInv, BufferAlive, Busy

(* A line is logged: it is written soon, or skipped for want of a file.    *)
LEMMA LogOInv ==
  ASSUME OInv, IInv', NEW w \in Writers, Log(w)
  PROVE  OInv'
  <1>1. /\ pc[w] = "idle" /\ root_lock = None /\ entries' = entries
        /\ lines' = lines + 1 /\ line'[w] = lines + 1
        /\ IF open THEN pc'[w] = "write" /\ skipped' = skipped
                   ELSE pc'[w] = "idle" /\ skipped' = skipped \cup {lines + 1}
    BY DEF Log, Goto, bufVars, OInv, IInv, TypeOK, Threads
  <1>2. /\ UNCHANGED <<open, file, held>>
        /\ pc'[Main] = pc[Main] /\ pc'[Logger] = pc[Logger]
        /\ \A v \in Writers \ {w} : pc'[v] = pc[v] /\ line'[v] = line[v]
    BY WriterKeeps
  <1>3. /\ \A v \in Writers : ~Busy(v)
        /\ \A v \in Writers \ {w} : ~Busy(v)'
    BY <1>1, <1>2, OnlyBusy DEF Busy
  <1>4. Unfinished = {}
    BY <1>3 DEF Unfinished, Busy
  <1>5. Unfinished' = IF open THEN {lines + 1} ELSE {}
    BY <1>1, <1>3 DEF Unfinished, Busy
  <1>6. lines \in Nat /\ skipped \subseteq 1..lines
    BY BoundsAssumption DEF OInv, IInv, TypeOK
  <1>7. 1..lines' \ (skipped' \cup Unfinished') = 1..lines \ (skipped \cup Unfinished)
    <2>1. 1..lines' = 1..lines \cup {lines + 1} /\ lines + 1 \notin 1..lines
      BY <1>1, <1>6
    <2>2. skipped' \cup Unfinished' = skipped \cup {lines + 1}
      BY <1>1, <1>5
    <2> QED BY <1>4, <1>6, <2>1, <2>2
  <1>8. \A v \in Writers : Busy(v)' => line'[v] = lines' /\ lines' \notin skipped'
    <2>1. \A v \in Writers : Busy(v)' => v = w /\ pc'[w] # "idle"
      BY <1>3 DEF Busy
    <2>2. lines + 1 \notin skipped
      BY <1>6
    <2> QED BY <1>1, <2>1, <2>2
  <1>9. /\ ~open' => entries' = <<>>
        /\ \A x \in skipped', y \in ToSet(entries') : x < y
    <2>1. ToSet(<<>>) = {}
      BY EmptySeq DEF ToSet
    <2> QED BY <1>1, <1>2, <2>1 DEF OInv
  <1> QED BY <1>1, <1>2, <1>7, <1>8, <1>9 DEF OInv

(* The line goes to the end of the buffer; the oldest may be dropped.      *)
LEMMA WriteOInv ==
  ASSUME OInv, IInv', NEW w \in Writers, Write(w)
  PROVE  OInv'
  <1> DEFINE full == Len(entries) = Capacity
             kept == IF full THEN Tail(entries) ELSE entries
             gone == IF full THEN {Head(entries)} ELSE {}
             out == file \o held
  <1>1. /\ pc[w] = "write" /\ lines' = lines
        /\ entries' = Append(kept, line[w]) /\ skipped' = skipped \cup gone
        /\ pc'[w] = "notify" /\ line'[w] = line[w]
    BY DEF Write, Goto, OInv, IInv, TypeOK, Threads
  <1>2. /\ UNCHANGED <<open, file, held>>
        /\ pc'[Main] = pc[Main] /\ pc'[Logger] = pc[Logger]
        /\ \A v \in Writers \ {w} : pc'[v] = pc[v] /\ line'[v] = line[v]
    BY WriterKeeps DEF WriterStep
  <1>3. /\ \A v \in Writers \ {w} : ~Busy(v)
        /\ \A v \in Writers : ~Busy(v)'
    BY <1>1, <1>2, OnlyBusy DEF Busy
  <1>4. line[w] = lines /\ lines \notin skipped /\ line[w] # 0
    BY <1>1 DEF OInv, IInv, Busy
  <1>5. Unfinished = {lines} /\ Unfinished' = {}
    <2>1. Unfinished' = {}
      BY <1>3 DEF Unfinished, Busy
    <2>2. Unfinished = {line[v] : v \in {w}}
      BY <1>1, <1>3 DEF Unfinished, Busy
    <2> QED BY <1>4, <2>1, <2>2
  <1>6. lines \in 1..lines /\ lines \in Nat /\ entries \in Seq(Nat) /\ Capacity \in Nat \ {0}
    <2>1. lines \in Nat /\ line \in [Writers -> 0..lines]
      BY BoundsAssumption DEF OInv, IInv, TypeOK
    <2> QED BY <1>4, <2>1, EntriesNat, BoundsAssumption DEF OInv
  <1>7. /\ Increasing(entries)
        /\ \A x \in ToSet(out), y \in ToSet(entries) : x < y
        /\ ToSet(out) \cup ToSet(entries) = 1..lines \ (skipped \cup {lines})
    BY <1>5 DEF OInv
  <1>8. /\ kept \in Seq(Nat) /\ Increasing(kept)
        /\ ToSet(kept) = ToSet(entries) \ gone /\ gone \subseteq ToSet(entries)
        /\ \A x \in gone, y \in ToSet(kept) : x < y
    <2>1. CASE full
      <3>1. entries # <<>>
        BY <1>6, <2>1
      <3> QED BY <1>6, <1>7, <2>1, <3>1, IncreasingTail
    <2>2. CASE ~full
      BY <1>6, <1>7, <2>2
    <2> QED BY <2>1, <2>2
  <1> HIDE DEF full, kept, gone, out
  <1>9. (\A y \in ToSet(kept) : y < lines) /\ \A x \in ToSet(out) : x < lines
    BY <1>6, <1>7, <1>8
  <1>10. /\ entries' \in Seq(Nat) /\ Increasing(entries')
         /\ ToSet(entries') = ToSet(kept) \cup {lines}
    <2>1. /\ Append(kept, lines) \in Seq(Nat) /\ Increasing(Append(kept, lines))
          /\ ToSet(Append(kept, lines)) = ToSet(kept) \cup {lines}
      BY <1>6, <1>8, <1>9, IncreasingAppend
    <2> QED BY <1>1, <1>4, <2>1
  <1>11. \A x \in ToSet(out), y \in ToSet(entries') : x < y
    BY <1>7, <1>8, <1>9, <1>10
  <1>12. ToSet(out) \cup ToSet(entries') = 1..lines' \ (skipped' \cup Unfinished')
    <2>1. \A x \in gone : x \notin ToSet(out) /\ x # lines
      <3>1. ToSet(out) \subseteq Nat
        BY <1>6, <1>7
      <3>2. ToSet(entries) \subseteq Nat /\ lines \notin ToSet(entries)
        BY <1>6, <1>7
      <3> QED BY <1>7, <1>8, <3>1, <3>2
    <2>2. lines' = lines /\ skipped' \cup Unfinished' = skipped \cup gone
      BY <1>1, <1>5
    <2> QED BY <1>4, <1>6, <1>7, <1>8, <1>10, <2>1, <2>2
  <1>13. file' \o held' = out
    BY <1>2 DEF out
  <1>14. \A x \in skipped', y \in ToSet(entries') : x < y
    <2>1. skipped \subseteq 1..lines /\ \A x \in skipped, y \in ToSet(entries) : x < y
      BY DEF OInv, IInv, TypeOK
    <2>2. (\A x \in skipped : x < lines) /\ \A x \in gone : x < lines
      BY <1>4, <1>6, <1>7, <1>8, <2>1
    <2> QED BY <1>1, <1>8, <1>10, <2>1, <2>2
  <1>15. open'
    BY <1>1, <1>2 DEF OInv, IInv, BufferAlive
  <1> QED BY <1>1, <1>2, <1>3, <1>10, <1>11, <1>12, <1>13, <1>14, <1>15 DEF OInv, out

LEMMA WriterOInv ==
  ASSUME OInv, IInv', NEW w \in Writers, Log(w) \/ WriterStep(w)
  PROVE  OInv'
  <1>1. CASE Log(w) \/ Write(w)
    BY <1>1, LogOInv, WriteOInv
  <1>2. CASE WriteFull(w) \/ Block(w) \/ Unblock(w) \/ Notify(w)
    <2>1. UNCHANGED <<lines, skipped, entries, line>> /\ (Busy(w)' <=> Busy(w))
      BY <1>2 DEF WriteFull, Block, Unblock, Notify, Goto, bufVars, histVars, Busy,
         OInv, IInv, TypeOK, Threads
    <2>2. /\ UNCHANGED <<open, file, held>>
          /\ pc'[Main] = pc[Main] /\ pc'[Logger] = pc[Logger]
          /\ \A v \in Writers \ {w} : pc'[v] = pc[v] /\ line'[v] = line[v]
      BY WriterKeeps
    <2>3. \A v \in Writers : line'[v] = line[v] /\ (Busy(v)' <=> Busy(v))
      BY <2>1, <2>2 DEF Busy
    <2>4. /\ pc'[Main] = "destroy" \/ (pc'[Main] = "idle" /\ ~open') => pc'[Logger] = "none"
          /\ pc'[Main] \in {"opened", "starting"} => open' /\ pc'[Logger] = "none"
          /\ pc'[Logger] \in {"none", "start", "locked", "asleep", "ended"}
               \/ (pc[Logger] = "print" /\ pc'[Logger] = "print")
      BY <2>2 DEF OInv
    <2> QED BY <2>1, <2>2, <2>3, <2>4, OtherStepsOInv
  <1> QED BY <1>1, <1>2 DEF WriterStep

(* Every line that was logged while the file was open is written, once and *)
(* in order, whichever threads log and whenever the buffer is full; only   *)
(* lines without a thread to write them are missing, the oldest first.     *)
THEOREM LinesInOrder == Spec => []WrittenInOrder
  <1>1. OInv /\ IInv' /\ Next => OInv'
    BY WriterOInv, LoggerOInv, MainOInv, OpenCloseOInv DEF Next, MainReturns
  <1>2. OInv /\ IInv' /\ UNCHANGED vars => OInv'
    BY DEF OInv, vars, histVars, bufVars, Unfinished, Busy
  <1>3. OInv => WrittenInOrder
    <2> SUFFICES ASSUME OInv PROVE WrittenInOrder
      OBVIOUS
    <2> DEFINE out == file \o held
    <2>1. /\ out \in Seq(Nat) /\ entries \in Seq(Nat)
          /\ Increasing(out) /\ Increasing(entries)
          /\ \A x \in ToSet(out), y \in ToSet(entries) : x < y
          /\ ToSet(out) \cup ToSet(entries) = 1..lines \ (skipped \cup Unfinished)
          /\ \A gone \in skipped, kept \in ToSet(entries) : gone < kept
      BY ConcatProperties, EntriesNat DEF OInv
    <2> HIDE DEF out
    <2>2. Increasing(out \o entries)
      BY <2>1, IncreasingConcat
    <2>3. ToSet(out \o entries) = ToSet(out) \cup ToSet(entries)
      BY <2>1, ConcatElements
    <2> QED BY <2>1, <2>2, <2>3 DEF WrittenInOrder, out
  <1> QED BY InitOInv, InductiveInvariant, <1>1, <1>2, <1>3, PTL DEF Spec
=============================================================================

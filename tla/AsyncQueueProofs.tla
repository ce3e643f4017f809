--------------------------- MODULE AsyncQueueProofs ---------------------------
(***************************************************************************)
(* The asynchronous queue, for any frames, configurations and users: who   *)
(* keeps it alive, that neither its consumer nor its producer misses a     *)
(* wakeup, that the accounted sizes are exact, that the notify filter is   *)
(* told, that a proper global reset leaves nothing from before it in the   *)
(* queue, and that for an orderly user the queue is one stream of frames.  *)
(***************************************************************************)
EXTENDS AsyncQueue, SequenceLemmas

PinsOK ==
  /\ conn \subseteq Ends /\ pending \subseteq conn /\ requested \subseteq conn
  /\ data \in [Ends -> Frames \cup {None}]
  /\ \A e \in Ends : data[e] # None => e \in conn
  /\ frames \in Seq(Frames)
  /\ srcStale \in BOOLEAN

Ref(held) == IF held THEN 1 ELSE 0

(* The handle and the filters hold one reference each.                     *)
RefsCounted ==
  /\ handle \in BOOLEAN /\ freed \in BOOLEAN
  /\ refcount = Ref(handle) + Ref("in" \in conn) + Ref("out" \in conn)
  /\ AliveWhileUsed

ReaderOK == (reading => active) /\ ConsumerAwake

(* Where frames from before the reset may be in an orderly user's queue:   *)
(* in the pin of a filter that is still to be reset, or still to be        *)
(* delivered to it.                                                        *)
Fresh ==
  orderly =>
    /\ active => toReset = {}
    /\ \A i \in DOMAIN frames : ~frames[i].stale
    /\ \A e \in Ends : data[e] # None /\ data[e].stale => e \in toReset
    /\ srcStale /\ "in" \in conn => "in" \in toReset

IInv == PinsOK /\ RefsCounted /\ ReaderOK /\ Fresh

LEMMA InitIInv == Init => IInv
  <1> SUFFICES ASSUME Init PROVE IInv
    OBVIOUS
  <1>1. PinsOK
    BY EmptySeq DEF Init, PinsOK
  <1>2. RefsCounted
    <2>1. handle /\ ~freed /\ handle \in BOOLEAN /\ freed \in BOOLEAN
      BY DEF Init
    <2>2. Ref(handle) = 1 /\ Ref("in" \in conn) = 0 /\ Ref("out" \in conn) = 0
      BY DEF Init, Ref
    <2>3. refcount = 1
      BY DEF Init
    <2>4. refcount = Ref(handle) + Ref("in" \in conn) + Ref("out" \in conn)
      BY <2>2, <2>3
    <2>5. AliveWhileUsed
      BY <2>1 DEF AliveWhileUsed
    <2> QED BY <2>1, <2>4, <2>5 DEF RefsCounted
  <1>3. ReaderOK /\ Fresh
    BY DEF Init, ReaderOK, ConsumerAwake, Fresh
  <1> QED BY <1>1, <1>2, <1>3 DEF IInv

-----------------------------------------------------------------------------
(* The functions for the user of the queue.                                *)

LEMMA QueueResetIInv ==
  ASSUME IInv, QueueReset, UNCHANGED orderly
  PROVE  IInv'
  <1> USE DEF IInv, QueueReset, ClearQueue, lifeVars
  <1>1. PinsOK'
    <2>1. \A e \in Ends : data[e] # None => [data[e] EXCEPT !.stale = TRUE] \in Frames
      BY DEF PinsOK, Frames
    <2>2. data' \in [Ends -> Frames \cup {None}]
      BY <2>1 DEF PinsOK
    <2>3. \A e \in Ends : data'[e] # None => data[e] # None
      OBVIOUS
    <2> QED BY <2>2, <2>3, EmptySeq DEF PinsOK
  <1>2. RefsCounted'
    BY DEF RefsCounted, Ref, AliveWhileUsed
  <1>3. ReaderOK'
    BY DEF ReaderOK, ConsumerAwake
  <1>4. Fresh'
    <2>1. \A e \in Ends : data'[e] # None => e \in conn
      BY DEF PinsOK
    <2> QED BY <2>1 DEF Fresh, PinsOK
  <1> QED BY <1>1, <1>2, <1>3, <1>4

LEMMA ResumeIInv ==
  ASSUME IInv, Resume \/ ResumeReading, UNCHANGED orderly
  PROVE  IInv'
  <1> USE DEF IInv, Resume, ResumeReading, MayResume, lifeVars, pinVars
  <1>1. PinsOK' /\ RefsCounted'
    BY DEF PinsOK, RefsCounted, Ref, AliveWhileUsed
  <1>2. ReaderOK'
    BY DEF ReaderOK, ConsumerAwake, PinsOK
  <1>3. Fresh'
    BY DEF Fresh
  <1> QED BY <1>1, <1>2, <1>3

LEMMA SetConfigIInv ==
  ASSUME IInv, NEW c \in Configs, SetConfig(c), UNCHANGED orderly
  PROVE  IInv'
  BY DEF IInv, SetConfig, lifeVars, pinVars, PinsOK, RefsCounted, Ref, AliveWhileUsed,
     ReaderOK, ConsumerAwake, Fresh

LEMMA CreateFilterIInv ==
  ASSUME IInv, NEW e \in Ends, CreateFilter(e), UNCHANGED orderly
  PROVE  IInv'
  <1> USE DEF IInv, CreateFilter, queueVars
  <1>1. PinsOK'
    BY DEF PinsOK, Ends
  <1>2. RefsCounted'
    BY DEF RefsCounted, Ref, AliveWhileUsed, Ends
  <1>3. ReaderOK'
    BY DEF ReaderOK, ConsumerAwake, PinsOK
  <1>4. Fresh'
    BY DEF Fresh, PinsOK
  <1> QED BY <1>1, <1>2, <1>3, <1>4

LEMMA FreeQueueIInv ==
  ASSUME IInv, FreeQueue, UNCHANGED orderly
  PROVE  IInv'
  <1> USE DEF IInv, FreeQueue, Unref, ClearQueue, queueVars, pinVars
  <1>1. PinsOK'
    BY EmptySeq DEF PinsOK
  <1>2. RefsCounted'
    <2>1. refcount = 1 + Ref("in" \in conn) + Ref("out" \in conn)
      BY DEF RefsCounted, Ref
    <2>2. refcount = 1 <=> conn = {}
      BY <2>1 DEF Ref, PinsOK, Ends
    <2>3. freed' \in BOOLEAN /\ (freed' <=> refcount = 1)
      OBVIOUS
    <2>4. refcount' = Ref("in" \in conn) + Ref("out" \in conn)
      BY <2>1 DEF Ref
    <2>5. ~handle' /\ handle' \in BOOLEAN /\ Ref(handle') = 0 /\ conn' = conn
      BY DEF Ref
    <2>6. Ref("in" \in conn) \in Nat /\ Ref("out" \in conn) \in Nat
      BY DEF Ref
    <2>7. refcount' = Ref(handle') + Ref("in" \in conn') + Ref("out" \in conn')
      BY <2>4, <2>5, <2>6
    <2> QED BY <2>2, <2>3, <2>5, <2>7 DEF RefsCounted, AliveWhileUsed
  <1>3. ReaderOK'
    BY DEF ReaderOK, ConsumerAwake
  <1>4. Fresh'
    BY DEF Fresh, PinsOK
  <1> QED BY <1>1, <1>2, <1>3, <1>4

LEMMA FreeFilterIInv ==
  ASSUME IInv, NEW e \in Ends, FreeFilter(e), UNCHANGED orderly
  PROVE  IInv'
  <1> USE DEF IInv, FreeFilter, Unref, ClearQueue, queueVars
  <1>1. PinsOK'
    BY EmptySeq DEF PinsOK
  <1>2. RefsCounted'
    <2>1. refcount = Ref(handle) + Ref("in" \in conn) + Ref("out" \in conn)
      BY DEF RefsCounted
    <2>2. refcount = 1 <=> conn' = {} /\ ~handle
      BY <2>1 DEF Ref, PinsOK, Ends
    <2>3. freed' \in BOOLEAN /\ (freed' <=> refcount = 1)
      OBVIOUS
    <2>4. refcount' = Ref(handle) + Ref("in" \in conn') + Ref("out" \in conn')
      BY <2>1 DEF Ref, Ends
    <2> QED BY <2>2, <2>3, <2>4 DEF RefsCounted, AliveWhileUsed
  <1>3. ReaderOK'
    BY DEF ReaderOK, ConsumerAwake, PinsOK
  <1>4. Fresh'
    BY DEF Fresh, PinsOK
  <1> QED BY <1>1, <1>2, <1>3, <1>4

-----------------------------------------------------------------------------
(* The two filters and the graphs at their pins.                           *)

(* A frame is accepted while the queue is being read, so it is fresh.      *)
LEMMA AcceptIInv ==
  ASSUME IInv, Accept, UNCHANGED <<lifeVars, srcStale, toReset, orderly>>
  PROVE  IInv'
  <1> USE DEF IInv, Accept, lifeVars
  <1>0. data["in"] \in Frames /\ frames \in Seq(Frames)
    BY DEF PinsOK, Ends
  <1>1. frames' \in Seq(Frames) /\ Len(frames') = Len(frames) + 1
        /\ \A i \in 1..Len(frames') : frames'[i] \in {data["in"]} \cup {frames[j] : j \in 1..Len(frames)}
    BY <1>0, ConcatProperties
  <1>2. requested' \subseteq conn /\ pending' \subseteq conn
    BY <1>0 DEF PinsOK, Ends
  <1>3. PinsOK'
    BY <1>1, <1>2 DEF PinsOK
  <1>4. RefsCounted'
    BY DEF RefsCounted, Ref, AliveWhileUsed
  <1>5. ReaderOK'
    BY <1>2 DEF ReaderOK, ConsumerAwake, PinsOK
  <1>6. Fresh'
    BY <1>0, <1>1 DEF Fresh, ReaderOK, PinsOK, Ends
  <1> QED BY <1>3, <1>4, <1>5, <1>6

LEMMA ProcessInIInv ==
  ASSUME IInv, ProcessIn, UNCHANGED orderly
  PROVE  IInv'
  <1> USE DEF ProcessIn, lifeVars
  <1>1. CASE Accept
    BY <1>1, AcceptIInv
  <1>2. CASE Discard \/ Request \/ NoRoom
    <2> USE <1>2 DEF IInv, Discard, Request, NoRoom, queueVars
    <2>1. PinsOK' /\ RefsCounted'
      BY DEF PinsOK, RefsCounted, Ref, AliveWhileUsed
    <2>0. /\ active' = active /\ reading' = reading /\ frames' = frames
          /\ pending' = pending \ {"in"} /\ requested' \subseteq requested \cup {"in"}
      OBVIOUS
    <2>2. ReaderOK'
      BY <2>0 DEF ReaderOK, ConsumerAwake
    <2>3. data' = data \/ data' = [data EXCEPT !["in"] = None]
      OBVIOUS
    <2>4. Fresh'
      BY <2>3 DEF Fresh, PinsOK
    <2> QED BY <2>1, <2>2, <2>4
  <1> QED BY <1>1, <1>2

LEMMA ProcessOutIInv ==
  ASSUME IInv, ProcessOut, UNCHANGED orderly
  PROVE  IInv'
  <1>1. CASE active /\ "out" \in requested /\ frames # <<>>
    <2> USE <1>1 DEF IInv, ProcessOut
    <2>1. frames \in Seq(Frames) /\ Len(frames) \in Nat \ {0}
      BY EmptySeq DEF PinsOK
    <2>2. frames[Len(frames)] \in Frames
      BY <2>1, ElementOfSeq
    <2>3. frames' \in Seq(Frames) /\ Len(frames') = Len(frames) - 1
          /\ \A i \in 1..Len(frames') : frames'[i] = frames[i]
      BY <2>1
    <2>4. PinsOK'
      BY <2>2, <2>3 DEF PinsOK
    <2>5. RefsCounted' /\ ReaderOK'
      BY DEF RefsCounted, Ref, AliveWhileUsed, ReaderOK, ConsumerAwake
    <2>6. Fresh'
      BY <2>1, <2>2, <2>3 DEF Fresh, PinsOK
    <2> QED BY <2>4, <2>5, <2>6
  <1>2. CASE ~(active /\ "out" \in requested /\ frames # <<>>)
    <2> USE <1>2 DEF IInv, ProcessOut, queueVars
    <2>1. PinsOK' /\ RefsCounted' /\ Fresh'
      BY DEF PinsOK, RefsCounted, Ref, AliveWhileUsed, Fresh
    <2>2. ReaderOK'
      BY DEF ReaderOK, ConsumerAwake
    <2> QED BY <2>1, <2>2
  <1> QED BY <1>1, <1>2

LEMMA FilterResetIInv ==
  ASSUME IInv, NEW e \in Ends, FilterReset(e), UNCHANGED orderly
  PROVE  IInv'
  <1> USE DEF IInv, FilterReset, queueVars, lifeVars
  <1>1. PinsOK' /\ RefsCounted'
    BY DEF PinsOK, RefsCounted, Ref, AliveWhileUsed
  <1>2. ReaderOK' /\ Fresh'
    BY DEF ReaderOK, ConsumerAwake, Fresh, PinsOK, Ends
  <1> QED BY <1>1, <1>2

LEMMA DeliverIInv ==
  ASSUME IInv, NEW k \in Kinds, Deliver(k), UNCHANGED orderly
  PROVE  IInv'
  <1> USE DEF IInv, Deliver, queueVars, lifeVars
  <1>1. [kind |-> k, stale |-> srcStale] \in Frames
    BY DEF PinsOK, Frames
  <1>2. PinsOK' /\ RefsCounted'
    BY <1>1 DEF PinsOK, RefsCounted, Ref, AliveWhileUsed, Ends
  <1>3. ReaderOK' /\ Fresh'
    BY DEF ReaderOK, ConsumerAwake, Fresh, PinsOK, Ends
  <1> QED BY <1>2, <1>3

LEMMA SinkIInv ==
  ASSUME IInv, SinkRequest \/ SinkRead, UNCHANGED orderly
  PROVE  IInv'
  <1> USE DEF IInv, SinkRequest, SinkRead, queueVars, lifeVars
  <1>1. PinsOK' /\ RefsCounted'
    BY DEF PinsOK, RefsCounted, Ref, AliveWhileUsed
  <1>2. ReaderOK' /\ Fresh'
    BY DEF ReaderOK, ConsumerAwake, Fresh, PinsOK, Ends
  <1> QED BY <1>1, <1>2

(* Steps of the notify filter, and stuttering.                             *)
LEMMA OtherIInv ==
  ASSUME IInv, UNCHANGED <<queueVars, lifeVars, pinVars, pending, orderly>>
  PROVE  IInv'
  BY DEF IInv, queueVars, lifeVars, pinVars, PinsOK, RefsCounted, Ref, AliveWhileUsed,
     ReaderOK, ConsumerAwake, Fresh

-----------------------------------------------------------------------------
LEMMA NextIInv == IInv /\ [Next]_vars => IInv'
  <1> SUFFICES ASSUME IInv, [Next]_vars PROVE IInv'
    OBVIOUS
  <1>1. CASE Next /\ Step
    BY <1>1, QueueResetIInv, ResumeIInv, SetConfigIInv, CreateFilterIInv, FreeFilterIInv,
       FilterResetIInv, FreeQueueIInv, ProcessInIInv, ProcessOutIInv, DeliverIInv, SinkIInv,
       OtherIInv DEF Next, Step, SetNotifier
  <1>2. CASE Next /\ NotifierRuns
    BY <1>2, OtherIInv DEF Next, NotifierRuns
  <1>3. CASE UNCHANGED vars
    BY <1>3, OtherIInv DEF vars
  <1> QED BY <1>1, <1>2, <1>3 DEF Next

(* The invariant that the three theorems below rest on.                    *)
THEOREM InductiveInvariant == Spec => []IInv
  BY InitIInv, NextIInv, PTL DEF Spec

(* unref_queue() frees the queue exactly when neither the user's handle    *)
(* nor a filter is left, in whatever order they go.                        *)
THEOREM LivesWhileUsed == Spec => []AliveWhileUsed
  <1>1. IInv => AliveWhileUsed
    BY DEF IInv, RefsCounted
  <1> QED BY InductiveInvariant, <1>1, PTL

(* process_out() never leaves a frame in an active queue unnoticed.        *)
THEOREM ConsumerMissesNothing == Spec => []ConsumerAwake
  <1>1. IInv => ConsumerAwake
    BY DEF IInv, ReaderOK
  <1> QED BY InductiveInvariant, <1>1, PTL

(* The proper global reset of the header is proper: once the queue is      *)
(* resumed, no frame from before the reset is in it or in its pins.        *)
THEOREM ResetLeavesNothing == Spec => []NothingStale
  <1>1. IInv => NothingStale
    BY DEF IInv, Fresh, NothingStale
  <1> QED BY InductiveInvariant, <1>1, PTL
-----------------------------------------------------------------------------
(* Sums *)

(* Any partial sums of a sequence end in its total ...                     *)
LEMMA TotalIs ==
  ASSUME NEW s \in Seq(Int), NEW g \in [0..Len(s) -> Int], g[0] = 0,
         \A n \in 1..Len(s) : g[n] = g[n - 1] + s[n]
  PROVE  Total(s) = g[Len(s)]
  <1> DEFINE N == Len(s)
             Def(c) == c = [n \in 0..N |-> IF n = 0 THEN 0 ELSE c[n - 1] + s[n]]
             c == CHOOSE c : Def(c)
  <1>1. N \in Nat
    OBVIOUS
  <1>2. Def(g)
    <2> HIDE DEF N
    <2> QED BY <1>1 DEF N
  <1>3. Def(c) /\ Total(s) = c[N]
    BY <1>2 DEF Total
  <1>4. c[0] = 0 /\ \A n \in 1..N : c[n] = c[n - 1] + s[n]
    <2> HIDE DEF N, c
    <2> QED BY <1>1, <1>3
  <1> DEFINE Good == {n \in Nat : n <= N => c[n] = g[n]}
  <1>5. 0 \in Good
    <2> HIDE DEF c
    <2> QED BY <1>4
  <1>6. ASSUME NEW n \in Nat, n \in Good PROVE n + 1 \in Good
    <2> HIDE DEF c
    <2> SUFFICES ASSUME n + 1 <= N PROVE c[n + 1] = g[n + 1]
      OBVIOUS
    <2>1. c[n] = g[n]
      BY <1>1, <1>6
    <2>2. c[n + 1] = c[n] + s[n + 1] /\ g[n + 1] = g[n] + s[n + 1]
      BY <1>1, <1>4
    <2> QED BY <2>1, <2>2
  <1>7. N \in Good
    <2> HIDE DEF Good, N
    <2> QED BY <1>1, <1>5, <1>6, SetInduction
  <1> QED
    <2> HIDE DEF c
    <2> QED BY <1>1, <1>3, <1>7

(* ... and there are some.                                                 *)
LEMMA TotalSteps ==
  ASSUME NEW s \in Seq(Int)
  PROVE  \E g \in [0..Len(s) -> Int] :
            g[0] = 0 /\ (\A n \in 1..Len(s) : g[n] = g[n - 1] + s[n]) /\ Total(s) = g[Len(s)]
  <1> DEFINE N == Len(s)
             step == [n \in 1..N |-> [y \in Int |-> y + s[n]]]
  <1>1. N \in Nat /\ 0 \in Int /\ step \in [1..N -> [Int -> Int]]
    OBVIOUS
  <1>2. PICK g \in [0..N -> Int] : Iterates(g, 0, step, N)
    <2> HIDE DEF step, N
    <2> QED BY <1>1, IterationExists
  <1>3. g[0] = 0 /\ \A n \in 1..N : g[n] = step[n][g[n - 1]]
    <2> HIDE DEF step, N
    <2> QED BY <1>2 DEF Iterates
  <1>4. \A n \in 1..N : g[n] = g[n - 1] + s[n]
    <2> SUFFICES ASSUME NEW n \in 1..N PROVE g[n] = g[n - 1] + s[n]
      OBVIOUS
    <2>1. n - 1 \in 0..N /\ g[n - 1] \in Int
      <3> HIDE DEF step, N
      <3> QED BY <1>1
    <2>2. step[n][g[n - 1]] = g[n - 1] + s[n]
      BY <2>1
    <2> QED BY <1>3, <2>2
  <1> QED BY <1>3, <1>4, TotalIs

LEMMA TotalOfNone == Total(<<>>) = 0
  <1>1. <<>> \in Seq(Int) /\ Len(<<>>) = 0
    OBVIOUS
  <1> DEFINE g == [n \in 0..0 |-> 0]
  <1>2. g \in [0..Len(<<>>) -> Int] /\ g[0] = 0 /\ \A n \in 1..Len(<<>>) : g[n] = g[n - 1] + <<>>[n]
    BY <1>1
  <1> HIDE DEF g
  <1> QED BY <1>1, <1>2, TotalIs

LEMMA TotalPrepend ==
  ASSUME NEW s \in Seq(Int), NEW x \in Int, NEW t \in Seq(Int), Len(t) = Len(s) + 1,
         t[1] = x, \A n \in 1..Len(s) : t[n + 1] = s[n]
  PROVE  Total(t) = x + Total(s)
  <1>1. PICK g \in [0..Len(s) -> Int] :
            g[0] = 0 /\ (\A n \in 1..Len(s) : g[n] = g[n - 1] + s[n]) /\ Total(s) = g[Len(s)]
    BY TotalSteps
  <1> DEFINE h == [n \in 0..Len(t) |-> IF n = 0 THEN 0 ELSE x + g[n - 1]]
  <1>2. h \in [0..Len(t) -> Int] /\ h[0] = 0 /\ h[Len(t)] = x + g[Len(s)]
    OBVIOUS
  <1>3. ASSUME NEW n \in 1..Len(t) PROVE h[n] = h[n - 1] + t[n]
    <2>1. CASE n = 1
      BY <1>1, <2>1
    <2>2. CASE n # 1
      <3>1. n - 1 \in 1..Len(s) /\ n - 1 # 0 /\ n # 0
        BY <2>2
      <3>2. t[n] = s[n - 1]
        BY <3>1
      <3>3. g[n - 1] = g[n - 2] + s[n - 1] /\ g[n - 2] \in Int
        <4>1. (n - 1) - 1 = n - 2 /\ n - 2 \in 0..Len(s)
          BY <3>1
        <4>2. g[n - 1] = g[(n - 1) - 1] + s[n - 1]
          BY <1>1, <3>1
        <4> QED BY <4>1, <4>2
      <3>4. h[n] = x + g[n - 1] /\ h[n - 1] = x + g[n - 2]
        BY <3>1
      <3>5. s[n - 1] \in Int
        BY <3>1
      <3> QED BY <3>2, <3>3, <3>4, <3>5
    <2> QED BY <2>1, <2>2
  <1> HIDE DEF h
  <1> QED BY <1>1, <1>2, <1>3, TotalIs

LEMMA TotalFront ==
  ASSUME NEW s \in Seq(Int), NEW t \in Seq(Int), Len(s) = Len(t) + 1,
         \A n \in 1..Len(t) : t[n] = s[n]
  PROVE  Total(t) = Total(s) - s[Len(s)]
  <1>1. PICK g \in [0..Len(s) -> Int] :
            g[0] = 0 /\ (\A n \in 1..Len(s) : g[n] = g[n - 1] + s[n]) /\ Total(s) = g[Len(s)]
    BY TotalSteps
  <1> DEFINE h == [n \in 0..Len(t) |-> g[n]]
  <1>2. h \in [0..Len(t) -> Int] /\ h[0] = 0 /\ \A n \in 1..Len(t) : h[n] = h[n - 1] + t[n]
    BY <1>1
  <1>3. h[Len(t)] = g[Len(t)] /\ g[Len(s)] = g[Len(t)] + s[Len(s)] /\ g[Len(t)] \in Int
        /\ s[Len(s)] \in Int
    BY <1>1
  <1> HIDE DEF h
  <1>4. Total(t) = h[Len(t)]
    BY <1>2, TotalIs
  <1> QED BY <1>1, <1>3, <1>4

(* The sum of what a function w gives to the frames of a queue.            *)
Weigh(w, q) == Total([i \in 1..Len(q) |-> w[q[i]]])

LEMMA WeighNone == \A w : Weigh(w, <<>>) = 0
  <1> SUFFICES ASSUME NEW w PROVE Weigh(w, <<>>) = 0
    OBVIOUS
  <1>1. [i \in 1..Len(<<>>) |-> w[<<>>[i]]] = <<>>
    OBVIOUS
  <1> QED BY <1>1, TotalOfNone DEF Weigh

LEMMA WeighSeq ==
  ASSUME NEW w \in [Frames -> Int], NEW q \in Seq(Frames)
  PROVE  [i \in 1..Len(q) |-> w[q[i]]] \in Seq(Int) /\ Len([i \in 1..Len(q) |-> w[q[i]]]) = Len(q)
         /\ Weigh(w, q) \in Int
  <1> DEFINE s == [i \in 1..Len(q) |-> w[q[i]]]
  <1>1. s \in Seq(Int) /\ Len(s) = Len(q)
    OBVIOUS
  <1> HIDE DEF s
  <1>2. Total(s) \in Int
    BY <1>1, TotalSteps
  <1> QED BY <1>1, <1>2 DEF Weigh, s

LEMMA WeighPrepend ==
  ASSUME NEW w \in [Frames -> Int], NEW q \in Seq(Frames), NEW f \in Frames
  PROVE  Weigh(w, <<f>> \o q) = Weigh(w, q) + w[f]
  <1> DEFINE s == [i \in 1..Len(q) |-> w[q[i]]]
             r == <<f>> \o q
             t == [i \in 1..Len(r) |-> w[r[i]]]
  <1>1. r \in Seq(Frames) /\ Len(r) = Len(q) + 1 /\ r[1] = f /\ \A n \in 1..Len(q) : r[n + 1] = q[n]
    OBVIOUS
  <1>2. s \in Seq(Int) /\ t \in Seq(Int) /\ Len(s) = Len(q) /\ Len(t) = Len(r)
    <2> HIDE DEF r
    <2> QED BY <1>1, WeighSeq
  <1>3. t[1] = w[f] /\ \A n \in 1..Len(s) : t[n + 1] = s[n]
    <2> HIDE DEF r
    <2> QED BY <1>1, <1>2
  <1>4. Total(t) = w[f] + Total(s)
    <2> HIDE DEF s, t, r
    <2> QED BY <1>1, <1>2, <1>3, TotalPrepend
  <1>5. Weigh(w, q) = Total(s) /\ Weigh(w, r) = Total(t)
    BY DEF Weigh
  <1>6. Weigh(w, q) \in Int /\ w[f] \in Int
    BY WeighSeq
  <1> HIDE DEF s, t, r
  <1>7. Weigh(w, r) = Weigh(w, q) + w[f]
    BY <1>4, <1>5, <1>6
  <1> QED BY <1>7 DEF r

LEMMA FrontOf ==
  ASSUME NEW Item, NEW q \in Seq(Item), q # <<>>
  PROVE  /\ Len(q) \in Nat \ {0}
         /\ SubSeq(q, 1, Len(q) - 1) \in Seq(Item)
         /\ Len(SubSeq(q, 1, Len(q) - 1)) = Len(q) - 1
         /\ \A n \in 1..Len(q) - 1 : SubSeq(q, 1, Len(q) - 1)[n] = q[n]
  <1>1. Len(q) \in Nat \ {0}
    BY EmptySeq
  <1>2. \A i \in 1..Len(q) - 1 : q[i] \in Item /\ 1 + i - 1 = i
    OBVIOUS
  <1>3. (Len(q) - 1) - 1 + 1 = Len(q) - 1 /\ Len(q) - 1 \in Nat
    BY <1>1
  <1> QED BY <1>1, <1>2, <1>3, SubSeqProperties

LEMMA WeighFront ==
  ASSUME NEW w \in [Frames -> Int], NEW q \in Seq(Frames), q # <<>>
  PROVE  Weigh(w, SubSeq(q, 1, Len(q) - 1)) = Weigh(w, q) - w[q[Len(q)]]
  <1> DEFINE s == [i \in 1..Len(q) |-> w[q[i]]]
             r == SubSeq(q, 1, Len(q) - 1)
             t == [i \in 1..Len(r) |-> w[r[i]]]
  <1>0. Len(q) \in Nat \ {0}
    BY FrontOf
  <1>1. r \in Seq(Frames) /\ Len(r) = Len(q) - 1 /\ \A n \in 1..Len(r) : r[n] = q[n]
    BY FrontOf
  <1>2. s \in Seq(Int) /\ t \in Seq(Int) /\ Len(s) = Len(q) /\ Len(t) = Len(r)
    <2> HIDE DEF r
    <2> QED BY <1>1, WeighSeq
  <1>3. s[Len(s)] = w[q[Len(q)]] /\ \A n \in 1..Len(t) : t[n] = s[n]
    <2> HIDE DEF r
    <2> QED BY <1>0, <1>1, <1>2
  <1>4. Total(t) = Total(s) - s[Len(s)]
    <2> HIDE DEF s, t, r
    <2> QED BY <1>0, <1>1, <1>2, <1>3, TotalFront
  <1> QED BY <1>3, <1>4 DEF Weigh

(* What account_frame() counts.                                            *)
Units == {"frame", "samples"}
SamplesW(u) == [f \in Frames |-> FrameSamples(u, f)]
BytesW == [f \in Frames |-> f.kind.bytes]
EofsW == [f \in Frames |-> IF f.kind.eof THEN 1 ELSE 0]

LEMMA WeightsTyped ==
  /\ BytesW \in [Frames -> Int] /\ EofsW \in [Frames -> Int]
  /\ \A u \in Units : SamplesW(u) \in [Frames -> Int]
  /\ \A f \in Frames : f.kind.bytes \in Nat /\ f.kind.eof \in BOOLEAN
  /\ \A u \in Units, f \in Frames : FrameSamples(u, f) \in Nat
  <1>1. ASSUME NEW f \in Frames
        PROVE  f.kind.bytes \in Nat /\ f.kind.eof \in BOOLEAN /\ f.kind.samples \in Nat
    BY KindsAssumption DEF Frames
  <1>2. ASSUME NEW u \in Units, NEW f \in Frames PROVE FrameSamples(u, f) \in Nat
    BY <1>1 DEF FrameSamples, Units
  <1>3. BytesW \in [Frames -> Int] /\ EofsW \in [Frames -> Int]
    BY <1>1 DEF BytesW, EofsW
  <1>4. ASSUME NEW u \in Units PROVE SamplesW(u) \in [Frames -> Int]
    BY <1>2 DEF SamplesW
  <1> QED BY <1>1, <1>2, <1>3, <1>4

LEMMA SumsWeigh ==
  ASSUME NEW u \in Units, NEW q \in Seq(Frames)
  PROVE  /\ SamplesOf(u, q) = Weigh(SamplesW(u), q)
         /\ BytesOf(q) = Weigh(BytesW, q) /\ EofsOf(q) = Weigh(EofsW, q)
  <1>1. \A i \in 1..Len(q) : q[i] \in Frames
    OBVIOUS
  <1>2. [i \in 1..Len(q) |-> FrameSamples(u, q[i])] = [i \in 1..Len(q) |-> SamplesW(u)[q[i]]]
    BY <1>1 DEF SamplesW
  <1>3. [i \in 1..Len(q) |-> q[i].kind.bytes] = [i \in 1..Len(q) |-> BytesW[q[i]]]
    BY <1>1 DEF BytesW
  <1>4. [i \in 1..Len(q) |-> IF q[i].kind.eof THEN 1 ELSE 0] = [i \in 1..Len(q) |-> EofsW[q[i]]]
    BY <1>1 DEF EofsW
  <1> QED BY <1>2, <1>3, <1>4 DEF SamplesOf, BytesOf, EofsOf, Weigh

LEMMA SumsNone == \A u \in Units : SamplesOf(u, <<>>) = 0 /\ BytesOf(<<>>) = 0 /\ EofsOf(<<>>) = 0
  <1>1. <<>> \in Seq(Frames)
    OBVIOUS
  <1> QED BY <1>1, SumsWeigh, WeighNone

LEMMA SumsTyped ==
  ASSUME NEW u \in Units, NEW q \in Seq(Frames)
  PROVE  SamplesOf(u, q) \in Int /\ BytesOf(q) \in Int /\ EofsOf(q) \in Int
BY SumsWeigh, WeighSeq, WeightsTyped

LEMMA SumsPrepend ==
  ASSUME NEW u \in Units, NEW q \in Seq(Frames), NEW f \in Frames
  PROVE  /\ SamplesOf(u, <<f>> \o q) = SamplesOf(u, q) + FrameSamples(u, f)
         /\ BytesOf(<<f>> \o q) = BytesOf(q) + f.kind.bytes
         /\ EofsOf(<<f>> \o q) = EofsOf(q) + IF f.kind.eof THEN 1 ELSE 0
  <1>1. <<f>> \o q \in Seq(Frames)
    OBVIOUS
  <1>2. \A w \in [Frames -> Int] : Weigh(w, <<f>> \o q) = Weigh(w, q) + w[f]
    BY WeighPrepend
  <1>3. /\ SamplesW(u)[f] = FrameSamples(u, f) /\ BytesW[f] = f.kind.bytes
        /\ EofsW[f] = IF f.kind.eof THEN 1 ELSE 0
    BY DEF SamplesW, BytesW, EofsW
  <1> QED BY <1>1, <1>2, <1>3, SumsWeigh, WeightsTyped

LEMMA SumsFront ==
  ASSUME NEW u \in Units, NEW q \in Seq(Frames), q # <<>>
  PROVE  LET r == SubSeq(q, 1, Len(q) - 1)
             f == q[Len(q)]
         IN  /\ SamplesOf(u, r) = SamplesOf(u, q) - FrameSamples(u, f)
             /\ BytesOf(r) = BytesOf(q) - f.kind.bytes
             /\ EofsOf(r) = EofsOf(q) - IF f.kind.eof THEN 1 ELSE 0
  <1> DEFINE r == SubSeq(q, 1, Len(q) - 1)
             f == q[Len(q)]
  <1>1. r \in Seq(Frames) /\ f \in Frames
    BY FrontOf, ElementOfSeq
  <1>2. \A w \in [Frames -> Int] : Weigh(w, r) = Weigh(w, q) - w[f]
    BY WeighFront
  <1> HIDE DEF r, f
  <1>3. /\ SamplesW(u)[f] = FrameSamples(u, f) /\ BytesW[f] = f.kind.bytes
        /\ EofsW[f] = IF f.kind.eof THEN 1 ELSE 0
    BY <1>1 DEF SamplesW, BytesW, EofsW
  <1>4. /\ SamplesOf(u, r) = SamplesOf(u, q) - FrameSamples(u, f)
        /\ BytesOf(r) = BytesOf(q) - f.kind.bytes
        /\ EofsOf(r) = EofsOf(q) - IF f.kind.eof THEN 1 ELSE 0
    BY <1>1, <1>2, <1>3, SumsWeigh, WeightsTyped
  <1> QED BY <1>4 DEF r, f

-----------------------------------------------------------------------------
(* The accounted sizes *)

CfgOK == cfg \in Configs \cup {DefaultConfig}

SInv == IInv /\ CfgOK /\ SizesMatch

LEMMA CfgSays ==
  ASSUME CfgOK
  PROVE  /\ cfg.unit \in Units /\ cfg.max_samples \in Nat \ {0} /\ cfg.max_bytes \in Nat \ {0}
         /\ cfg.max_duration \in Nat
BY ConfigsAssumption DEF CfgOK, DefaultConfig, Units

LEMMA InitSInv == Init => SInv
  <1> SUFFICES ASSUME Init PROVE SInv
    OBVIOUS
  <1>1. CfgOK
    BY DEF Init, CfgOK
  <1>2. SizesMatch
    BY <1>1, CfgSays, SumsNone DEF Init, SizesMatch
  <1> QED BY <1>1, <1>2, InitIInv DEF SInv

LEMMA ClearedSizes ==
  ASSUME CfgOK, ClearQueue
  PROVE  SizesMatch'
BY CfgSays, SumsNone DEF ClearQueue, SizesMatch

LEMMA SetConfigSizes ==
  ASSUME SInv, NEW c \in Configs, SetConfig(c)
  PROVE  SizesMatch' /\ CfgOK'
BY DEF SetConfig, SInv, SizesMatch, CfgOK

LEMMA AcceptSizes ==
  ASSUME SInv, Accept
  PROVE  SizesMatch'
  <1>1. data["in"] \in Frames /\ frames \in Seq(Frames) /\ cfg.unit \in Units
    BY CfgSays DEF Accept, SInv, IInv, PinsOK, Ends
  <1>2. frames' = <<data["in"]>> \o frames /\ Account(data["in"], 1) /\ cfg' = cfg
    BY DEF Accept
  <1>3. /\ FrameSamples(cfg.unit, data["in"]) \in Nat /\ data["in"].kind.bytes \in Nat
        /\ data["in"].kind.eof \in BOOLEAN
    BY <1>1, WeightsTyped
  <1> QED BY <1>1, <1>2, <1>3, SumsPrepend, SumsTyped DEF SInv, SizesMatch, Account

LEMMA ReadSizes ==
  ASSUME SInv, frames # <<>>, frames' = SubSeq(frames, 1, Len(frames) - 1),
         Account(frames[Len(frames)], -1), cfg' = cfg
  PROVE  SizesMatch'
  <1> DEFINE f == frames[Len(frames)]
  <1>1. f \in Frames /\ frames \in Seq(Frames) /\ cfg.unit \in Units
    BY CfgSays, FrontOf, ElementOfSeq DEF SInv, IInv, PinsOK
  <1>2. /\ SamplesOf(cfg.unit, frames') = SamplesOf(cfg.unit, frames) - FrameSamples(cfg.unit, f)
        /\ BytesOf(frames') = BytesOf(frames) - f.kind.bytes
        /\ EofsOf(frames') = EofsOf(frames) - IF f.kind.eof THEN 1 ELSE 0
    BY <1>1, SumsFront
  <1>3. Account(f, -1)
    OBVIOUS
  <1> HIDE DEF f
  <1>4. FrameSamples(cfg.unit, f) \in Nat /\ f.kind.bytes \in Nat /\ f.kind.eof \in BOOLEAN
    BY <1>1, WeightsTyped
  <1>5. /\ samples_size = SamplesOf(cfg.unit, frames) /\ samples_size \in Int
        /\ byte_size = BytesOf(frames) /\ byte_size \in Int
        /\ eof_count = EofsOf(frames) /\ eof_count \in Int
    BY <1>1, SumsTyped DEF SInv, SizesMatch
  <1>6. samples_size' = samples_size - FrameSamples(cfg.unit, f)
    BY <1>3, <1>4, <1>5 DEF Account
  <1>7. byte_size' = byte_size - f.kind.bytes
    <2>1. byte_size' = byte_size + (-1) * f.kind.bytes
      BY <1>3 DEF Account
    <2>2. \A x \in Nat : byte_size + (-1) * x = byte_size - x
      BY <1>5
    <2> QED BY <1>4, <2>1, <2>2
  <1>8. eof_count' = eof_count - IF f.kind.eof THEN 1 ELSE 0
    BY <1>3, <1>4, <1>5 DEF Account
  <1> QED BY <1>2, <1>5, <1>6, <1>7, <1>8 DEF SizesMatch

LEMMA UnrefSizes ==
  ASSUME SInv, Unref
  PROVE  SizesMatch' /\ CfgOK'
  <1>1. CASE refcount = 1
    BY <1>1, ClearedSizes DEF Unref, ClearQueue, SInv, CfgOK
  <1>2. CASE refcount # 1
    BY <1>2 DEF Unref, queueVars, SInv, CfgOK, SizesMatch
  <1> QED BY <1>1, <1>2

LEMMA ProcessOutSizes ==
  ASSUME SInv, ProcessOut
  PROVE  SizesMatch' /\ CfgOK'
  <1>1. CASE active /\ "out" \in requested /\ frames # <<>>
    <2>1. /\ frames' = SubSeq(frames, 1, Len(frames) - 1)
          /\ Account(frames[Len(frames)], -1) /\ cfg' = cfg
      BY <1>1 DEF ProcessOut
    <2> QED BY <1>1, <2>1, ReadSizes DEF SInv, CfgOK
  <1>2. CASE ~(active /\ "out" \in requested /\ frames # <<>>)
    <2>1. UNCHANGED <<cfg, samples_size, byte_size, eof_count, frames>>
      BY <1>2 DEF ProcessOut, queueVars
    <2> QED BY <2>1 DEF SInv, CfgOK, SizesMatch
  <1> QED BY <1>1, <1>2

LEMMA StepSizes ==
  ASSUME SInv, Step
  PROVE  SizesMatch' /\ CfgOK'
  <1>1. CASE QueueReset
    BY <1>1, ClearedSizes DEF QueueReset, ClearQueue, SInv, CfgOK
  <1>2. ASSUME NEW c \in Configs, SetConfig(c) PROVE SizesMatch' /\ CfgOK'
    BY <1>2, SetConfigSizes
  <1>3. CASE FreeQueue \/ \E e \in Ends : FreeFilter(e)
    BY <1>3, UnrefSizes DEF FreeQueue, FreeFilter
  <1>4. CASE ProcessIn
    <2>1. CASE Accept
      BY <2>1, AcceptSizes DEF Accept, SInv, CfgOK
    <2>2. CASE Discard \/ Request \/ NoRoom
      BY <2>2 DEF Discard, Request, NoRoom, queueVars, SInv, CfgOK, SizesMatch
    <2> QED BY <1>4, <2>1, <2>2 DEF ProcessIn
  <1>5. CASE ProcessOut
    BY <1>5, ProcessOutSizes
  <1>6. CASE \/ Resume \/ ResumeReading \/ SetNotifier \/ SinkRequest \/ SinkRead
             \/ \E e \in Ends : CreateFilter(e) \/ FilterReset(e)
             \/ \E k \in Kinds : Deliver(k)
    <2>1. UNCHANGED <<cfg, samples_size, byte_size, eof_count, frames>>
      BY <1>6 DEF Resume, ResumeReading, SetNotifier, SinkRequest, SinkRead, CreateFilter,
         FilterReset, Deliver, queueVars
    <2> QED BY <2>1 DEF SInv, CfgOK, SizesMatch
  <1> QED BY <1>1, <1>2, <1>3, <1>4, <1>5, <1>6 DEF Step

LEMMA NextSInv == SInv /\ [Next]_vars => SInv'
  <1> SUFFICES ASSUME SInv, [Next]_vars PROVE SizesMatch' /\ CfgOK'
    BY NextIInv DEF SInv
  <1>1. CASE Step
    BY <1>1, StepSizes
  <1>2. CASE NotifierRuns \/ UNCHANGED vars
    <2>1. UNCHANGED <<cfg, samples_size, byte_size, eof_count, frames>>
      BY <1>2 DEF NotifierRuns, queueVars, vars
    <2> QED BY <2>1 DEF SInv, CfgOK, SizesMatch
  <1> QED BY <1>1, <1>2 DEF Next

(* However writes, reads, resets and new configurations follow each other, *)
(* the sizes and the EOF count are those of the frames that are queued:    *)
(* what account_frame() adds for a frame it takes away again, although the *)
(* unit may have changed in between (recompute_sizes()).                   *)
THEOREM AccountedExactly == Spec => []SizesMatch
  <1>1. SInv => SizesMatch
    BY DEF SInv
  <1> QED BY InitSInv, NextSInv, <1>1, PTL DEF Spec

-----------------------------------------------------------------------------
(* The producer and the notify filter *)

NotesOK ==
  /\ notify \in BOOLEAN /\ note \in BOOLEAN
  /\ notify => "in" \in conn

AInv == SInv /\ NotesOK /\ ProducerAwake /\ NotifierAwake

(* With limits of at least 1, an empty queue is not full.                  *)
LEMMA EmptyHasRoom == SInv /\ frames = <<>> => ~IsFull
  <1> SUFFICES ASSUME SInv, frames = <<>> PROVE ~IsFull
    OBVIOUS
  <1>1. cfg.unit \in Units /\ cfg.max_samples \in Nat \ {0} /\ cfg.max_bytes \in Nat \ {0}
    BY CfgSays DEF SInv
  <1>2. samples_size = 0 /\ byte_size = 0 /\ Len(frames) = 0
    BY <1>1, SumsNone DEF SInv, SizesMatch
  <1> QED BY <1>1, <1>2 DEF IsFull

LEMMA SameFull ==
  ASSUME UNCHANGED <<cfg, samples_size, byte_size, frames>>
  PROVE  IsFull' <=> IsFull
BY DEF IsFull

(* A read makes the queue full only if an EOF hid how long it is.          *)
LEMMA ReadFull ==
  ASSUME SInv, SInv', frames # <<>>, frames' = SubSeq(frames, 1, Len(frames) - 1), cfg' = cfg,
         IsFull', ~Last(frames).kind.eof
  PROVE  IsFull
  <1> DEFINE f == frames[Len(frames)]
  <1>1. /\ f \in Frames /\ frames \in Seq(Frames) /\ cfg.unit \in Units
        /\ cfg.max_samples \in Nat /\ cfg.max_bytes \in Nat /\ cfg.max_duration \in Nat
    BY CfgSays, FrontOf, ElementOfSeq DEF SInv, IInv, PinsOK
  <1>2. /\ frames' \in Seq(Frames) /\ Len(frames) \in Nat \ {0} /\ Len(frames') = Len(frames) - 1
        /\ \A n \in 1..Len(frames) - 1 : frames'[n] = frames[n]
    BY <1>1, FrontOf
  <1>3. /\ SamplesOf(cfg.unit, frames') = SamplesOf(cfg.unit, frames) - FrameSamples(cfg.unit, f)
        /\ BytesOf(frames') = BytesOf(frames) - f.kind.bytes
    BY <1>1, SumsFront
  <1> HIDE DEF f
  <1>4. FrameSamples(cfg.unit, f) \in Nat /\ f.kind.bytes \in Nat
    BY <1>1, WeightsTyped
  <1>5. samples_size \in Int /\ samples_size' \in Int /\ samples_size' <= samples_size
    BY <1>1, <1>3, <1>4, SumsTyped DEF SInv, SizesMatch
  <1>6. byte_size \in Int /\ byte_size' \in Int /\ byte_size' <= byte_size
    BY <1>1, <1>3, <1>4, SumsTyped DEF SInv, SizesMatch
  <1>7. CASE samples_size' >= cfg.max_samples \/ byte_size' >= cfg.max_bytes
    BY <1>1, <1>5, <1>6, <1>7 DEF IsFull
  <1>8. CASE /\ Len(frames') >= 2 /\ cfg.max_duration > 0
             /\ ~Head(frames').kind.eof
             /\ Len(frames') - 1 >= cfg.max_duration
    <2>1. Head(frames') = Head(frames)
      <3>1. frames'[1] = frames[1]
        BY <1>2, <1>8
      <3>2. frames' # <<>>
        <4>1. Len(frames') # 0
          BY <1>8
        <4> QED BY <1>2, <4>1, EmptySeq
      <3> QED BY <1>1, <1>2, <3>1, <3>2
    <2>2. Len(frames) >= 2 /\ Len(frames) - 1 >= cfg.max_duration
      BY <1>1, <1>2, <1>8
    <2> QED BY <1>8, <2>1, <2>2 DEF IsFull
  <1> QED BY <1>7, <1>8 DEF IsFull

(* Nothing is to be told of a queue that did not become full or empty.     *)
LEMMA StaysTold ==
  ASSUME NotifierAwake, told' = Conditions' \cap (told \cup Untold),
         notify' /\ ~note' => notify /\ ~note,
         IsFull' => IsFull \/ "full" \in Untold,
         frames' = <<>> => frames = <<>>,
         "in" \in pending => "in" \in pending'
  PROVE  NotifierAwake'
BY DEF NotifierAwake, Conditions

(* Steps of the user and of the graphs at the pins that leave the frames   *)
(* and the limits alone.                                                   *)
LEMMA SameQueueAwake ==
  ASSUME AInv, told' = Conditions' \cap (told \cup Untold),
         \/ Resume \/ ResumeReading \/ SinkRequest \/ SinkRead
         \/ \E e \in Ends : CreateFilter(e) \/ FilterReset(e)
         \/ \E k \in Kinds : Deliver(k)
  PROVE  NotesOK' /\ ProducerAwake' /\ NotifierAwake'
  <1>1. /\ UNCHANGED <<cfg, samples_size, byte_size, frames, notify, note>>
        /\ conn \subseteq conn' /\ pending \subseteq pending'
    BY DEF Resume, ResumeReading, SinkRequest, SinkRead, CreateFilter, FilterReset, Deliver,
       queueVars, lifeVars
  <1>2. NotesOK'
    BY <1>1 DEF AInv, NotesOK
  <1>3. NotifierAwake'
    BY <1>1, SameFull, StaysTold DEF AInv
  <1>4. ProducerAwake'
    <2>1. CASE Resume \/ ResumeReading
      BY <2>1 DEF Resume, ResumeReading, AInv, ProducerAwake, lifeVars, pinVars
    <2>2. CASE SinkRequest \/ SinkRead \/ \E k \in Kinds : Deliver(k)
      BY <2>2 DEF SinkRequest, SinkRead, Deliver, AInv, ProducerAwake, lifeVars, queueVars
    <2>3. CASE \E e \in Ends : CreateFilter(e) \/ FilterReset(e)
      BY <2>3 DEF CreateFilter, FilterReset, AInv, ProducerAwake, lifeVars, queueVars
    <2> QED BY <2>1, <2>2, <2>3
  <1> QED BY <1>2, <1>3, <1>4

LEMMA UserAwake ==
  ASSUME AInv, SInv', told' = Conditions' \cap (told \cup Untold),
         QueueReset \/ SetNotifier \/ \E c \in Configs : SetConfig(c)
  PROVE  NotesOK' /\ ProducerAwake' /\ NotifierAwake'
  <1>1. CASE QueueReset
    <2>1. /\ frames' = <<>> /\ ~reading' /\ pending' = pending \cup conn
          /\ UNCHANGED <<conn, notify, note>>
      BY <1>1 DEF QueueReset, ClearQueue, lifeVars
    <2>2. (SInv /\ frames = <<>> => ~IsFull)'
      BY EmptyHasRoom, PTL
    <2> QED BY <2>1, <2>2 DEF AInv, NotesOK, ProducerAwake, NotifierAwake
  <1>2. CASE SetNotifier
    BY <1>2 DEF SetNotifier, queueVars, lifeVars, pinVars, AInv, NotesOK, ProducerAwake, NotifierAwake
  <1>3. CASE \E c \in Configs : SetConfig(c)
    <2>1. /\ UNCHANGED <<reading, frames, pending, requested, conn, notify, note>>
          /\ Untold = {"full"}
      BY <1>3 DEF SetConfig, lifeVars, pinVars, Untold
    <2> QED BY <2>1, StaysTold DEF AInv, NotesOK, ProducerAwake
  <1> QED BY <1>1, <1>2, <1>3

(* The last reference takes the filters, and with them the notifier, along. *)
LEMMA FreeAwake ==
  ASSUME AInv, SInv', told' = Conditions' \cap (told \cup Untold),
         FreeQueue \/ \E e \in Ends : FreeFilter(e)
  PROVE  NotesOK' /\ ProducerAwake' /\ NotifierAwake'
  <1>1. /\ Unref
        /\ notify' => notify /\ "in" \in conn' /\ (note => note')
        /\ notify' \in BOOLEAN /\ note' \in BOOLEAN
        /\ (notify' \/ "in" \in conn') => pending \ {"out"} \subseteq pending'
    <2>1. CASE FreeQueue
      BY <2>1 DEF FreeQueue, AInv, NotesOK
    <2>2. CASE \E e \in Ends : FreeFilter(e)
      <3>1. PICK e \in Ends : FreeFilter(e)
        BY <2>2
      <3>2. CASE e = "in"
        BY <3>1, <3>2 DEF FreeFilter, AInv, NotesOK
      <3>3. CASE e = "out"
        BY <3>1, <3>3 DEF FreeFilter, AInv, NotesOK
      <3> QED BY <3>2, <3>3 DEF Ends
    <2> QED BY <2>1, <2>2
  <1>2. NotesOK'
    BY <1>1 DEF NotesOK
  <1>3. CASE refcount = 1
    <2>1. conn' = {}
      BY <1>1, <1>3 DEF Unref, SInv, IInv, RefsCounted, AliveWhileUsed
    <2> QED BY <1>1, <1>2, <2>1 DEF ProducerAwake, NotifierAwake
  <1>4. CASE refcount # 1
    <2>1. UNCHANGED queueVars
      BY <1>1, <1>4 DEF Unref
    <2>2. NotifierAwake'
      <3>1. CASE notify'
        BY <1>1, <2>1, <3>1, SameFull, StaysTold DEF queueVars, AInv
      <3>2. CASE ~notify'
        BY <3>2 DEF NotifierAwake
      <3> QED BY <3>1, <3>2
    <2>3. ProducerAwake'
      BY <2>1 DEF FreeQueue, FreeFilter, AInv, ProducerAwake, queueVars, pinVars
    <2> QED BY <1>2, <2>2, <2>3
  <1> QED BY <1>3, <1>4

(* process_in() of an empty queue has asked for a frame; it tells of a     *)
(* queue that it has filled, or finds empty.                               *)
LEMMA ProcessInAwake ==
  ASSUME AInv, SInv', told' = Conditions' \cap (told \cup Untold), ProcessIn
  PROVE  NotesOK' /\ ProducerAwake' /\ NotifierAwake'
  <1>1. UNCHANGED <<conn, notify>> /\ notify \in BOOLEAN /\ note \in BOOLEAN
    BY DEF ProcessIn, lifeVars, AInv, NotesOK
  <1>2. CASE Accept
    <2>1. frames' = <<data["in"]>> \o frames /\ frames' # <<>>
      <3>1. frames \in Seq(Frames) /\ data["in"] \in Frames
        BY <1>2 DEF Accept, AInv, SInv, IInv, PinsOK, Ends
      <3>2. frames' = <<data["in"]>> \o frames
        BY <1>2 DEF Accept
      <3> QED BY <3>1, <3>2
    <2>2. note' = (note \/ (notify /\ (IsFull' \/ frames' = <<>>)))
      BY <1>2 DEF Accept, Tell
    <2> QED BY <1>1, <2>1, <2>2 DEF AInv, NotesOK, ProducerAwake, NotifierAwake
  <1>3. CASE Discard \/ Request \/ NoRoom
    <2>1. UNCHANGED queueVars /\ note' = (note \/ (notify /\ frames' = <<>>))
      BY <1>3 DEF Discard, Request, NoRoom, Tell
    <2>2. NotifierAwake'
      <3>1. IsFull' <=> IsFull
        BY <2>1, SameFull DEF queueVars
      <3> QED BY <1>1, <2>1, <3>1 DEF AInv, NotifierAwake, Conditions, queueVars
    <2>3. ProducerAwake'
      BY <1>3, <2>1, EmptyHasRoom DEF Discard, Request, NoRoom, AInv, ProducerAwake, queueVars
    <2> QED BY <1>1, <2>1, <2>2, <2>3 DEF AInv, NotesOK
  <1> QED BY <1>2, <1>3 DEF ProcessIn

LEMMA ProcessOutAwake ==
  ASSUME AInv, SInv', told' = Conditions' \cap (told \cup Untold), ProcessOut
  PROVE  NotesOK' /\ ProducerAwake' /\ NotifierAwake'
  <1>1. UNCHANGED <<conn, notify, note>> /\ NotesOK'
    BY DEF ProcessOut, AInv, NotesOK
  <1>2. CASE active /\ "out" \in requested /\ frames # <<>>
    <2>1. /\ frames' = SubSeq(frames, 1, Len(frames) - 1) /\ cfg' = cfg
          /\ pending' = (pending \ {"out"}) \cup (conn \cap {"in"})
      BY <1>2 DEF ProcessOut, WakesIn
    <2>2. IsFull' => IsFull \/ "full" \in Untold
      <3>1. Len(frames') < Len(frames)
        BY <1>2, <2>1, FrontOf DEF AInv, SInv, IInv, PinsOK
      <3>2. Last(frames).kind.eof => "full" \in Untold
        BY <1>2, <3>1 DEF Untold
      <3> QED BY <1>2, <2>1, <3>2, ReadFull DEF AInv
    <2>3. "in" \in conn => "in" \in pending'
      BY <2>1
    <2>4. ProducerAwake'
      BY <1>1, <2>3 DEF ProducerAwake
    <2>5. NotifierAwake'
      BY <1>1, <2>2, <2>3 DEF AInv, NotesOK, NotifierAwake, Conditions
    <2> QED BY <1>1, <2>4, <2>5
  <1>3. CASE ~(active /\ "out" \in requested /\ frames # <<>>)
    <2>1. /\ UNCHANGED <<cfg, samples_size, byte_size, frames, requested>>
          /\ pending \ {"out"} \subseteq pending'
          /\ reading' => reading \/ ("in" \in conn => "in" \in pending')
      BY <1>3 DEF ProcessOut, WakesIn, queueVars
    <2>2. NotifierAwake'
      BY <1>1, <2>1, SameFull, StaysTold DEF AInv
    <2>3. ProducerAwake'
      BY <1>1, <2>1 DEF AInv, ProducerAwake
    <2> QED BY <1>1, <2>2, <2>3
  <1> QED BY <1>2, <1>3

LEMMA InitAInv == Init => AInv
  <1> SUFFICES ASSUME Init PROVE AInv
    OBVIOUS
  <1> QED BY InitSInv DEF AInv, Init, NotesOK, ProducerAwake, NotifierAwake

LEMMA NextAInv == AInv /\ [Next]_vars => AInv'
  <1> SUFFICES ASSUME AInv, [Next]_vars PROVE AInv'
    OBVIOUS
  <1>1. SInv'
    BY NextSInv DEF AInv
  <1>2. CASE Step /\ told' = Conditions' \cap (told \cup Untold)
    BY <1>1, <1>2, SameQueueAwake, UserAwake, FreeAwake, ProcessInAwake, ProcessOutAwake
    DEF Step, AInv
  <1>3. CASE NotifierRuns
    <2>1. UNCHANGED <<cfg, samples_size, byte_size, frames, notify, conn, reading, pending, requested>>
          /\ told' = Conditions /\ note' \in BOOLEAN
      BY <1>3 DEF NotifierRuns, queueVars, lifeVars, pinVars
    <2> QED BY <1>1, <2>1, SameFull DEF AInv, NotesOK, ProducerAwake, NotifierAwake, Conditions
  <1>4. CASE UNCHANGED vars
    <2>1. UNCHANGED <<cfg, samples_size, byte_size, frames, notify, note, told, conn, reading,
                      pending, requested>>
      BY <1>4 DEF vars, queueVars, lifeVars, pinVars, noteVars
    <2> QED BY <1>1, <2>1, SameFull DEF AInv, NotesOK, ProducerAwake, NotifierAwake
  <1> QED BY <1>2, <1>3, <1>4 DEF Next

(* A queue that is being read and has run empty has its producer's filter  *)
(* processed, or has a frame requested from its graph, whatever resets,    *)
(* new configurations and reads came in between.                           *)
THEOREM ProducerMissesNothing == Spec => []ProducerAwake
  <1>1. AInv => ProducerAwake
    BY DEF AInv
  <1> QED BY InitAInv, NextAInv, <1>1, PTL DEF Spec

(* Whenever the queue is full or empty, the notify filter has run since,   *)
(* is to run, or is going to be told, except for a queue that new limits   *)
(* or the reading of an EOF have made full.                                *)
THEOREM NotifierIsTold == Spec => []NotifierAwake
  <1>1. AInv => NotifierAwake
    BY DEF AInv
  <1> QED BY InitAInv, NextAInv, <1>1, PTL DEF Spec

-----------------------------------------------------------------------------
(* The stream of frames *)

(* One contiguous piece is lost.                                           *)
LEMMA CutMiddle ==
  ASSUME NEW A \in Seq(Kinds), NEW B \in Seq(Kinds), NEW C \in Seq(Kinds)
  PROVE  Stream!IsCut(A \o C, (A \o B) \o C)
  <1> DEFINE ab == A \o B
             s == ab \o C
             i == Len(A)
             j == Len(A) + Len(B) + 1
  <1>1. /\ ab \in Seq(Kinds) /\ Len(ab) = Len(A) + Len(B)
        /\ \A n \in 1..Len(A) + Len(B) : ab[n] = IF n <= Len(A) THEN A[n] ELSE B[n - Len(A)]
    BY ConcatProperties
  <1>2. /\ s \in Seq(Kinds) /\ Len(s) = Len(ab) + Len(C)
        /\ \A n \in 1..Len(ab) + Len(C) : s[n] = IF n <= Len(ab) THEN ab[n] ELSE C[n - Len(ab)]
    BY <1>1, ConcatProperties
  <1>3. Len(A) \in Nat /\ Len(B) \in Nat /\ Len(C) \in Nat
    BY LenProperties
  <1> HIDE DEF ab, s
  <1>4. \A n \in 1..Len(s) : s[n] \in Kinds
    BY <1>2, ElementOfSeq
  <1>5. i \in 0..Len(s) /\ j \in 1..Len(s) + 1
    BY <1>1, <1>2, <1>3
  <1>6. SubSeq(s, 1, i) = A
    <2>1. \A n \in 1..i : s[n] \in Kinds /\ s[n] = A[n]
      BY <1>1, <1>2, <1>3, <1>4
    <2>2. /\ SubSeq(s, 1, i) \in Seq(Kinds) /\ Len(SubSeq(s, 1, i)) = i
          /\ \A n \in 1..i : SubSeq(s, 1, i)[n] = s[n]
      BY <1>3, <2>1, SubSeqProperties
    <2> QED BY <2>1, <2>2, SeqEqual
  <1>7. SubSeq(s, j, Len(s)) = C
    <2>1. \A n \in j..Len(s) : s[n] \in Kinds
      BY <1>3, <1>4
    <2>2. j \in Int /\ Len(s) \in Int /\ Len(s) - j + 1 = Len(C) /\ (Len(C) = 0 <=> ~(j <= Len(s)))
      BY <1>1, <1>2, <1>3
    <2>3. /\ SubSeq(s, j, Len(s)) \in Seq(Kinds) /\ Len(SubSeq(s, j, Len(s))) = Len(C)
          /\ \A n \in 1..Len(C) : SubSeq(s, j, Len(s))[n] = s[j + n - 1]
      BY <2>1, <2>2, SubSeqProperties
    <2>4. \A n \in 1..Len(C) : s[j + n - 1] = C[n]
      <3> SUFFICES ASSUME NEW n \in 1..Len(C) PROVE s[j + n - 1] = C[n]
        OBVIOUS
      <3> DEFINE m == j + n - 1
      <3>1. m \in 1..Len(ab) + Len(C) /\ ~(m <= Len(ab)) /\ m - Len(ab) = n
        BY <1>1, <1>3
      <3> HIDE DEF m
      <3>2. s[m] = C[m - Len(ab)]
        BY <1>2, <3>1
      <3>3. s[m] = C[n]
        BY <3>1, <3>2
      <3> QED BY <3>3 DEF m
    <2> QED BY <2>3, <2>4, SeqEqual
  <1>8. A \o C = SubSeq(s, 1, i) \o SubSeq(s, j, Len(s))
    BY <1>6, <1>7
  <1> HIDE DEF i, j
  <1>9. Stream!IsCut(A \o C, s)
    BY <1>5, <1>8 DEF Stream!IsCut
  <1> QED BY <1>9 DEF s, ab

LEMMA CutFirst ==
  ASSUME NEW A \in Seq(Kinds), NEW B \in Seq(Kinds), NEW C \in Seq(Kinds)
  PROVE  Stream!IsCut((<<>> \o B) \o C, (A \o B) \o C)
  <1>1. B \o C \in Seq(Kinds) /\ <<>> \in Seq(Kinds)
    BY ConcatProperties, EmptySeq
  <1>2. Stream!IsCut(<<>> \o (B \o C), (<<>> \o A) \o (B \o C))
    BY <1>1, CutMiddle
  <1>3. (<<>> \o A) \o (B \o C) = (A \o B) \o C
    BY ConcatEmptySeq, ConcatAssociative
  <1>4. <<>> \o (B \o C) = (<<>> \o B) \o C
    BY <1>1, ConcatEmptySeq
  <1> QED BY <1>2, <1>3, <1>4

LEMMA CutLast ==
  ASSUME NEW A \in Seq(Kinds), NEW B \in Seq(Kinds), NEW C \in Seq(Kinds)
  PROVE  Stream!IsCut((A \o B) \o <<>>, (A \o B) \o C)
  <1>1. A \o B \in Seq(Kinds) /\ (A \o B) \o C \in Seq(Kinds) /\ <<>> \in Seq(Kinds)
    BY ConcatProperties, EmptySeq
  <1>2. Stream!IsCut((A \o B) \o <<>>, ((A \o B) \o C) \o <<>>)
    BY <1>1, CutMiddle
  <1>3. ((A \o B) \o C) \o <<>> = (A \o B) \o C
    BY <1>1, ConcatEmptySeq
  <1> QED BY <1>2, <1>3

LEMMA CutAll ==
  ASSUME NEW s \in Seq(Kinds)
  PROVE  Stream!IsCut(<<>>, s)
  <1>1. <<>> \in Seq(Kinds) /\ (<<>> \o s) \o <<>> = s /\ <<>> \o <<>> = <<>>
    BY EmptySeq, ConcatEmptySeq
  <1> QED BY <1>1, CutMiddle

LEMMA KindsOfSeq ==
  ASSUME NEW q \in Seq(Frames)
  PROVE  /\ KindsOf(q) \in Seq(Kinds) /\ Len(KindsOf(q)) = Len(q)
         /\ \A i \in 1..Len(q) : KindsOf(q)[i] = q[Len(q) - i + 1].kind
  <1>1. DOMAIN q = 1..Len(q) /\ Len(q) \in Nat
    BY LenProperties
  <1>2. \A i \in 1..Len(q) : Len(q) - i + 1 \in 1..Len(q) /\ q[Len(q) - i + 1].kind \in Kinds
    <2>1. \A i \in 1..Len(q) : Len(q) - i + 1 \in 1..Len(q)
      BY <1>1
    <2>2. \A n \in 1..Len(q) : q[n].kind \in Kinds
      <3>1. \A n \in 1..Len(q) : q[n] \in Frames
        BY ElementOfSeq
      <3> QED BY <3>1 DEF Frames
    <2> QED BY <2>1, <2>2
  <1>3. KindsOf(q) = [i \in 1..Len(q) |-> q[Len(q) - i + 1].kind]
    BY <1>1 DEF KindsOf, Reverse
  <1> QED BY <1>1, <1>2, <1>3

LEMMA KindsOfNone == KindsOf(<<>>) = <<>>
  <1>1. <<>> \in Seq(Frames) /\ Len(<<>>) = 0
    BY EmptySeq
  <1>2. KindsOf(<<>>) \in Seq(Kinds) /\ Len(KindsOf(<<>>)) = 0
    BY <1>1, KindsOfSeq
  <1> QED BY <1>2, EmptySeq

LEMMA KindsOfPrepend ==
  ASSUME NEW q \in Seq(Frames), NEW f \in Frames
  PROVE  KindsOf(<<f>> \o q) = KindsOf(q) \o <<f.kind>>
  <1> DEFINE r == <<f>> \o q
             t == KindsOf(q) \o <<f.kind>>
  <1>1. /\ r \in Seq(Frames) /\ Len(r) = Len(q) + 1 /\ Len(q) \in Nat
        /\ r[1] = f /\ \A n \in 1..Len(q) : r[n + 1] = q[n]
    OBVIOUS
  <1>2. /\ KindsOf(q) \in Seq(Kinds) /\ Len(KindsOf(q)) = Len(q)
        /\ \A i \in 1..Len(q) : KindsOf(q)[i] = q[Len(q) - i + 1].kind
    BY KindsOfSeq
  <1>3. <<f.kind>> \in Seq(Kinds) /\ Len(<<f.kind>>) = 1 /\ <<f.kind>>[1] = f.kind
    BY DEF Frames
  <1>4. /\ t \in Seq(Kinds) /\ Len(t) = Len(q) + 1
        /\ \A i \in 1..Len(q) + 1 : t[i] = IF i <= Len(q) THEN KindsOf(q)[i] ELSE <<f.kind>>[i - Len(q)]
    BY <1>2, <1>3, ConcatProperties
  <1> HIDE DEF r, t
  <1>5. /\ KindsOf(r) \in Seq(Kinds) /\ Len(KindsOf(r)) = Len(r)
        /\ \A i \in 1..Len(r) : KindsOf(r)[i] = r[Len(r) - i + 1].kind
    BY <1>1, KindsOfSeq
  <1>6. ASSUME NEW i \in 1..Len(q) + 1 PROVE KindsOf(r)[i] = t[i]
    <2>1. CASE i <= Len(q)
      <3>1. /\ Len(q) - i + 1 \in 1..Len(q) /\ Len(r) - i + 1 = (Len(q) - i + 1) + 1
            /\ i \in 1..Len(q) /\ i \in 1..Len(r)
        BY <1>1, <2>1
      <3>2. r[Len(r) - i + 1] = q[Len(q) - i + 1]
        BY <1>1, <3>1
      <3> QED BY <1>2, <1>4, <1>5, <2>1, <3>1, <3>2
    <2>2. CASE i = Len(q) + 1
      <3>1. Len(r) - i + 1 = 1 /\ i - Len(q) = 1 /\ ~(i <= Len(q)) /\ i \in 1..Len(r)
        BY <1>1, <2>2
      <3>2. KindsOf(r)[i] = r[1].kind
        BY <1>5, <3>1
      <3>3. t[i] = <<f.kind>>[1]
        BY <1>4, <3>1
      <3> QED BY <1>1, <1>3, <3>2, <3>3
    <2> QED BY <1>1, <2>1, <2>2
  <1>7. KindsOf(r) = t
    BY <1>1, <1>4, <1>5, <1>6, SeqEqual
  <1> QED BY <1>7 DEF r, t

LEMMA KindsOfFront ==
  ASSUME NEW q \in Seq(Frames), q # <<>>
  PROVE  KindsOf(q) = <<q[Len(q)].kind>> \o KindsOf(SubSeq(q, 1, Len(q) - 1))
  <1> DEFINE r == SubSeq(q, 1, Len(q) - 1)
             f == q[Len(q)]
             t == <<f.kind>> \o KindsOf(r)
  <1>1. /\ r \in Seq(Frames) /\ Len(r) = Len(q) - 1 /\ Len(q) \in Nat \ {0} /\ f \in Frames
        /\ \A n \in 1..Len(q) - 1 : r[n] = q[n]
    BY FrontOf, ElementOfSeq
  <1>2. <<f.kind>> \in Seq(Kinds) /\ Len(<<f.kind>>) = 1 /\ <<f.kind>>[1] = f.kind
    BY <1>1 DEF Frames
  <1>3. /\ KindsOf(q) \in Seq(Kinds) /\ Len(KindsOf(q)) = Len(q)
        /\ \A i \in 1..Len(q) : KindsOf(q)[i] = q[Len(q) - i + 1].kind
    BY KindsOfSeq
  <1> HIDE DEF r
  <1>4. /\ KindsOf(r) \in Seq(Kinds) /\ Len(KindsOf(r)) = Len(r)
        /\ \A i \in 1..Len(r) : KindsOf(r)[i] = r[Len(r) - i + 1].kind
    BY <1>1, KindsOfSeq
  <1>5. /\ t \in Seq(Kinds) /\ Len(t) = 1 + Len(r)
        /\ \A i \in 1..1 + Len(r) : t[i] = IF i <= 1 THEN <<f.kind>>[i] ELSE KindsOf(r)[i - 1]
    BY <1>2, <1>4, ConcatProperties
  <1> HIDE DEF t
  <1>6. ASSUME NEW i \in 1..Len(q) PROVE KindsOf(q)[i] = t[i]
    <2>1. CASE i = 1
      BY <1>1, <1>2, <1>3, <1>5, <2>1
    <2>2. CASE i # 1
      <3>1. /\ i - 1 \in 1..Len(r) /\ Len(r) - (i - 1) + 1 = Len(q) - i + 1
            /\ Len(q) - i + 1 \in 1..Len(q) - 1 /\ ~(i <= 1) /\ i \in 1..1 + Len(r)
        BY <1>1, <2>2
      <3>2. KindsOf(r)[i - 1] = r[Len(r) - (i - 1) + 1].kind
        BY <1>4, <3>1
      <3>3. r[Len(q) - i + 1] = q[Len(q) - i + 1]
        BY <1>1, <3>1
      <3> QED BY <1>3, <1>5, <3>1, <3>2, <3>3
    <2> QED BY <2>1, <2>2
  <1>7. KindsOf(q) = t
    BY <1>1, <1>3, <1>5, <1>6, SeqEqual
  <1> QED BY <1>7 DEF r, t

(* A pin from which a frame was requested has none, and an orderly user    *)
(* whose queue is not being read has nothing asked from the producer.      *)
RequestsEmpty == \A e \in requested : data[e] = None

NothingAsked ==
  orderly /\ ~reading /\ "in" \notin toReset => data["in"] = None /\ "in" \notin requested

FInv == IInv /\ RequestsEmpty /\ NothingAsked

LEMMA StepFInv ==
  ASSUME FInv, IInv', Step, UNCHANGED orderly
  PROVE  RequestsEmpty' /\ NothingAsked'
  <1> USE DEF FInv, RequestsEmpty, NothingAsked
  <1>0. /\ conn \subseteq Ends /\ requested \subseteq conn /\ data \in [Ends -> Frames \cup {None}]
        /\ \A e \in Ends : data[e] # None => e \in conn
    BY DEF IInv, PinsOK
  <1>1. CASE QueueReset
    <2>1. /\ \A e \in Ends : data'[e] = None <=> data[e] = None
          /\ requested' = requested /\ toReset' = conn
      <3>1. \A e \in Ends : data[e] # None => [data[e] EXCEPT !.stale = TRUE] # None
        BY <1>0, NoneAssumption DEF Frames
      <3> QED BY <1>1, <3>1 DEF QueueReset
    <2> QED BY <1>0, <2>1 DEF Ends
  <1>2. CASE \/ Resume \/ ResumeReading \/ SetNotifier
             \/ \E c \in Configs : SetConfig(c)
    <2>1. UNCHANGED <<data, requested, toReset>> /\ (reading => reading')
      BY <1>2 DEF Resume, ResumeReading, SetNotifier, SetConfig, pinVars, queueVars
    <2> QED BY <2>1
  <1>3. ASSUME NEW e \in Ends, CreateFilter(e) PROVE RequestsEmpty' /\ NothingAsked'
    BY <1>3 DEF CreateFilter, queueVars
  <1>4. CASE FreeQueue
    <2>1. UNCHANGED <<data, requested, toReset, conn>> /\ (reading' = reading \/ refcount = 1)
      BY <1>4 DEF FreeQueue, Unref, pinVars, queueVars
    <2>2. refcount = 1 => conn' = {}
      BY <1>4 DEF FreeQueue, Unref, IInv, RefsCounted, AliveWhileUsed
    <2> QED BY <1>0, <2>1, <2>2 DEF Ends
  <1>5. ASSUME NEW e \in Ends, FreeFilter(e) PROVE RequestsEmpty' /\ NothingAsked'
    <2>1. /\ data' = [data EXCEPT ![e] = None] /\ requested' = requested \ {e}
          /\ toReset' = toReset \ {e} /\ conn' = conn \ {e}
          /\ (reading' = reading \/ refcount = 1)
      BY <1>5 DEF FreeFilter, Unref, queueVars
    <2>2. refcount = 1 => conn' = {}
      BY <1>5 DEF FreeFilter, Unref, IInv, RefsCounted, AliveWhileUsed
    <2> QED BY <1>0, <2>1, <2>2 DEF Ends
  <1>6. ASSUME NEW e \in Ends, FilterReset(e) PROVE RequestsEmpty' /\ NothingAsked'
    BY <1>0, <1>6 DEF FilterReset, queueVars, Ends
  <1>7. CASE ProcessIn
    <2>1. /\ data' = data \/ data' = [data EXCEPT !["in"] = None]
          /\ requested' = requested \/ (requested' = requested \cup {"in"} /\ reading)
          /\ requested' # requested => data'["in"] = None
          /\ toReset' = toReset /\ reading' = reading
      <3>1. /\ data' = data \/ data' = [data EXCEPT !["in"] = None]
            /\ toReset' = toReset /\ reading' = reading
        BY <1>7 DEF ProcessIn, Discard, Accept, Request, NoRoom, queueVars
      <3>2. requested' = requested \/ (requested' = requested \cup {"in"} /\ reading)
        BY <1>7 DEF ProcessIn, Discard, Accept, Request, NoRoom
      <3>3. requested' # requested => data'["in"] = None
        BY <1>0, <1>7 DEF ProcessIn, Discard, Accept, Request, NoRoom, Ends
      <3> QED BY <3>1, <3>2, <3>3
    <2> QED BY <1>0, <2>1 DEF Ends
  <1>8. CASE ProcessOut
    <2>1. CASE active /\ "out" \in requested /\ frames # <<>>
      <3>1. /\ data' = [data EXCEPT !["out"] = frames[Len(frames)]]
            /\ requested' = requested \ {"out"} /\ toReset' = toReset /\ reading' = TRUE
        BY <1>8, <2>1 DEF ProcessOut
      <3> QED BY <1>0, <3>1 DEF Ends
    <2>2. CASE ~(active /\ "out" \in requested /\ frames # <<>>)
      <3>1. UNCHANGED <<data, requested, toReset>> /\ (reading => reading')
        BY <1>8, <2>2 DEF ProcessOut, queueVars
      <3> QED BY <3>1
    <2> QED BY <2>1, <2>2
  <1>9. ASSUME NEW k \in Kinds, Deliver(k) PROVE RequestsEmpty' /\ NothingAsked'
    BY <1>0, <1>9 DEF Deliver, queueVars, Ends
  <1>10. CASE SinkRequest \/ SinkRead
    BY <1>0, <1>10 DEF SinkRequest, SinkRead, queueVars, Ends
  <1> QED BY <1>1, <1>2, <1>3, <1>4, <1>5, <1>6, <1>7, <1>8, <1>9, <1>10 DEF Step

LEMMA NextFInv == FInv /\ [Next]_vars => FInv'
  <1> SUFFICES ASSUME FInv, [Next]_vars PROVE FInv'
    OBVIOUS
  <1>1. IInv'
    BY NextIInv DEF FInv
  <1>2. CASE Step /\ UNCHANGED orderly
    BY <1>1, <1>2, StepFInv DEF FInv
  <1>3. CASE (NotifierRuns /\ UNCHANGED orderly) \/ UNCHANGED vars
    <2>1. UNCHANGED <<data, requested, toReset, reading, orderly>>
      BY <1>3 DEF NotifierRuns, vars, queueVars, pinVars
    <2> QED BY <1>1, <2>1 DEF FInv, RequestsEmpty, NothingAsked
  <1> QED BY <1>2, <1>3 DEF Next

LEMMA InitFInv == Init => FInv
  BY InitIInv DEF FInv, Init, RequestsEmpty, NothingAsked, Ends

(* What is in the pins and in the queue of an orderly user.                *)
LEMMA TransitTyped ==
  ASSUME IInv
  PROVE  /\ InTransit("in") \in Seq(Kinds) /\ InTransit("out") \in Seq(Kinds)
         /\ KindsOf(frames) \in Seq(Kinds)
  <1>1. ASSUME NEW e \in Ends PROVE InTransit(e) \in Seq(Kinds)
    <2>1. data[e] = None \/ data[e] \in Frames
      BY DEF IInv, PinsOK
    <2>2. \A k \in Kinds : <<k>> \in Seq(Kinds)
      OBVIOUS
    <2> QED BY <2>1, <2>2, EmptySeq DEF InTransit, Frames
  <1>2. KindsOf(frames) \in Seq(Kinds)
    BY KindsOfSeq DEF IInv, PinsOK
  <1>3. InTransit("in") \in Seq(Kinds) /\ InTransit("out") \in Seq(Kinds)
    BY <1>1 DEF Ends
  <1> QED BY <1>2, <1>3

(* What a step of the queue may do to its stream.                          *)
StreamStep ==
  \/ \E k \in Kinds : Carried' = Append(Carried, k) /\ Running' = Running
  \/ Carried # <<>> /\ Carried' = Tail(Carried) /\ Running' = Running
  \/ Running' = TRUE /\ Carried' = Carried
  \/ Running' = FALSE /\ Stream!IsCut(Carried', Carried)
  \/ ~Running /\ Stream!IsCut(Carried', Carried) /\ Running' = Running
  \/ UNCHANGED <<Carried, Running>>

LEMMA StreamStepMaps ==
  ASSUME StreamStep
  PROVE  [Stream!Next]_(Stream!sVars)
  BY DEF StreamStep, Stream!Next, Stream!sVars, Stream!Put, Stream!Get,
     Stream!Start, Stream!Stop, Stream!Lose

(* The three parts of the stream decide it, and what a part became.        *)
LEMMA CarriedIs ==
  ASSUME orderly, orderly'
  PROVE  /\ Carried = (InTransit("out") \o KindsOf(frames)) \o InTransit("in")
         /\ Carried' = (InTransit("out")' \o KindsOf(frames)') \o InTransit("in")'
         /\ active' = active => Running' = Running
         /\ active' = TRUE => Running' = TRUE
         /\ active' = FALSE => Running' = FALSE
         /\ ~active => ~Running
  <1>1. /\ Carried = (InTransit("out") \o KindsOf(frames)) \o InTransit("in")
        /\ Carried' = (InTransit("out")' \o KindsOf(frames)') \o InTransit("in")'
    BY DEF Carried
  <1> QED BY <1>1 DEF Running

LEMMA SameStream ==
  ASSUME IInv, orderly, orderly', UNCHANGED <<data, frames>>
  PROVE  Carried' = Carried
  <1>1. InTransit("out")' = InTransit("out") /\ InTransit("in")' = InTransit("in")
    BY DEF InTransit
  <1>2. KindsOf(frames)' = KindsOf(frames)
    OBVIOUS
  <1> QED BY <1>1, <1>2, CarriedIs

(* The piece between the pins, or what is in one of them, may be cut out.  *)
LEMMA CutsPart ==
  ASSUME IInv, orderly, orderly'
  PROVE  /\ frames' = <<>> /\ UNCHANGED <<InTransit("out"), InTransit("in")>>
              => Stream!IsCut(Carried', Carried)
         /\ \A e \in Ends :
              frames' = frames /\ data' = [data EXCEPT ![e] = None]
                => Stream!IsCut(Carried', Carried)
         /\ Carried' = <<>> => Stream!IsCut(Carried', Carried)
  <1> DEFINE A == InTransit("out")
             B == KindsOf(frames)
             C == InTransit("in")
  <1>1. A \in Seq(Kinds) /\ B \in Seq(Kinds) /\ C \in Seq(Kinds)
    BY TransitTyped
  <1>2. Carried = (A \o B) \o C /\ Carried' = (A' \o B') \o C'
    BY CarriedIs
  <1>3. ASSUME frames' = <<>>, UNCHANGED <<A, C>> PROVE Stream!IsCut(Carried', Carried)
    <2>1. B' = <<>>
      BY <1>3, KindsOfNone
    <2>2. Carried' = A \o C
      <3>1. A \o <<>> = A
        BY <1>1, ConcatEmptySeq
      <3> QED BY <1>2, <1>3, <2>1, <3>1
    <2> HIDE DEF A, B, C
    <2> QED BY <1>1, <1>2, <2>2, CutMiddle
  <1>4. ASSUME frames' = frames, data' = [data EXCEPT !["out"] = None]
        PROVE  Stream!IsCut(Carried', Carried)
    <2>1. A' = <<>> /\ C' = C /\ B' = B
      BY <1>4 DEF InTransit, IInv, PinsOK, Ends
    <2> HIDE DEF A, B, C
    <2> QED BY <1>1, <1>2, <2>1, CutFirst
  <1>5. ASSUME frames' = frames, data' = [data EXCEPT !["in"] = None]
        PROVE  Stream!IsCut(Carried', Carried)
    <2>1. C' = <<>> /\ A' = A /\ B' = B
      BY <1>5 DEF InTransit, IInv, PinsOK, Ends
    <2> HIDE DEF A, B, C
    <2> QED BY <1>1, <1>2, <2>1, CutLast
  <1>6. ASSUME Carried' = <<>> PROVE Stream!IsCut(Carried', Carried)
    <2>1. (A \o B) \o C \in Seq(Kinds)
      BY <1>1, ConcatProperties
    <2> HIDE DEF A, B, C
    <2> QED BY <1>2, <1>6, <2>1, CutAll
  <1> QED BY <1>3, <1>4, <1>5, <1>6 DEF Ends

LEMMA QueueResetStream ==
  ASSUME IInv, orderly, orderly', QueueReset
  PROVE  StreamStep
  <1>1. active' = FALSE /\ frames' = <<>>
    BY DEF QueueReset, ClearQueue
  <1>2. \A e \in Ends : IF data[e] = None THEN data'[e] = None
                          ELSE data'[e] # None /\ data'[e].kind = data[e].kind
    <2> SUFFICES ASSUME NEW e \in Ends, data[e] # None
                 PROVE  data'[e] # None /\ data'[e].kind = data[e].kind
      BY DEF QueueReset
    <2>1. data[e] \in Frames
      BY DEF IInv, PinsOK
    <2>2. data'[e] = [data[e] EXCEPT !.stale = TRUE]
      BY DEF QueueReset
    <2>3. data'[e] \in Frames /\ data'[e].kind = data[e].kind
      BY <2>1, <2>2 DEF Frames
    <2> QED BY <2>3, NoneAssumption
  <1>3. UNCHANGED <<InTransit("out"), InTransit("in")>>
    BY <1>2 DEF InTransit, Ends
  <1>4. Stream!IsCut(Carried', Carried)
    BY <1>1, <1>3, CutsPart
  <1> QED BY <1>1, <1>4, CarriedIs DEF StreamStep

(* The last reference is dropped by the user without a filter, or by a     *)
(* filter without the user and the other filter.                           *)
LEMMA UnrefStream ==
  ASSUME IInv, IInv', orderly, orderly',
         \/ FreeQueue
         \/ \E e \in Ends : FreeFilter(e)
  PROVE  StreamStep
  <1>1. CASE refcount = 1
    <2>1. active' = FALSE /\ frames' = <<>> /\ freed' = TRUE
      BY <1>1 DEF FreeQueue, FreeFilter, Unref, ClearQueue
    <2>2. conn' = {}
      BY <2>1 DEF IInv, RefsCounted, AliveWhileUsed
    <2>3. \A e \in Ends : data'[e] = None
      BY <2>2 DEF IInv, PinsOK
    <2>4. InTransit("in")' = <<>> /\ InTransit("out")' = <<>> /\ KindsOf(frames)' = <<>>
      BY <2>1, <2>3, KindsOfNone DEF InTransit, Ends
    <2>5. <<>> \o <<>> = <<>>
      BY EmptySeq, ConcatEmptySeq
    <2>6. Carried' = <<>>
      BY <2>4, <2>5, CarriedIs
    <2> QED BY <2>1, <2>6, CarriedIs, CutsPart DEF StreamStep
  <1>2. CASE refcount # 1 /\ FreeQueue
    <2>1. UNCHANGED <<data, frames, active>>
      BY <1>2 DEF FreeQueue, Unref, pinVars, queueVars
    <2> QED BY <2>1, SameStream, CarriedIs DEF StreamStep
  <1>3. ASSUME NEW e \in Ends, refcount # 1, FreeFilter(e) PROVE StreamStep
    <2>1. frames' = frames /\ active' = active /\ data' = [data EXCEPT ![e] = None] /\ ~active
      BY <1>3 DEF FreeFilter, Unref, queueVars
    <2> QED BY <2>1, CutsPart, CarriedIs DEF StreamStep
  <1> QED BY <1>1, <1>2, <1>3

LEMMA FilterResetStream ==
  ASSUME IInv, orderly, orderly', NEW e \in Ends, FilterReset(e)
  PROVE  StreamStep
  <1>1. frames' = frames /\ active' = active /\ data' = [data EXCEPT ![e] = None] /\ e \in toReset
    BY DEF FilterReset, queueVars
  <1>2. ~active
    BY <1>1 DEF IInv, Fresh
  <1> QED BY <1>1, <1>2, CutsPart, CarriedIs DEF StreamStep

(* process_in() hands the frame of the producer's pin to the queue; it     *)
(* only drops one that an inactive queue was given before its reset.       *)
LEMMA ProcessInStream ==
  ASSUME FInv, IInv, orderly, orderly', ProcessIn
  PROVE  StreamStep
  <1>1. CASE Discard
    <2>1. frames' = frames /\ active' = active /\ data' = [data EXCEPT !["in"] = None] /\ ~reading
      BY <1>1 DEF Discard, queueVars
    <2>2. CASE active
      <3>1. data["in"] = None /\ "in" \in Ends /\ data \in [Ends -> Frames \cup {None}]
        BY <2>1, <2>2 DEF FInv, NothingAsked, IInv, Fresh, Ends, PinsOK
      <3>2. data' = data
        BY <2>1, <3>1
      <3> QED BY <2>1, <3>2, SameStream, CarriedIs DEF StreamStep
    <2>3. CASE ~active
      BY <2>1, <2>3, CutsPart, CarriedIs DEF StreamStep, Ends
    <2> QED BY <2>2, <2>3
  <1>2. CASE Accept
    <2> DEFINE A == InTransit("out")
               B == KindsOf(frames)
               f == data["in"]
    <2>1. /\ f \in Frames /\ frames \in Seq(Frames) /\ data \in [Ends -> Frames \cup {None}]
          /\ frames' = <<f>> \o frames /\ active' = active /\ f # None
          /\ data' = [data EXCEPT !["in"] = None]
      BY <1>2 DEF Accept, IInv, PinsOK, Ends
    <2>2. InTransit("in") = <<f.kind>> /\ InTransit("in")' = <<>> /\ InTransit("out")' = A
      BY <2>1 DEF InTransit, Ends
    <2>3. KindsOf(frames)' = B \o <<f.kind>>
      <3>1. KindsOf(frames)' = KindsOf(<<f>> \o frames)
        BY <2>1
      <3> QED BY <2>1, <3>1, KindsOfPrepend
    <2>4. A \in Seq(Kinds) /\ B \in Seq(Kinds) /\ <<f.kind>> \in Seq(Kinds)
      BY <2>2, TransitTyped
    <2>5. Carried = (A \o B) \o <<f.kind>> /\ Carried' = (A \o (B \o <<f.kind>>)) \o <<>>
      BY <2>2, <2>3, CarriedIs
    <2> HIDE DEF A, B, f
    <2>6. A \o (B \o <<f.kind>>) \in Seq(Kinds)
      BY <2>4, ConcatProperties
    <2>7. Carried' = Carried
      BY <2>4, <2>5, <2>6, ConcatEmptySeq, ConcatAssociative
    <2> QED BY <2>1, <2>7, CarriedIs DEF StreamStep
  <1>3. CASE Request \/ NoRoom
    <2>1. UNCHANGED <<data, frames, active>>
      BY <1>3 DEF Request, NoRoom, queueVars
    <2> QED BY <2>1, SameStream, CarriedIs DEF StreamStep
  <1> QED BY <1>1, <1>2, <1>3 DEF ProcessIn

(* process_out() hands the oldest frame to the consumer's pin.             *)
LEMMA ProcessOutStream ==
  ASSUME FInv, IInv, orderly, orderly', ProcessOut
  PROVE  StreamStep
  <1>1. CASE active /\ "out" \in requested /\ frames # <<>>
    <2> DEFINE f == frames[Len(frames)]
               r == SubSeq(frames, 1, Len(frames) - 1)
               C == InTransit("in")
    <2>1. /\ frames \in Seq(Frames) /\ data["out"] = None /\ f \in Frames /\ r \in Seq(Frames)
          /\ data \in [Ends -> Frames \cup {None}]
      BY <1>1, FrontOf DEF FInv, RequestsEmpty, IInv, PinsOK
    <2>2. frames' = r /\ active' = active /\ data' = [data EXCEPT !["out"] = f]
      BY <1>1 DEF ProcessOut
    <2>3. InTransit("out") = <<>> /\ InTransit("out")' = <<f.kind>> /\ InTransit("in")' = C
      <3>1. f # None
        BY <2>1, NoneAssumption
      <3> HIDE DEF f
      <3> QED BY <2>1, <2>2, <3>1 DEF InTransit, Ends
    <2>4. KindsOf(frames) = <<f.kind>> \o KindsOf(r)
      BY <1>1, <2>1, KindsOfFront
    <2>5. KindsOf(frames) \in Seq(Kinds)
      BY TransitTyped
    <2>6. <<>> \o KindsOf(frames) = KindsOf(frames)
      BY <2>5, ConcatEmptySeq
    <2>7. Carried = KindsOf(frames) \o C /\ Carried' = (<<f.kind>> \o KindsOf(r)) \o C
      BY <2>2, <2>3, <2>6, CarriedIs
    <2>8. Carried' = Carried
      BY <2>4, <2>7
    <2> QED BY <2>2, <2>8, CarriedIs DEF StreamStep
  <1>2. CASE ~(active /\ "out" \in requested /\ frames # <<>>)
    <2>1. UNCHANGED <<data, frames, active>>
      BY <1>2 DEF ProcessOut, queueVars
    <2> QED BY <2>1, SameStream, CarriedIs DEF StreamStep
  <1> QED BY <1>1, <1>2

LEMMA DeliverStream ==
  ASSUME FInv, IInv, orderly, orderly', NEW k \in Kinds, Deliver(k)
  PROVE  StreamStep
  <1> DEFINE AB == InTransit("out") \o KindsOf(frames)
  <1>1. /\ data["in"] = None /\ frames' = frames /\ active' = active
        /\ data' = [data EXCEPT !["in"] = [kind |-> k, stale |-> srcStale]]
        /\ data \in [Ends -> Frames \cup {None}]
    BY DEF Deliver, queueVars, FInv, RequestsEmpty, IInv, PinsOK
  <1>2. [kind |-> k, stale |-> srcStale] # None
    <2>1. [kind |-> k, stale |-> srcStale] \in Frames
      BY DEF IInv, PinsOK, Frames
    <2> QED BY <2>1, NoneAssumption
  <1>3. InTransit("in") = <<>> /\ InTransit("in")' = <<k>> /\ AB' = AB
    BY <1>1, <1>2 DEF InTransit, Ends
  <1>4. AB \in Seq(Kinds)
    BY TransitTyped, ConcatProperties
  <1>5. Carried = AB \o <<>> /\ Carried' = AB \o <<k>>
    BY <1>3, CarriedIs
  <1> HIDE DEF AB
  <1>6. Carried' = Append(Carried, k)
    BY <1>4, <1>5, ConcatEmptySeq, AppendIsConcat
  <1> QED BY <1>1, <1>6, CarriedIs DEF StreamStep

LEMMA SinkReadStream ==
  ASSUME IInv, orderly, orderly', SinkRead
  PROVE  StreamStep
  <1> DEFINE k == data["out"].kind
             B == KindsOf(frames)
             C == InTransit("in")
             BC == B \o C
  <1>1. /\ data["out"] \in Frames /\ data["out"] # None /\ frames' = frames /\ active' = active
        /\ data' = [data EXCEPT !["out"] = None] /\ data \in [Ends -> Frames \cup {None}]
    BY DEF SinkRead, queueVars, IInv, PinsOK, Ends
  <1>2. k \in Kinds
    BY <1>1 DEF Frames
  <1>3. InTransit("out") = <<k>> /\ InTransit("out")' = <<>> /\ C' = C /\ B' = B
    BY <1>1 DEF InTransit, Ends
  <1>4. B \in Seq(Kinds) /\ C \in Seq(Kinds) /\ <<k>> \in Seq(Kinds)
    BY <1>2, TransitTyped
  <1>5. Carried = (<<k>> \o B) \o C /\ Carried' = (<<>> \o B) \o C
    BY <1>3, CarriedIs
  <1> HIDE DEF k, B, C
  <1>6. Carried = <<k>> \o BC /\ Carried' = BC /\ BC \in Seq(Kinds)
    BY <1>4, <1>5, ConcatAssociative, ConcatEmptySeq, ConcatProperties
  <1> HIDE DEF BC
  <1>7. Carried # <<>> /\ Tail(Carried) = BC
    BY <1>2, <1>6
  <1> QED BY <1>1, <1>6, <1>7, CarriedIs DEF StreamStep

LEMMA NextStream ==
  ASSUME FInv, IInv', [Next]_vars
  PROVE  StreamStep
  <1>1. orderly' = orderly
    BY DEF Next, vars
  <1>2. CASE ~orderly
    BY <1>1, <1>2 DEF Carried, Running, StreamStep
  <1>3. CASE orderly
    <2>1. orderly' /\ IInv
      BY <1>1, <1>3 DEF FInv
    <2>2. CASE \/ QueueReset \/ FreeQueue \/ ProcessIn \/ ProcessOut \/ SinkRead
               \/ \E e \in Ends : FreeFilter(e) \/ FilterReset(e)
               \/ \E k \in Kinds : Deliver(k)
      BY <1>3, <2>1, <2>2, QueueResetStream, UnrefStream, ProcessInStream, ProcessOutStream,
         SinkReadStream, FilterResetStream, DeliverStream
    <2>3. CASE Resume \/ ResumeReading
      <3>1. UNCHANGED <<data, frames>> /\ active' = TRUE
        BY <2>3 DEF Resume, ResumeReading, pinVars
      <3> QED BY <1>3, <2>1, <3>1, SameStream, CarriedIs DEF StreamStep
    <2>4. CASE \/ SetNotifier \/ SinkRequest \/ NotifierRuns \/ UNCHANGED vars
               \/ \E c \in Configs : SetConfig(c)
               \/ \E e \in Ends : CreateFilter(e)
      <3>1. UNCHANGED <<data, frames, active>>
        BY <2>4 DEF SetNotifier, SinkRequest, NotifierRuns, SetConfig, CreateFilter, vars,
           queueVars, pinVars
      <3> QED BY <1>3, <2>1, <3>1, SameStream, CarriedIs DEF StreamStep
    <2> QED BY <2>2, <2>3, <2>4 DEF Next, Step
  <1> QED BY <1>2, <1>3

LEMMA InitStream == Init => Stream!Init
  <1> SUFFICES ASSUME Init PROVE Carried = <<>> /\ Running = FALSE
    BY DEF Stream!Init
  <1>1. InTransit("in") = <<>> /\ InTransit("out") = <<>> /\ frames = <<>>
    BY DEF Init, InTransit, Ends
  <1>2. <<>> \o <<>> = <<>>
    BY EmptySeq, ConcatEmptySeq
  <1> QED BY <1>1, <1>2, KindsOfNone DEF Init, Carried, Running

(* For a user who follows the proper global reset, every step of the queue *)
(* and of its filters puts a frame at the end of one stream, takes the     *)
(* oldest, leaves the stream alone, or cuts a piece out of it while the    *)
(* queue is or becomes inactive.                                           *)
THEOREM ImplementsFrameStream == Spec => ImplementsStream
  <1>1. Init => FInv /\ Stream!Init
    BY InitFInv, InitStream
  <1>2. FInv /\ [Next]_vars => FInv'
    BY NextFInv
  <1>3. FInv /\ FInv' /\ [Next]_vars => [Stream!Next]_(Stream!sVars)
    <2> SUFFICES ASSUME FInv, FInv', [Next]_vars PROVE [Stream!Next]_(Stream!sVars)
      OBVIOUS
    <2>1. IInv'
      BY DEF FInv
    <2> QED BY <2>1, NextStream, StreamStepMaps
  <1> QED BY <1>1, <1>2, <1>3, PTL DEF Spec, ImplementsStream, Stream!Spec
==============================================================================

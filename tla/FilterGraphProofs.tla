-------------------------- MODULE FilterGraphProofs --------------------------
(***************************************************************************)
(* Proofs about FilterGraph: the runner's arrays hold what they should,    *)
(* and a user that sleeps leaves a graph behind in which no filter could   *)
(* go on, for any graph of sources, converters and sinks.                  *)
(***************************************************************************)
EXTENDS FilterGraph, SequenceLemmas

(* The arrays, as lists of filters without repetition.                     *)
ArraysOK ==
  /\ Lists(queue, pending, Nodes)
  /\ Lists(async_pending, ToSet(async_pending), Filters)
  /\ pending \cup ToSet(async_pending) \subseteq alive \cup {Root}

(* The other variables, from TypeOK.                                       *)
OthersOK ==
  /\ alive \subseteq Filters
  /\ async_wakeup_sent \in BOOLEAN /\ interrupt_flag \in BOOLEAN /\ external_pending \in BOOLEAN
  /\ exit_req \in BOOLEAN /\ wake \in BOOLEAN
  /\ recursive \in External \cup {None}
  /\ requested \subseteq Edges /\ data \subseteq Edges
  /\ unseen \subseteq External /\ cutoff \subseteq alive
  /\ ready \in [Filters -> BOOLEAN] /\ need_wakeup \in [Filters -> BOOLEAN]
  /\ pc \in {"think", "enter", "top", "refill", "pick", "wait"}
  /\ interrupts \in 0..MaxInterrupts

(* Nothing is requested from a filter that was freed.                      *)
RequestsConnected == \A e \in requested : Connected(e)

GInv == ArraysOK /\ OthersOK /\ RequestsConnected

LEMMA GInvSays == GInv => TypeOK /\ PendingMatches
<1> SUFFICES ASSUME GInv PROVE TypeOK /\ PendingMatches
  OBVIOUS
<1>1. pending \subseteq Nodes
  BY ElementsOf DEF GInv, ArraysOK, Lists
<1>2. {async_wakeup_sent, interrupt_flag, external_pending, exit_req, wake} \subseteq BOOLEAN
  BY DEF GInv, OthersOK
<1>3. {requested, data} \subseteq SUBSET Edges /\ {ready, need_wakeup} \subseteq [Filters -> BOOLEAN]
  BY DEF GInv, OthersOK
<1>4. TypeOK
  BY <1>1, <1>2, <1>3 DEF GInv, ArraysOK, OthersOK, Lists, TypeOK
<1> QED
  BY <1>4 DEF GInv, ArraysOK, Lists, PendingMatches

-----------------------------------------------------------------------------
(* The arrays *)

(* add_pending() adds a filter that is not there yet, once.                *)
LEMMA AddToLists ==
  ASSUME NEW Item, NEW q, NEW S, Lists(q, S, Item), NEW x \in Item, NEW high
  PROVE  Lists(AddTo(q, x, high), S \cup {x}, Item)
<1>1. CASE x \in S
  BY <1>1 DEF AddTo, Lists
<1>2. CASE x \notin S
  BY <1>2, AppendLists, PrependLists DEF AddTo, Lists
<1> QED
  BY <1>1, <1>2

(* flush_async_notifications() and the like add several.                   *)
LEMMA AddPendingLists ==
  ASSUME NEW Item, NEW q, NEW S, Lists(q, S, Item), NEW s \in Seq(Item), NEW high
  PROVE  Lists(AddPending(q, s, high), S \cup ToSet(s), Item)
<1> DEFINE N == Len(s)
           X == {y \in Seq(Item) : IsInjective(y)}
           step == [n \in 1..N |-> [y \in X |-> AddTo(y, s[n], high)]]
           Def(g) == g = [n \in 0..N |-> IF n = 0 THEN q ELSE AddTo(g[n - 1], s[n], high)]
<1>1. N \in Nat /\ (\A n \in 1..N : s[n] \in Item) /\ DOMAIN s = 1..N
  BY LenProperties, ElementOfSeq
<1>2. ASSUME NEW y \in X, NEW n \in 1..N PROVE AddTo(y, s[n], high) \in X
  <2>1. Lists(y, ToSet(y), Item)
    BY DEF Lists
  <2>2. Lists(AddTo(y, s[n], high), ToSet(y) \cup {s[n]}, Item)
    BY <1>1, <2>1, AddToLists
  <2> QED
    BY <2>2 DEF Lists
<1>3. q \in X /\ step \in [1..N -> [X -> X]]
  BY <1>2 DEF Lists
<1>4. PICK f \in [0..N -> X] : Iterates(f, q, step, N)
  <2> HIDE DEF step, N, X
  <2> QED BY <1>1, <1>3, IterationExists
<1>5. \A n \in 1..N : f[n] = AddTo(f[n - 1], s[n], high)
  <2> SUFFICES ASSUME NEW n \in 1..N PROVE f[n] = AddTo(f[n - 1], s[n], high)
    OBVIOUS
  <2>1. f[n - 1] \in X /\ f[n] = step[n][f[n - 1]]
    <3> HIDE DEF step, N, X
    <3> QED BY <1>1, <1>4 DEF Iterates
  <2> QED
    BY <2>1
<1>6. Def(f)
  <2> HIDE DEF step, N, X
  <2> QED BY <1>1, <1>4, <1>5 DEF Iterates
<1> DEFINE g == CHOOSE g : Def(g)
<1>7. Def(g) /\ AddPending(q, s, high) = g[N]
  BY <1>6 DEF AddPending
<1>8. g[0] = q /\ \A n \in 1..N : g[n] = AddTo(g[n - 1], s[n], high)
  <2> HIDE DEF N, g
  <2> QED BY <1>1, <1>7
<1> DEFINE Upto(n) == S \cup {s[i] : i \in 1..n}
           Good == {n \in Nat : n <= N => Lists(g[n], Upto(n), Item)}
<1>9. 0 \in Good
  <2> HIDE DEF g
  <2>1. Upto(0) = S /\ g[0] = q
    BY <1>8
  <2> HIDE DEF Upto
  <2> QED BY <2>1
<1>10. ASSUME NEW n \in Nat, n \in Good PROVE n + 1 \in Good
  <2> HIDE DEF g
  <2> SUFFICES ASSUME n + 1 <= N PROVE Lists(g[n + 1], Upto(n + 1), Item)
    OBVIOUS
  <2>1. Lists(g[n], Upto(n), Item)
    BY <1>1, <1>10
  <2>2. g[n + 1] = AddTo(g[n], s[n + 1], high)
    <3> HIDE DEF N
    <3> QED BY <1>1, <1>8
  <2>3. Upto(n + 1) = Upto(n) \cup {s[n + 1]}
    OBVIOUS
  <2>4. s[n + 1] \in Item
    BY <1>1
  <2> HIDE DEF Upto
  <2> QED
    BY <2>1, <2>2, <2>3, <2>4, AddToLists
<1>11. N \in Good
  <2> HIDE DEF Good
  <2> QED BY <1>1, <1>9, <1>10, SetInduction
<1>12. Upto(N) = S \cup ToSet(s)
  BY <1>1 DEF ToSet
<1> HIDE DEF g, Upto
<1> QED
  BY <1>1, <1>7, <1>11, <1>12

(* add_pending_pin() makes the owner of a pin pending ...                  *)
LEMMA AddPendingPinStep ==
  ASSUME OthersOK, NEW S, NEW q, Lists(q, S, Nodes), NEW e \in Edges, NEW f \in Nodes,
         f = Root => Dst[e] = Root, AddPendingPin(e, f, q)
  PROVE  /\ Lists(queue', pending', Nodes) /\ pending' = S \cup {f}
         /\ external_pending' \in BOOLEAN /\ unseen' \subseteq External
<1>1. Lists(queue', S \cup {f}, Nodes) /\ pending' = S \cup {f}
  BY AddToLists DEF AddPendingPin, Lists
<1>2. external_pending' \in BOOLEAN /\ unseen' \subseteq External
  BY DEF AddPendingPin, OthersOK, External
<1> QED
  BY <1>1, <1>2

LEMMA NothingPendingStep ==
  ASSUME OthersOK, NEW S, NEW q, Lists(q, S, Nodes), NothingPending(q)
  PROVE  /\ Lists(queue', pending', Nodes) /\ pending' = S
         /\ external_pending' \in BOOLEAN /\ unseen' \subseteq External
BY DEF NothingPending, Lists, OthersOK

(* ... for a request the one that writes to it ...                         *)
LEMMA OutRequestStep ==
  ASSUME GInv, NEW S, NEW q, Lists(q, S, Nodes), S \subseteq alive \cup {Root},
         NEW e \in Edges, OutRequest(e, q)
  PROVE  /\ Lists(queue', pending', Nodes)
         /\ S \subseteq pending' /\ pending' \subseteq alive \cup {Root}
         /\ external_pending' \in BOOLEAN /\ unseen' \subseteq External
         /\ requested \subseteq requested' /\ requested' \subseteq requested \cup {e}
         /\ Connected(e) => e \in requested'
         /\ e \in requested' => Connected(e) /\ (e \in requested \/ Src[e] \in pending')
<1>1. CASE Connected(e) /\ e \notin requested
  <2>1. Src[e] \in alive \cup {Root} /\ Src[e] \in Nodes /\ Src[e] # Root
    BY <1>1, GraphAssumption DEF Connected, Nodes
  <2>2. requested' = requested \cup {e} /\ AddPendingPin(e, Src[e], q)
    BY <1>1 DEF OutRequest
  <2>3. /\ Lists(queue', pending', Nodes) /\ pending' = S \cup {Src[e]}
        /\ external_pending' \in BOOLEAN /\ unseen' \subseteq External
    BY <2>1, <2>2, AddPendingPinStep DEF GInv
  <2> QED
    BY <1>1, <2>1, <2>2, <2>3
<1>2. CASE ~(Connected(e) /\ e \notin requested)
  <2>1. requested' = requested /\ NothingPending(q)
    BY <1>2 DEF OutRequest
  <2>2. /\ Lists(queue', pending', Nodes) /\ pending' = S
        /\ external_pending' \in BOOLEAN /\ unseen' \subseteq External
    BY <2>1, NothingPendingStep DEF GInv
  <2> QED
    BY <1>2, <2>1, <2>2 DEF GInv, RequestsConnected
<1> QED
  BY <1>1, <1>2

(* ... and for a frame the one that reads it.                              *)
LEMMA InWriteStep ==
  ASSUME GInv, NEW S, NEW q, Lists(q, S, Nodes), S \subseteq alive \cup {Root},
         NEW e \in requested, NEW read, InWrite(e, read, q)
  PROVE  /\ Lists(queue', pending', Nodes)
         /\ S \subseteq pending' /\ pending' \subseteq alive \cup {Root}
         /\ external_pending' \in BOOLEAN /\ unseen' \subseteq External
         /\ requested' = requested \ {e} /\ Dst[e] \in pending'
         /\ data' \subseteq Edges
<1>1. e \in Edges /\ Dst[e] \in alive \cup {Root} /\ Dst[e] \in Nodes
  BY GraphAssumption DEF GInv, OthersOK, RequestsConnected, Connected
<1>2. /\ AddPendingPin(e, Dst[e], q) /\ requested' = requested \ {e}
      /\ data' = (data \ read) \cup {e}
  BY DEF InWrite
<1>3. /\ Lists(queue', pending', Nodes) /\ pending' = S \cup {Dst[e]}
      /\ external_pending' \in BOOLEAN /\ unseen' \subseteq External
  BY <1>1, <1>2, AddPendingPinStep DEF GInv
<1> QED
  BY <1>1, <1>2, <1>3 DEF GInv, OthersOK

(* mp_filter_wakeup() notes filters that exist.                            *)
LEMMA WakeupStep ==
  ASSUME GInv, NEW s \in Seq(Filters), FilterWakeup(s)
  PROVE  /\ Lists(async_pending', ToSet(async_pending'), Filters)
         /\ ToSet(async_pending') = ToSet(async_pending) \cup ToSet(s)
         /\ async_wakeup_sent' \in BOOLEAN /\ wake' \in BOOLEAN
<1>1. Lists(async_pending', ToSet(async_pending) \cup ToSet(s), Filters)
  BY AddPendingLists DEF FilterWakeup, GInv, ArraysOK
<1> QED
  BY <1>1 DEF Lists, FilterWakeup, GInv, OthersOK

(* flush_async_notifications() moves them to the pending array.            *)
LEMMA FlushStep ==
  ASSUME GInv
  PROVE  Lists(AddPending(queue, async_pending, HighPriority),
               pending \cup ToSet(async_pending), Nodes)
<1>1. async_pending \in Seq(Filters) /\ Filters \subseteq Nodes
  BY DEF GInv, ArraysOK, Lists, Nodes
<1>2. async_pending \in Seq(Nodes)
  BY <1>1, SeqMonotonic
<1> QED
  BY <1>2, AddPendingLists DEF GInv, ArraysOK

-----------------------------------------------------------------------------
(* The edges of a filter *)

LEMMA EdgeOf ==
  ASSUME NEW f \in Filters
  PROVE  /\ Kind[f] \in {"source", "converter", "sink"}
         /\ Kind[f] # "sink" => OutEdge(f) \in Edges /\ Src[OutEdge(f)] = f
         /\ Kind[f] # "source" => InEdge(f) \in Edges /\ Dst[InEdge(f)] = f
         /\ \A e \in Edges : /\ Src[e] = f => e = OutEdge(f)
                             /\ Dst[e] = f => e = InEdge(f)
<1>1. /\ Kind[f] \in {"source", "converter", "sink"}
      /\ Kind[f] # "sink" => \E e \in Edges : Src[e] = f
      /\ Kind[f] # "source" => \E e \in Edges : Dst[e] = f
      /\ \A e, g \in Edges : (Src[e] = f /\ Src[g] = f) \/ (Dst[e] = f /\ Dst[g] = f) => e = g
  BY GraphAssumption
<1>2. \A e \in Edges : Src[e] = f => OutEdge(f) \in Edges /\ Src[OutEdge(f)] = f
  BY DEF OutEdge
<1>3. \A e \in Edges : Dst[e] = f => InEdge(f) \in Edges /\ Dst[InEdge(f)] = f
  BY DEF InEdge
<1> QED
  BY <1>1, <1>2, <1>3

(* What a filter waits for changes with its own edges and flags only.      *)
LEMMA BlockedStays ==
  ASSUME NEW g \in Filters, Blocked(g), requested \subseteq Edges, requested' \subseteq Edges,
         ready'[g] = ready[g], need_wakeup'[g] = need_wakeup[g],
         \A e \in requested' \ requested : Src[e] # g,
         \A e \in requested \ requested' : Dst[e] # g,
         Kind[g] # "source" => (Connected(InEdge(g))' => Connected(InEdge(g)))
  PROVE  Blocked(g)'
<1>1. CASE Kind[g] = "source"
  BY <1>1, EdgeOf DEF Blocked
<1>2. CASE Kind[g] = "converter"
  BY <1>2, EdgeOf DEF Blocked
<1>3. CASE Kind[g] = "sink"
  BY <1>3, EdgeOf DEF Blocked
<1> QED
  BY <1>1, <1>2, <1>3, EdgeOf

-----------------------------------------------------------------------------
(* One filter's process() *)

(* Whoever is affected by a change of the requests is pending after it.    *)
TellsOthers(f) ==
  \A g \in alive \ {f} : Blocked(g) => Blocked(g)' \/ g \in pending'

ProcessOutcome(f, S) ==
  /\ Lists(queue', pending', Nodes)
  /\ S \subseteq pending' /\ pending' \subseteq alive \cup {Root}
  /\ external_pending' \in BOOLEAN /\ unseen' \subseteq External
  /\ requested' \subseteq Edges /\ data' \subseteq Edges
  /\ \A e \in requested' : Connected(e)
  /\ ready' \in [Filters -> BOOLEAN] /\ need_wakeup' \in [Filters -> BOOLEAN]
  /\ f # Root => Blocked(f)'
  /\ TellsOthers(f)

LEMMA TellsOthersIf ==
  ASSUME GInv, UNCHANGED alive, requested' \subseteq Edges, NEW f,
         \A g \in Filters \ {f} : ready'[g] = ready[g] /\ need_wakeup'[g] = need_wakeup[g],
         \A e \in requested' \ requested : Src[e] \in pending' \cup {f},
         \A e \in requested \ requested' : Dst[e] \in pending' \cup {f}
  PROVE  TellsOthers(f)
<1> SUFFICES ASSUME NEW g \in alive \ {f}, Blocked(g), g \notin pending'
             PROVE  Blocked(g)'
  BY DEF TellsOthers
<1>1. g \in Filters /\ requested \subseteq Edges
  BY DEF GInv, OthersOK
<1>2. Kind[g] # "source" => (Connected(InEdge(g))' => Connected(InEdge(g)))
  BY DEF Connected
<1> QED
  BY <1>1, <1>2, BlockedStays

(* A source or converter that writes a frame ...                           *)
LEMMA WriteOutcome ==
  ASSUME GInv, UNCHANGED alive, NEW f \in Filters, NEW S, NEW q, Lists(q, S, Nodes),
         S \subseteq alive \cup {Root}, Kind[f] # "sink", OutEdge(f) \in requested, NEW read,
         InWrite(OutEdge(f), read, q),
         ready' \in [Filters -> BOOLEAN], need_wakeup' \in [Filters -> BOOLEAN],
         \A g \in Filters \ {f} : ready'[g] = ready[g] /\ need_wakeup'[g] = need_wakeup[g]
  PROVE  ProcessOutcome(f, S)
<1> DEFINE o == OutEdge(f)
<1>1. /\ Lists(queue', pending', Nodes)
      /\ S \subseteq pending' /\ pending' \subseteq alive \cup {Root}
      /\ external_pending' \in BOOLEAN /\ unseen' \subseteq External
      /\ requested' = requested \ {o} /\ Dst[o] \in pending'
      /\ data' \subseteq Edges
  BY InWriteStep
<1>2. requested' \subseteq Edges /\ \A e \in requested' : Connected(e)
  BY <1>1 DEF GInv, OthersOK, RequestsConnected
<1>3. Blocked(f)'
  BY <1>1, EdgeOf DEF Blocked
<1>4. TellsOthers(f)
  BY <1>1, <1>2, TellsOthersIf
<1> QED
  BY <1>1, <1>2, <1>3, <1>4 DEF ProcessOutcome

(* ... a filter that asks for one ...                                      *)
LEMMA RequestOutcome ==
  ASSUME GInv, UNCHANGED <<alive, ready, need_wakeup>>, NEW f \in Filters, NEW S, NEW q,
         Lists(q, S, Nodes), S \subseteq alive \cup {Root}, Kind[f] # "source",
         OutRequest(InEdge(f), q), data' \subseteq Edges
  PROVE  ProcessOutcome(f, S)
<1> DEFINE i == InEdge(f)
<1>1. i \in Edges /\ Dst[i] = f
  BY EdgeOf
<1>2. /\ Lists(queue', pending', Nodes)
      /\ S \subseteq pending' /\ pending' \subseteq alive \cup {Root}
      /\ external_pending' \in BOOLEAN /\ unseen' \subseteq External
      /\ requested \subseteq requested' /\ requested' \subseteq requested \cup {i}
      /\ Connected(i) => i \in requested'
      /\ i \in requested' => Connected(i) /\ (i \in requested \/ Src[i] \in pending')
  BY <1>1, OutRequestStep
<1>3. requested' \subseteq Edges /\ \A e \in requested' : Connected(e)
  BY <1>1, <1>2 DEF GInv, OthersOK, RequestsConnected
<1>4. Blocked(f)'
  <2>1. Connected(i)' <=> Connected(i)
    BY DEF Connected
  <2> QED
    BY <1>2, <2>1, EdgeOf DEF Blocked
<1>5. TellsOthers(f)
  BY <1>2, <1>3, TellsOthersIf DEF GInv, OthersOK
<1> QED
  BY <1>2, <1>3, <1>4, <1>5 DEF ProcessOutcome, GInv, OthersOK

(* ... and one that has nothing to do.                                     *)
LEMMA IdleOutcome ==
  ASSUME GInv, UNCHANGED <<alive, requested>>, NEW f \in Nodes, NEW S, NEW q,
         Lists(q, S, Nodes), S \subseteq alive \cup {Root}, NothingPending(q), data' \subseteq Edges,
         ready' \in [Filters -> BOOLEAN], need_wakeup' \in [Filters -> BOOLEAN],
         \A g \in Filters \ {f} : ready'[g] = ready[g] /\ need_wakeup'[g] = need_wakeup[g],
         f # Root => Blocked(f)'
  PROVE  ProcessOutcome(f, S)
<1>1. /\ Lists(queue', pending', Nodes) /\ pending' = S
      /\ external_pending' \in BOOLEAN /\ unseen' \subseteq External
  BY NothingPendingStep DEF GInv
<1>2. requested' \subseteq Edges /\ \A e \in requested' : Connected(e)
  BY DEF GInv, OthersOK, RequestsConnected
<1>3. TellsOthers(f)
  BY <1>2, TellsOthersIf
<1> QED
  BY <1>1, <1>2, <1>3 DEF ProcessOutcome

LEMMA ProcessStep ==
  ASSUME GInv, UNCHANGED alive, NEW f \in Nodes, NEW S, NEW q, Lists(q, S, Nodes),
         S \subseteq alive \cup {Root}, Process(f, q)
  PROVE  ProcessOutcome(f, S)
<1> USE DEF GInv, OthersOK
<1>1. CASE f = Root
  <2>1. NothingPending(q) /\ UNCHANGED <<requested, data, ready, need_wakeup>>
    BY <1>1 DEF Process
  <2> QED
    BY <1>1, <2>1, IdleOutcome
<1>2. CASE f # Root /\ Kind[f] = "source"
  <2>0. f \in Filters /\ ProcessSource(f, q)
    BY <1>2 DEF Process, Nodes
  <2>1. CASE OutEdge(f) \in requested /\ ready[f]
    <3>1. /\ InWrite(OutEdge(f), {}, q) /\ ready' = [ready EXCEPT ![f] = FALSE]
          /\ need_wakeup' = [need_wakeup EXCEPT ![f] = FALSE]
      BY <2>0, <2>1 DEF ProcessSource
    <3> QED
      BY <1>2, <2>0, <2>1, <3>1, WriteOutcome
  <2>2. CASE OutEdge(f) \in requested /\ ~ready[f]
    <3>1. /\ NothingPending(q) /\ UNCHANGED <<requested, data, ready>>
          /\ need_wakeup' = [need_wakeup EXCEPT ![f] = TRUE]
      BY <2>0, <2>2 DEF ProcessSource
    <3>2. Blocked(f)'
      BY <1>2, <2>0, <2>2, <3>1 DEF Blocked
    <3> QED
      BY <1>2, <2>0, <3>1, <3>2, IdleOutcome
  <2>3. CASE OutEdge(f) \notin requested
    <3>1. NothingPending(q) /\ UNCHANGED <<requested, data, ready, need_wakeup>>
      BY <2>0, <2>3 DEF ProcessSource
    <3>2. Blocked(f)'
      BY <1>2, <2>3, <3>1 DEF Blocked
    <3> QED
      BY <1>2, <3>1, <3>2, IdleOutcome
  <2> QED
    BY <2>1, <2>2, <2>3
<1>3. CASE f # Root /\ Kind[f] = "converter"
  <2>0. f \in Filters /\ ProcessConverter(f, q)
    BY <1>3 DEF Process, Nodes
  <2>1. UNCHANGED <<ready, need_wakeup>>
    BY <2>0 DEF ProcessConverter
  <2>2. CASE OutEdge(f) \notin requested
    <3>1. NothingPending(q) /\ UNCHANGED <<requested, data>>
      BY <2>0, <2>2 DEF ProcessConverter
    <3>2. Blocked(f)'
      BY <1>3, <2>2, <3>1 DEF Blocked
    <3> QED
      BY <2>1, <3>1, <3>2, IdleOutcome
  <2>3. CASE OutEdge(f) \in requested /\ InEdge(f) \in data
    <3>1. InWrite(OutEdge(f), {InEdge(f)}, q)
      BY <2>0, <2>3 DEF ProcessConverter
    <3> QED
      BY <1>3, <2>0, <2>1, <2>3, <3>1, WriteOutcome
  <2>4. CASE OutEdge(f) \in requested /\ InEdge(f) \notin data
    <3>1. OutRequest(InEdge(f), q) /\ UNCHANGED data
      BY <2>0, <2>4 DEF ProcessConverter
    <3> QED
      BY <1>3, <2>0, <2>1, <3>1, RequestOutcome
  <2> QED
    BY <2>2, <2>3, <2>4
<1>4. CASE f # Root /\ Kind[f] = "sink"
  <2>0. f \in Filters /\ ProcessSink(f, q)
    BY <1>4 DEF Process, Nodes
  <2>1. UNCHANGED need_wakeup
    BY <2>0 DEF ProcessSink
  <2>2. CASE ~ready[f]
    <3>1. NothingPending(q) /\ UNCHANGED <<requested, data, ready>>
      BY <2>0, <2>2 DEF ProcessSink
    <3>2. Blocked(f)'
      BY <1>4, <2>2, <3>1 DEF Blocked
    <3> QED
      BY <2>1, <3>1, <3>2, IdleOutcome
  <2>3. CASE NothingPending(q) /\ UNCHANGED requested /\ data' = data \ {InEdge(f)}
             /\ ready' = [ready EXCEPT ![f] = FALSE]
    <3>1. Blocked(f)'
      BY <1>4, <2>0, <2>3 DEF Blocked
    <3> QED
      BY <2>0, <2>1, <2>3, <3>1, IdleOutcome
  <2>4. CASE OutRequest(InEdge(f), q) /\ UNCHANGED ready /\ data' \subseteq data
    BY <1>4, <2>0, <2>1, <2>4, RequestOutcome
  <2> QED
    BY <2>0, <2>2, <2>3, <2>4 DEF ProcessSink
<1> QED
  BY <1>1, <1>2, <1>3, <1>4, EdgeOf DEF Nodes

-----------------------------------------------------------------------------
(* The inductive invariant *)

LEMMA NodesFinite == IsFiniteSet(Nodes) /\ \A S \in SUBSET Nodes : IsFiniteSet(S)
<1>1. IsFiniteSet(Filters)
  BY GraphAssumption
<1>2. IsFiniteSet(Filters \cup {Root})
  BY <1>1, FS_AddElement
<1> QED
  BY <1>2, FS_Subset DEF Nodes

LEMMA InitGInv == Init => GInv
<1> SUFFICES ASSUME Init PROVE GInv
  OBVIOUS
<1>1. Lists(queue, pending, Nodes)
  BY NodesFinite, SetToSeqLists DEF Init
<1>2. Lists(async_pending, ToSet(async_pending), Filters) /\ ToSet(async_pending) = {}
  <2>1. Lists(<<>>, {}, Filters)
    BY EmptyLists
  <2> QED
    BY <2>1 DEF Init, Lists
<1>3. ArraysOK
  BY <1>1, <1>2 DEF ArraysOK, Init, Nodes
<1>4. OthersOK
  <2>1. ready \in [Filters -> BOOLEAN] /\ need_wakeup \in [Filters -> BOOLEAN]
    BY DEF Init
  <2>2. interrupts \in 0..MaxInterrupts
    BY GraphAssumption DEF Init
  <2> QED
    BY <2>1, <2>2 DEF Init, OthersOK
<1> QED
  BY <1>3, <1>4 DEF GInv, RequestsConnected, Init

(* A step that touches neither the arrays, the filters nor the requests.   *)
LEMMA SameArraysGInv ==
  ASSUME GInv, OthersOK', UNCHANGED <<alive, queue, pending, async_pending>>,
         requested' \subseteq requested
  PROVE  GInv'
<1>1. ArraysOK'
  BY DEF GInv, ArraysOK
<1> QED
  BY <1>1 DEF GInv, RequestsConnected, Connected

(* The runner takes the asynchronous notifications over.                   *)
LEMMA FlushGInv ==
  ASSUME GInv, OthersOK', UNCHANGED <<alive, requested>>, FlushAsync
  PROVE  GInv'
<1>1. Lists(queue', pending \cup ToSet(async_pending), Nodes)
  BY FlushStep DEF FlushAsync
<1>2. Lists(async_pending', ToSet(async_pending'), Filters) /\ ToSet(async_pending') = {}
  <2>1. Lists(<<>>, {}, Filters)
    BY EmptyLists
  <2> QED
    BY <2>1 DEF FlushAsync, Lists
<1>3. ArraysOK'
  BY <1>1, <1>2 DEF GInv, ArraysOK, FlushAsync
<1> QED
  BY <1>3 DEF GInv, RequestsConnected, Connected

(* It takes a filter out of the array and processes it.                    *)
LEMMA RunFilterStep ==
  ASSUME GInv, RunFilter
  PROVE  \E f \in pending : ProcessOutcome(f, pending \ {f}) /\ cutoff' = cutoff \ {f}
<1> DEFINE n == NextToRun
<1>1. /\ queue \in Seq(Nodes) /\ Len(queue) \in Nat /\ DOMAIN queue = 1..Len(queue)
      /\ queue # <<>> => Len(queue) > 0
  BY LenProperties, EmptySeq DEF GInv, ArraysOK, Lists
<1>2. n \in DOMAIN queue
  BY <1>1 DEF RunFilter, NextToRun
<1>3. queue[n] \in pending /\ queue[n] \in Nodes
  BY <1>1, <1>2, ElementOfSeq DEF GInv, ArraysOK, Lists, ToSet
<1>4. Lists(RemoveAt(queue, n), pending \ {queue[n]}, Nodes)
  BY <1>2, RemoveAtLists DEF GInv, ArraysOK
<1>5. Process(queue[n], RemoveAt(queue, n)) /\ UNCHANGED alive /\ cutoff' = cutoff \ {queue[n]}
  BY DEF RunFilter
<1>6. pending \ {queue[n]} \subseteq alive \cup {Root}
  BY DEF GInv, ArraysOK
<1> HIDE DEF n
<1>7. ProcessOutcome(queue[n], pending \ {queue[n]})
  BY <1>3, <1>4, <1>5, <1>6, ProcessStep
<1> QED
  BY <1>3, <1>5, <1>7

LEMMA RunningGInv ==
  ASSUME GInv, Running
  PROVE  GInv'
<1>1. CASE EnterRun
  <2>1. OthersOK'
    BY <1>1 DEF EnterRun, FlushAsync, GInv, OthersOK, pinVars, intVars
  <2> QED
    BY <1>1, <2>1, FlushGInv DEF EnterRun, pinVars
<1>2. CASE TakeInterrupt
  <2>1. OthersOK'
    BY <1>2 DEF TakeInterrupt, GInv, OthersOK, pinVars
  <2> QED
    BY <1>2, <2>1, SameArraysGInv DEF TakeInterrupt, pinVars
<1>3. CASE Refill
  <2>1. OthersOK'
    BY <1>3 DEF Refill, FlushAsync, GInv, OthersOK, pinVars, intVars
  <2> QED
    BY <1>3, <2>1, FlushGInv DEF Refill, pinVars
<1>4. CASE RunFilter
  <2>1. PICK f \in pending : ProcessOutcome(f, pending \ {f}) /\ cutoff' = cutoff \ {f}
    BY <1>4, RunFilterStep
  <2>2. UNCHANGED <<alive, async_pending, async_wakeup_sent, wake, recursive, exit_req>> /\ pc' = "top"
    BY <1>4 DEF RunFilter, asyncVars
  <2>3. interrupt_flag' \in BOOLEAN /\ interrupts' \in 0..MaxInterrupts
    <3>1. interrupts \in Nat /\ MaxInterrupts \in Nat
      BY GraphAssumption DEF GInv, OthersOK
    <3>2. \/ UNCHANGED <<interrupt_flag, interrupts>>
          \/ interrupt_flag' = TRUE /\ interrupts' = interrupts + 1 /\ interrupts < MaxInterrupts
      BY <1>4 DEF RunFilter, intVars
    <3>3. interrupts' \in 0..MaxInterrupts
      <4>1. interrupts \in 0..MaxInterrupts
        BY DEF GInv, OthersOK
      <4>2. CASE UNCHANGED <<interrupt_flag, interrupts>>
        BY <4>1, <4>2
      <4>3. CASE interrupts' = interrupts + 1 /\ interrupts < MaxInterrupts
        BY <3>1, <4>3
      <4> QED
        BY <3>2, <4>2, <4>3
    <3>4. interrupt_flag \in BOOLEAN
      BY DEF GInv, OthersOK
    <3>5. interrupt_flag' \in BOOLEAN
      BY <3>2, <3>4
    <3> QED
      BY <3>3, <3>5
  <2>4. OthersOK'
    BY <2>1, <2>2, <2>3 DEF GInv, OthersOK, ProcessOutcome
  <2>5. ArraysOK'
    BY <2>1, <2>2 DEF GInv, ArraysOK, ProcessOutcome
  <2>6. RequestsConnected'
    BY <2>1, <2>2 DEF ProcessOutcome, RequestsConnected, Connected
  <2> QED
    BY <2>4, <2>5, <2>6 DEF GInv
<1>5. CASE EndRun
  <2>1. OthersOK'
    BY <1>5 DEF EndRun, GInv, OthersOK, intVars
  <2> QED
    BY <1>5, <2>1, SameArraysGInv DEF EndRun
<1> QED
  BY <1>1, <1>2, <1>3, <1>4, <1>5 DEF Running

(* The user's own steps, and the interrupt.                                *)
LEMMA PlainGInv ==
  ASSUME GInv,
         \/ Run \/ Wake \/ OtherEvent \/ Interrupt
         \/ \E e \in External : ReadExternal(e)
         \/ UNCHANGED vars
  PROVE  GInv'
<1>1. UNCHANGED <<alive, queue, pending, async_pending>> /\ requested' \subseteq requested
  BY DEF Run, Wake, OtherEvent, Interrupt, ReadExternal, vars, runVars, asyncVars, pinVars
<1>2. OthersOK'
  <2>1. CASE Run \/ Wake \/ OtherEvent
    BY <2>1 DEF Run, Wake, OtherEvent, GInv, OthersOK, runVars, asyncVars, pinVars, intVars
  <2>2. CASE Interrupt
    <3>1. interrupts' \in 0..MaxInterrupts
      BY <2>2, GraphAssumption DEF Interrupt, GInv, OthersOK
    <3> QED
      BY <2>2, <3>1 DEF Interrupt, GInv, OthersOK, runVars, asyncVars, pinVars
  <2>3. CASE \E e \in External : ReadExternal(e)
    BY <2>3 DEF ReadExternal, GInv, OthersOK, runVars, asyncVars, intVars
  <2>4. CASE UNCHANGED vars
    BY <2>4 DEF GInv, OthersOK, vars, runVars, asyncVars, pinVars, intVars
  <2> QED
    BY <2>1, <2>2, <2>3, <2>4
<1> QED
  BY <1>1, <1>2, SameArraysGInv

(* A request at an external pin.                                           *)
LEMMA RequestExternalStep ==
  ASSUME GInv, NEW e \in External, RequestExternal(e)
  PROVE  /\ Lists(queue', pending', Nodes)
         /\ pending \subseteq pending' /\ pending' \subseteq alive \cup {Root}
         /\ external_pending' \in BOOLEAN /\ unseen' \subseteq External
         /\ requested \subseteq requested' /\ requested' \subseteq requested \cup {e}
         /\ e \in requested' => Connected(e) /\ (e \in requested \/ Src[e] \in pending')
<1>1. e \in Edges /\ OutRequest(e, queue)
  BY DEF External, RequestExternal
<1>2. Lists(queue, pending, Nodes) /\ pending \subseteq alive \cup {Root}
  BY DEF GInv, ArraysOK
<1> QED
  BY <1>1, <1>2, OutRequestStep

LEMMA RequestExternalGInv ==
  ASSUME GInv, NEW e \in External, RequestExternal(e)
  PROVE  GInv'
<1>1. /\ Lists(queue', pending', Nodes)
      /\ pending \subseteq pending' /\ pending' \subseteq alive \cup {Root}
      /\ external_pending' \in BOOLEAN /\ unseen' \subseteq External
      /\ requested \subseteq requested' /\ requested' \subseteq requested \cup {e}
      /\ e \in requested' => Connected(e) /\ (e \in requested \/ Src[e] \in pending')
  BY RequestExternalStep
<1>2. UNCHANGED <<alive, exit_req, asyncVars, data, ready, need_wakeup, cutoff, intVars>>
      /\ pc' = "enter"
      /\ recursive' = e /\ e \in Edges
  BY DEF RequestExternal, External
<1>3. ArraysOK'
  BY <1>1, <1>2 DEF GInv, ArraysOK, asyncVars
<1>4. OthersOK'
  BY <1>1, <1>2 DEF GInv, OthersOK, asyncVars, intVars
<1>5. RequestsConnected'
  BY <1>1, <1>2 DEF GInv, RequestsConnected, Connected
<1> QED
  BY <1>3, <1>4, <1>5 DEF GInv

(* A reset of filters that exist: those that queue frames are woken.       *)
Sinks(G) == {f \in G : Kind[f] = "sink"}

LEMMA SinksListed ==
  ASSUME NEW G \in SUBSET Filters
  PROVE  SetToSeq(Sinks(G)) \in Seq(Filters) /\ ToSet(SetToSeq(Sinks(G))) = Sinks(G)
<1>1. Sinks(G) \subseteq Filters /\ IsFiniteSet(Sinks(G))
  BY NodesFinite DEF Sinks, Nodes
<1>2. Lists(SetToSeq(Sinks(G)), Sinks(G), Sinks(G))
  BY <1>1, SetToSeqLists
<1> QED
  BY <1>1, <1>2, SeqMonotonic DEF Lists

LEMMA ResetGInv ==
  ASSUME GInv, NEW G \in SUBSET Filters, Reset(G \cap alive)
  PROVE  GInv'
<1> DEFINE H == G \cap alive
<1>1. SetToSeq(Sinks(H)) \in Seq(Filters) /\ ToSet(SetToSeq(Sinks(H))) \subseteq alive
  <2>1. H \in SUBSET Filters /\ Sinks(H) \subseteq alive
    BY DEF Sinks
  <2> HIDE DEF H
  <2> QED
    BY <2>1, SinksListed
<1>2. FilterWakeup(SetToSeq(Sinks(H)))
  BY DEF Reset, Sinks
<1>3. /\ Lists(async_pending', ToSet(async_pending'), Filters)
      /\ ToSet(async_pending') = ToSet(async_pending) \cup ToSet(SetToSeq(Sinks(H)))
      /\ async_wakeup_sent' \in BOOLEAN /\ wake' \in BOOLEAN
  BY <1>1, <1>2, WakeupStep
<1>4. /\ UNCHANGED <<alive, runVars, ready, need_wakeup, intVars, pc>>
      /\ requested' \subseteq requested /\ data' \subseteq data /\ unseen' \subseteq unseen
      /\ cutoff' \subseteq cutoff \cup alive
  BY DEF Reset, CutOff
<1>5. ArraysOK'
  BY <1>1, <1>3, <1>4 DEF GInv, ArraysOK, runVars
<1>6. OthersOK'
  BY <1>3, <1>4 DEF GInv, OthersOK, runVars, intVars
<1> QED
  BY <1>4, <1>5, <1>6 DEF GInv, RequestsConnected, Connected

(* A filter that goes away is in neither array any more ...                *)
LEMMA FreeStep ==
  ASSUME GInv, NEW f \in Filters, Free(f)
  PROVE  /\ Lists(queue', pending', Nodes)
         /\ pending' = (pending \cup ToSet(async_pending)) \ {f}
<1>1. Lists(AddPending(queue, async_pending, HighPriority), pending \cup ToSet(async_pending), Nodes)
  BY FlushStep
<1> QED
  BY <1>1, RemoveFirstLists DEF Free

LEMMA FreeGInv ==
  ASSUME GInv, NEW f \in Filters, Free(f)
  PROVE  GInv'
<1>1. /\ Lists(queue', pending', Nodes)
      /\ pending' = (pending \cup ToSet(async_pending)) \ {f}
  BY FreeStep
<1>2. Lists(async_pending', ToSet(async_pending'), Filters) /\ ToSet(async_pending') = {}
  <2>1. Lists(<<>>, {}, Filters)
    BY EmptyLists
  <2> QED
    BY <2>1 DEF Free, Lists
<1>3. ArraysOK'
  BY <1>1, <1>2, GraphAssumption DEF GInv, ArraysOK, Free
<1>4. OthersOK'
  BY DEF Free, GInv, OthersOK, intVars
<1>5. RequestsConnected'
  <2> SUFFICES ASSUME NEW e \in requested' PROVE Connected(e)'
    BY DEF RequestsConnected
  <2>1. e \in requested /\ e \in Edges /\ f \notin {Src[e], Dst[e]}
    BY DEF Free, EdgesOf, GInv, OthersOK
  <2> QED
    BY <2>1 DEF Free, Connected, GInv, RequestsConnected
<1> QED
  BY <1>3, <1>4, <1>5 DEF GInv

(* ... and a new one is in the runner's, with its neighbours.              *)
Neighbours(f) == {g \in alive : EdgesOf(g) \cap EdgesOf(f) # {}}

LEMMA CreateStep ==
  ASSUME GInv, NEW f \in Filters, Create(f)
  PROVE  /\ Lists(queue', pending', Nodes)
         /\ pending' = pending \cup {f, Root} \cup Neighbours(f)
<1> DEFINE ends == IF Kind[f] = "source" THEN <<f, Root>> ELSE <<Root, f>>
           others == SetToSeq(Neighbours(f))
<1>1. Neighbours(f) \subseteq Nodes /\ IsFiniteSet(Neighbours(f))
  BY NodesFinite DEF Neighbours, GInv, OthersOK, Nodes
<1>2. others \in Seq(Nodes) /\ ToSet(others) = Neighbours(f)
  <2>1. Lists(others, Neighbours(f), Neighbours(f))
    BY <1>1, SetToSeqLists
  <2> HIDE DEF others
  <2> QED
    BY <1>1, <2>1, SeqMonotonic DEF Lists
<1>3. ends \in Seq(Nodes) /\ ToSet(ends) = {f, Root}
  <2>1. \A x, y \in Nodes : <<x, y>> \in Seq(Nodes) /\ ToSet(<<x, y>>) = {x, y}
    <3> SUFFICES ASSUME NEW x \in Nodes, NEW y \in Nodes
                 PROVE  <<x, y>> \in Seq(Nodes) /\ ToSet(<<x, y>>) = {x, y}
      OBVIOUS
    <3>1. <<x, y>> \in Seq(Nodes) /\ DOMAIN <<x, y>> = {1, 2}
      OBVIOUS
    <3>2. <<x, y>>[1] = x /\ <<x, y>>[2] = y
      OBVIOUS
    <3> QED
      BY <3>1, <3>2 DEF ToSet
  <2>2. f \in Nodes /\ Root \in Nodes
    BY DEF Nodes
  <2> QED
    BY <2>1, <2>2
<1>4. ends \o others \in Seq(Nodes) /\ ToSet(ends \o others) = {f, Root} \cup Neighbours(f)
  <2> HIDE DEF ends, others
  <2> QED
    BY <1>2, <1>3, ConcatElements
<1>5. queue' = AddPending(queue, ends \o others, HighPriority \ {f})
      /\ pending' = pending \cup {f, Root} \cup Neighbours(f)
  BY DEF Create, Neighbours
<1> HIDE DEF ends, others
<1>6. Lists(queue', pending \cup ToSet(ends \o others), Nodes)
  BY <1>4, <1>5, AddPendingLists DEF GInv, ArraysOK
<1> QED
  BY <1>4, <1>5, <1>6 DEF Lists

LEMMA CreateGInv ==
  ASSUME GInv, NEW f \in Filters, Create(f)
  PROVE  GInv'
<1>1. /\ Lists(queue', pending', Nodes)
      /\ pending' = pending \cup {f, Root} \cup Neighbours(f)
  BY CreateStep
<1>2. UNCHANGED <<external_pending, recursive, exit_req, asyncVars, pinVars, intVars, pc>>
      /\ alive' = alive \cup {f}
  BY DEF Create
<1>3. ArraysOK'
  BY <1>1, <1>2 DEF GInv, ArraysOK, asyncVars, Neighbours
<1>4. OthersOK'
  BY <1>2 DEF GInv, OthersOK, asyncVars, pinVars, intVars
<1> QED
  BY <1>2, <1>3, <1>4 DEF GInv, RequestsConnected, Connected, pinVars

(* Another thread makes a filter ready.                                    *)
LEMMA ReadyStep ==
  ASSUME GInv, NEW f \in Filters, Ready(f)
  PROVE  /\ Lists(async_pending', ToSet(async_pending'), Filters)
         /\ async_wakeup_sent' \in BOOLEAN /\ wake' \in BOOLEAN
         /\ ToSet(async_pending) \subseteq ToSet(async_pending')
         /\ ToSet(async_pending') \subseteq ToSet(async_pending) \cup {f}
         /\ need_wakeup[f] \/ Kind[f] = "sink" => f \in ToSet(async_pending')
<1>1. <<f>> \in Seq(Filters) /\ ToSet(<<f>>) = {f}
  <2>1. DOMAIN <<f>> = {1} /\ <<f>>[1] = f
    OBVIOUS
  <2> QED
    BY <2>1 DEF ToSet
<1>2. CASE need_wakeup[f] \/ Kind[f] = "sink"
  <2>1. FilterWakeup(<<f>>)
    BY <1>2 DEF Ready
  <2> QED
    BY <1>1, <2>1, WakeupStep
<1>3. CASE ~(need_wakeup[f] \/ Kind[f] = "sink")
  BY <1>3 DEF Ready, asyncVars, GInv, ArraysOK, OthersOK
<1> QED
  BY <1>2, <1>3

LEMMA ReadyGInv ==
  ASSUME GInv, NEW f \in Filters, Ready(f)
  PROVE  GInv'
<1>1. /\ Lists(async_pending', ToSet(async_pending'), Filters)
      /\ async_wakeup_sent' \in BOOLEAN /\ wake' \in BOOLEAN
      /\ ToSet(async_pending') \subseteq ToSet(async_pending) \cup {f}
  BY ReadyStep
<1>2. /\ UNCHANGED <<alive, runVars, requested, data, unseen, cutoff, intVars, pc>> /\ f \in alive
      /\ ready' \in [Filters -> BOOLEAN] /\ need_wakeup' \in [Filters -> BOOLEAN]
  BY DEF Ready, GInv, OthersOK
<1>3. ArraysOK'
  BY <1>1, <1>2 DEF GInv, ArraysOK, runVars
<1>4. OthersOK'
  BY <1>1, <1>2 DEF GInv, OthersOK, runVars, intVars
<1> QED
  BY <1>2, <1>3, <1>4 DEF GInv, RequestsConnected, Connected

LEMMA NextGInv == GInv /\ [Next]_vars => GInv'
<1> SUFFICES ASSUME GInv, [Next]_vars PROVE GInv'
  OBVIOUS
<1>1. ASSUME NEW G \in ResetGroups, Reset(G \cap alive) PROVE GInv'
  BY <1>1, GraphAssumption, ResetGInv
<1> QED
  BY <1>1, RunningGInv, PlainGInv, RequestExternalGInv, FreeGInv, CreateGInv, ReadyGInv DEF Next

(* The state is well-typed, as TypeOK says.                                *)
THEOREM TypeCorrect == Spec => []TypeOK
BY InitGInv, NextGInv, GInvSays, PTL DEF Spec

(* A filter is in the pending array if and only if its flag says so, once, *)
(* no filter is noted twice by other threads, and a filter that was freed  *)
(* is in neither array, so that the runner never processes it.             *)
THEOREM ArraysMatchFlags == Spec => []PendingMatches
BY InitGInv, NextGInv, GInvSays, PTL DEF Spec
-----------------------------------------------------------------------------
(* The wakeup callback *)

(* A notification by another thread has called the wakeup callback; since  *)
(* the runner was entered, so has whatever makes its user run it again.    *)
WakeupOK ==
  /\ async_pending # <<>> => async_wakeup_sent
  /\ pc \in {"top", "refill", "pick", "wait"} => (async_wakeup_sent \/ exit_req => wake)
  /\ pc = "wait" => queue = <<>> \/ exit_req

WInv == GInv /\ WakeupOK

LEMMA WInvSays == WInv => NothingLeft
BY DEF WInv, GInv, OthersOK, WakeupOK, NothingLeft

LEMMA InitWInv == Init => WInv
BY InitGInv DEF WInv, WakeupOK, Init

(* mp_filter_wakeup() calls the callback unless it is known to have been.  *)
LEMMA NotifyWakeupOK ==
  ASSUME WInv, NEW s \in Seq(Filters), FilterWakeup(s), UNCHANGED <<pc, queue, exit_req>>
  PROVE  WakeupOK'
<1>1. /\ Lists(async_pending', ToSet(async_pending'), Filters)
      /\ ToSet(async_pending') = ToSet(async_pending) \cup ToSet(s)
  BY WakeupStep DEF WInv
<1>2. s = <<>> /\ async_pending = <<>> => async_pending' = <<>>
  <2>1. async_pending \in Seq(Filters) /\ async_pending' \in Seq(Filters)
    BY <1>1 DEF WInv, GInv, ArraysOK, Lists
  <2>2. \A q \in Seq(Filters) : ToSet(q) = {} <=> q = <<>>
    BY ElementsOf
  <2>3. s = <<>> /\ async_pending = <<>> => ToSet(async_pending') = {}
    <3>1. s = <<>> => ToSet(s) = {}
      BY <2>2
    <3>2. async_pending = <<>> => ToSet(async_pending) = {}
      BY <2>1, <2>2
    <3> QED
      BY <1>1, <3>1, <3>2
  <2> QED
    BY <2>1, <2>2, <2>3
<1>3. /\ wake' = (wake \/ (s # <<>> /\ ~async_wakeup_sent))
      /\ async_wakeup_sent' = (async_wakeup_sent \/ s # <<>>)
  BY DEF FilterWakeup
<1>4. async_wakeup_sent \in BOOLEAN /\ wake \in BOOLEAN
  BY DEF WInv, GInv, OthersOK
<1> QED
  BY <1>2, <1>3, <1>4 DEF WInv, WakeupOK

LEMMA RunningWakeupOK ==
  ASSUME WInv, Running
  PROVE  WakeupOK'
<1> USE DEF WInv, WakeupOK
<1>1. CASE EnterRun
  BY <1>1 DEF EnterRun, FlushAsync
<1>2. CASE TakeInterrupt
  BY <1>2 DEF TakeInterrupt
<1>3. CASE Refill
  BY <1>3 DEF Refill, FlushAsync
<1>4. CASE RunFilter
  <2>1. UNCHANGED <<async_pending, async_wakeup_sent, wake, exit_req>> /\ pc' = "top" /\ pc = "pick"
    BY <1>4 DEF RunFilter, asyncVars
  <2> QED
    BY <2>1
<1>5. CASE EndRun
  <2>1. /\ UNCHANGED <<queue, exit_req, async_pending, async_wakeup_sent>>
        /\ pc = "pick" /\ NextToRun = 0 /\ (wake => wake')
        /\ pc' \in {"think", "wait"}
    BY <1>5 DEF EndRun, GInv, OthersOK
  <2>2. queue = <<>> \/ exit_req
    <3>1. queue # <<>> => Len(queue) # 0
      BY LenProperties, EmptySeq DEF GInv, ArraysOK, Lists
    <3> QED
      BY <2>1, <3>1 DEF NextToRun
  <2> QED
    BY <2>1, <2>2
<1> QED
  BY <1>1, <1>2, <1>3, <1>4, <1>5 DEF Running

LEMMA NextWInv == WInv /\ [Next]_vars => WInv'
<1> SUFFICES ASSUME WInv, [Next]_vars PROVE WakeupOK'
  BY NextGInv DEF WInv
<1>1. CASE Running
  BY <1>1, RunningWakeupOK
<1>2. CASE Run \/ Wake \/ OtherEvent \/ Interrupt \/ UNCHANGED vars
  BY <1>2 DEF WInv, WakeupOK, Run, Wake, OtherEvent, Interrupt, vars, runVars, asyncVars
<1>3. ASSUME NEW e \in External, ReadExternal(e) \/ RequestExternal(e) PROVE WakeupOK'
  BY <1>3 DEF WInv, WakeupOK, ReadExternal, RequestExternal, asyncVars, runVars
<1>4. ASSUME NEW G \in ResetGroups, Reset(G \cap alive) PROVE WakeupOK'
  <2> DEFINE H == G \cap alive
  <2>1. H \in SUBSET Filters
    BY GraphAssumption
  <2>2. FilterWakeup(SetToSeq(Sinks(H))) /\ UNCHANGED <<pc, queue, exit_req>>
    BY <1>4 DEF Reset, Sinks, runVars
  <2> HIDE DEF H
  <2> QED
    BY <2>1, <2>2, SinksListed, NotifyWakeupOK
<1>5. ASSUME NEW f \in Filters, Free(f) \/ Create(f) PROVE WakeupOK'
  BY <1>5 DEF WInv, WakeupOK, Free, Create, asyncVars
<1>6. ASSUME NEW f \in Filters, Ready(f) PROVE WakeupOK'
  <2>1. CASE need_wakeup[f] \/ Kind[f] = "sink"
    <3>1. FilterWakeup(<<f>>) /\ UNCHANGED <<pc, queue, exit_req>> /\ <<f>> \in Seq(Filters)
      BY <1>6, <2>1 DEF Ready, runVars
    <3> QED
      BY <3>1, NotifyWakeupOK
  <2>2. CASE ~(need_wakeup[f] \/ Kind[f] = "sink")
    BY <1>6, <2>2 DEF Ready, asyncVars, runVars, WInv, WakeupOK
  <2> QED
    BY <2>1, <2>2
<1> QED
  BY <1>1, <1>2, <1>3, <1>4, <1>5, <1>6 DEF Next

(* mp_filter_graph_run() leaves something to process only if the user is   *)
(* going to run it again: the wakeup callback was called, whether another  *)
(* thread noted a filter before, in or after the run, or interrupted it.   *)
THEOREM NothingIsForgotten == Spec => []NothingLeft
BY InitWInv, NextWInv, WInvSays, PTL DEF Spec

-----------------------------------------------------------------------------
(* Filters that could go on *)

(* Each filter that could go on is noted in one of the arrays, or was      *)
(* reset alone.                                                            *)
Due(g) == Blocked(g) \/ g \in cutoff \/ g \in pending \cup ToSet(async_pending)

OthersDue == \A g \in alive : Due(g)

DInv == WInv /\ OthersDue

LEMMA DInvSays == DInv => GraphBlocked
<1> SUFFICES ASSUME DInv, pc = "wait", ~wake, NEW g \in alive
             PROVE  Blocked(g) \/ g \in cutoff
  BY DEF GraphBlocked
<1>1. queue = <<>> /\ async_pending = <<>>
  BY WInvSays DEF DInv, NothingLeft
<1>2. queue \in Seq(Nodes) /\ ToSet(queue) = pending /\ async_pending \in Seq(Filters)
  BY DEF DInv, WInv, GInv, ArraysOK, Lists
<1>3. pending = {} /\ ToSet(async_pending) = {}
  BY <1>1, <1>2, ElementsOf
<1> QED
  BY <1>3 DEF DInv, OthersDue, Due

LEMMA InitDInv == Init => DInv
<1> SUFFICES ASSUME Init PROVE DInv
  OBVIOUS
<1>1. OthersDue
  BY DEF Init, OthersDue, Due, Nodes
<1> QED
  BY <1>1, InitWInv DEF DInv

(* A filter stays due if it is still noted and nothing it waits for has    *)
(* changed.                                                                *)
LEMMA StaysDue ==
  ASSUME GInv, GInv', NEW g \in alive, Due(g),
         pending \cup ToSet(async_pending) \subseteq pending' \cup ToSet(async_pending'),
         ready'[g] = ready[g], need_wakeup'[g] = need_wakeup[g], g \in cutoff => g \in cutoff',
         \A e \in requested' \ requested : Src[e] # g,
         \A e \in requested \ requested' : Dst[e] # g,
         Kind[g] # "source" => (Connected(InEdge(g))' => Connected(InEdge(g)))
  PROVE  Due(g)'
<1>1. g \in Filters /\ requested \subseteq Edges /\ requested' \subseteq Edges
  BY DEF GInv, OthersOK
<1> QED
  BY <1>1, BlockedStays DEF Due

LEMMA SameDue ==
  ASSUME GInv, GInv', OthersDue, UNCHANGED <<alive, requested, ready, need_wakeup, cutoff>>,
         pending \cup ToSet(async_pending) \subseteq pending' \cup ToSet(async_pending')
  PROVE  OthersDue'
<1> SUFFICES ASSUME NEW g \in alive PROVE Due(g)'
  BY DEF OthersDue
<1>1. Connected(InEdge(g))' => Connected(InEdge(g))
  BY DEF Connected
<1> QED
  BY <1>1, StaysDue DEF OthersDue

LEMMA FlushDue ==
  ASSUME GInv, GInv', OthersDue, UNCHANGED <<alive, requested, ready, need_wakeup, cutoff>>,
         FlushAsync
  PROVE  OthersDue'
<1>1. pending' = pending \cup ToSet(async_pending)
  BY DEF FlushAsync
<1> QED
  BY <1>1, SameDue

LEMMA RunFilterDue ==
  ASSUME GInv, GInv', OthersDue, RunFilter
  PROVE  OthersDue'
<1>1. PICK f \in pending : ProcessOutcome(f, pending \ {f}) /\ cutoff' = cutoff \ {f}
  BY RunFilterStep
<1>2. UNCHANGED <<alive, async_pending>>
  BY DEF RunFilter, asyncVars
<1> SUFFICES ASSUME NEW g \in alive PROVE Due(g)'
  BY <1>2 DEF OthersDue
<1>3. CASE g = f
  <2>1. g # Root
    BY GraphAssumption DEF GInv, OthersOK
  <2> QED
    BY <1>1, <1>3, <2>1 DEF ProcessOutcome, Due
<1>4. CASE g # f
  <2>1. Blocked(g) => Blocked(g)' \/ g \in pending'
    BY <1>1, <1>4 DEF ProcessOutcome, TellsOthers
  <2>2. pending \ {f} \subseteq pending'
    BY <1>1 DEF ProcessOutcome
  <2> QED
    BY <1>1, <1>2, <1>4, <2>1, <2>2 DEF OthersDue, Due
<1> QED
  BY <1>3, <1>4

LEMMA RequestExternalDue ==
  ASSUME GInv, GInv', OthersDue, NEW e \in External, RequestExternal(e)
  PROVE  OthersDue'
<1>1. /\ pending \subseteq pending' /\ requested \subseteq requested' /\ requested' \subseteq requested \cup {e}
      /\ e \in requested' => e \in requested \/ Src[e] \in pending'
  BY RequestExternalStep
<1>2. UNCHANGED <<alive, async_pending, ready, need_wakeup, cutoff>>
  BY DEF RequestExternal, asyncVars
<1> SUFFICES ASSUME NEW g \in alive, g \notin pending' PROVE Due(g)'
  BY <1>2 DEF OthersDue, Due
<1>3. Connected(InEdge(g))' => Connected(InEdge(g))
  BY <1>2 DEF Connected
<1>4. Due(g) /\ (\A d \in requested' \ requested : Src[d] # g) /\ requested \ requested' = {}
  BY <1>1 DEF OthersDue
<1> QED
  BY <1>1, <1>2, <1>3, <1>4, StaysDue

(* A reset filter that passes frames on has lost the request for them or   *)
(* was reset alone, and one that queues them is woken.                     *)
LEMMA ResetDue ==
  ASSUME GInv, GInv', OthersDue, NEW G \in ResetGroups, Reset(G \cap alive)
  PROVE  OthersDue'
<1> DEFINE H == G \cap alive
<1>1. /\ UNCHANGED <<alive, pending, ready, need_wakeup>> /\ requested' = requested \ LostBy(H)
      /\ cutoff' = cutoff \cup CutOff(H)
      /\ G \subseteq Filters /\ alive \subseteq Filters /\ requested \subseteq Edges
  BY GraphAssumption DEF Reset, runVars, GInv, OthersOK
<1>2. ToSet(async_pending') = ToSet(async_pending) \cup Sinks(H)
  <2>1. H \in SUBSET Filters
    BY <1>1
  <2>2. FilterWakeup(SetToSeq(Sinks(H)))
    BY DEF Reset, Sinks
  <2> HIDE DEF H
  <2> QED
    BY <2>1, <2>2, SinksListed, WakeupStep
<1>3. \A e \in Edges : e \in LostBy(H) <=> Dst[e] \in H \/ (Dst[e] = Root /\ Src[e] \in H)
  <2>1. Root \notin H
    BY <1>1, GraphAssumption
  <2> QED
    BY <1>1, <2>1 DEF LostBy, OwnedBy, EdgesOf
<1> SUFFICES ASSUME NEW g \in alive PROVE Due(g)'
  BY <1>1 DEF OthersDue
<1>4. g \in Filters /\ g # Root
  BY <1>1, GraphAssumption
<1>5. CASE Kind[g] = "source" \/ g \notin H
  <2>1. Connected(InEdge(g))' => Connected(InEdge(g))
    BY <1>1 DEF Connected
  <2>2. CASE Kind[g] = "source"
    <3>1. Blocked(g) => Blocked(g)'
      BY <1>1, <2>2 DEF Blocked
    <3> QED
      BY <1>1, <1>2, <3>1 DEF OthersDue, Due
  <2>3. CASE g \notin H
    <3>1. \A e \in requested \ requested' : Dst[e] # g
      BY <1>1, <1>3, <1>4, <2>3
    <3> QED
      BY <1>1, <1>2, <2>1, <3>1, StaysDue DEF OthersDue
  <2> QED
    BY <1>5, <2>2, <2>3
<1>6. CASE Kind[g] = "converter" /\ g \in H
  <2>1. CASE OutEdge(g) \in requested'
    BY <1>1, <1>6, <2>1 DEF Due, CutOff
  <2>2. CASE OutEdge(g) \notin requested'
    BY <1>6, <2>2 DEF Due, Blocked
  <2> QED
    BY <2>1, <2>2
<1>7. CASE Kind[g] = "sink" /\ g \in H
  BY <1>2, <1>7 DEF Due, Sinks
<1> QED
  BY <1>4, <1>5, <1>6, <1>7, EdgeOf

LEMMA FreeDue ==
  ASSUME GInv, GInv', OthersDue, NEW f \in Filters, Free(f)
  PROVE  OthersDue'
<1>1. /\ alive' = alive \ {f} /\ requested' = requested \ EdgesOf(f)
      /\ ready' = [ready EXCEPT ![f] = Kind[f] = "sink"]
      /\ need_wakeup' = [need_wakeup EXCEPT ![f] = FALSE] /\ cutoff' = cutoff \ {f}
      /\ requested \subseteq Edges /\ alive \subseteq Filters
  BY DEF Free, GInv, OthersOK
<1>2. pending' = (pending \cup ToSet(async_pending)) \ {f}
  BY FreeStep
<1> SUFFICES ASSUME NEW g \in alive', g \notin pending', g \notin cutoff' PROVE Due(g)'
  BY DEF OthersDue, Due
<1>3. g \in alive /\ g # f /\ g \in Filters /\ g # Root /\ f # Root
  BY <1>1, GraphAssumption
<1>4. Blocked(g)
  BY <1>1, <1>2, <1>3 DEF OthersDue, Due
<1>5. ready'[g] = ready[g] /\ need_wakeup'[g] = need_wakeup[g]
  BY <1>1, <1>3 DEF GInv, OthersOK
<1>6. \A e : Connected(e)' => Connected(e) /\ f \notin {Src[e], Dst[e]}
  <2>1. f \notin alive' \cup {Root}
    BY <1>1, <1>3
  <2> QED
    BY <1>1, <2>1 DEF Connected
<1>7. CASE Kind[g] = "source"
  BY <1>1, <1>4, <1>5, <1>7 DEF Due, Blocked
<1>8. CASE Kind[g] # "source"
  <2>1. InEdge(g) \in Edges /\ Dst[InEdge(g)] = g
    BY <1>3, <1>8, EdgeOf
  <2>2. Connected(InEdge(g))' => (InEdge(g) \in requested' <=> InEdge(g) \in requested)
    BY <1>1, <1>6 DEF EdgesOf
  <2>3. requested' \subseteq requested
    BY <1>1
  <2> QED
    BY <1>4, <1>5, <1>6, <1>8, <2>2, <2>3, <1>3, EdgeOf DEF Due, Blocked
<1> QED
  BY <1>7, <1>8

LEMMA CreateDue ==
  ASSUME GInv, GInv', OthersDue, NEW f \in Filters, Create(f)
  PROVE  OthersDue'
<1>1. pending' = pending \cup {f, Root} \cup Neighbours(f)
  BY CreateStep
<1>2. UNCHANGED <<async_pending, requested, ready, need_wakeup, cutoff>> /\ alive' = alive \cup {f}
  BY DEF Create, asyncVars, pinVars
<1> SUFFICES ASSUME NEW g \in alive', g \notin pending' PROVE Due(g)'
  BY DEF OthersDue, Due
<1>3. g \in alive /\ g \in Filters /\ EdgesOf(g) \cap EdgesOf(f) = {}
  BY <1>1, <1>2 DEF Neighbours, GInv, OthersOK
<1>4. Kind[g] # "source" => (Connected(InEdge(g))' => Connected(InEdge(g)))
  <2> SUFFICES ASSUME Kind[g] # "source", Connected(InEdge(g))' PROVE Connected(InEdge(g))
    OBVIOUS
  <2>1. InEdge(g) \in Edges /\ Dst[InEdge(g)] = g
    BY <1>3, EdgeOf
  <2>2. f \notin {Src[InEdge(g)], Dst[InEdge(g)]}
    BY <1>3, <2>1 DEF EdgesOf
  <2> QED
    BY <1>2, <2>2 DEF Connected
<1> QED
  BY <1>1, <1>2, <1>3, <1>4, StaysDue DEF OthersDue

LEMMA ReadyDue ==
  ASSUME GInv, GInv', OthersDue, NEW f \in Filters, Ready(f)
  PROVE  OthersDue'
<1>1. /\ ToSet(async_pending) \subseteq ToSet(async_pending')
      /\ need_wakeup[f] \/ Kind[f] = "sink" => f \in ToSet(async_pending')
  BY ReadyStep
<1>2. /\ UNCHANGED <<alive, pending, requested, cutoff>> /\ f \in alive /\ Kind[f] # "converter"
      /\ ready' = [ready EXCEPT ![f] = TRUE] /\ need_wakeup' = [need_wakeup EXCEPT ![f] = FALSE]
      /\ alive \subseteq Filters
  BY DEF Ready, runVars, GInv, OthersOK
<1> SUFFICES ASSUME NEW g \in alive PROVE Due(g)'
  BY <1>2 DEF OthersDue
<1>3. CASE g # f
  <2>1. ready'[g] = ready[g] /\ need_wakeup'[g] = need_wakeup[g]
    BY <1>2, <1>3 DEF GInv, OthersOK
  <2>2. Connected(InEdge(g))' => Connected(InEdge(g))
    BY <1>2 DEF Connected
  <2> QED
    BY <1>1, <1>2, <2>1, <2>2, StaysDue DEF OthersDue
<1>4. CASE g = f /\ (need_wakeup[f] \/ Kind[f] = "sink")
  BY <1>1, <1>4 DEF Due
<1>5. CASE g = f /\ ~need_wakeup[f] /\ Kind[f] = "source"
  <2>1. Blocked(f) => OutEdge(f) \notin requested
    BY <1>5 DEF Blocked
  <2>2. OutEdge(f) \notin requested => Blocked(f)'
    BY <1>2, <1>5 DEF Blocked
  <2> QED
    BY <1>1, <1>2, <1>5, <2>1, <2>2 DEF OthersDue, Due
<1> QED
  BY <1>2, <1>3, <1>4, <1>5, EdgeOf

LEMMA NextDInv == DInv /\ [Next]_vars => DInv'
<1> SUFFICES ASSUME DInv, [Next]_vars PROVE OthersDue'
  BY NextWInv DEF DInv
<1>1. GInv /\ GInv' /\ OthersDue
  BY NextGInv DEF DInv, WInv
<1>2. CASE Running
  <2>1. CASE EnterRun
    BY <1>1, <2>1, FlushDue DEF EnterRun, pinVars
  <2>2. CASE Refill
    BY <1>1, <2>2, FlushDue DEF Refill, pinVars
  <2>3. CASE TakeInterrupt
    BY <1>1, <2>3, SameDue DEF TakeInterrupt, pinVars
  <2>4. CASE EndRun
    BY <1>1, <2>4, SameDue DEF EndRun
  <2> QED
    BY <1>1, <1>2, <2>1, <2>2, <2>3, <2>4, RunFilterDue DEF Running
<1>3. CASE Run \/ Wake \/ OtherEvent \/ Interrupt \/ UNCHANGED vars
  BY <1>1, <1>3, SameDue DEF Run, Wake, OtherEvent, Interrupt, vars, runVars, asyncVars, pinVars
<1>4. ASSUME NEW e \in External, ReadExternal(e) PROVE OthersDue'
  BY <1>1, <1>4, SameDue DEF ReadExternal, runVars, asyncVars
<1> QED
  BY <1>1, <1>2, <1>3, <1>4, RequestExternalDue, ResetDue, FreeDue, CreateDue, ReadyDue DEF Next

(* The user sleeps only if each filter is blocked: it waits for a frame    *)
(* that was requested, for a request, or for another thread that is going  *)
(* to wake it; or it was reset while what comes after it kept its request, *)
(* and nothing made it run since.  No other order of requests, resets,     *)
(* filters that come and go, and notifications by other threads stalls a   *)
(* graph that could go on.                                                 *)
THEOREM SleepsOnlyIfBlocked == Spec => []GraphBlocked
BY InitDInv, NextDInv, DInvSays, PTL DEF Spec

=============================================================================

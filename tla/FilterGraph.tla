----------------------------- MODULE FilterGraph -----------------------------
(***************************************************************************)
(* filters/filter.c: the runner of a filter graph (mp_filter_graph_run),   *)
(* its pending and async_pending arrays, the pins, and the user around it: *)
(* player/playloop.c, which looks at external pins, runs the graph, and    *)
(* sleeps unless it was told to look again.  An edge is a connection from  *)
(* the pin where Src[e] writes to the pin where Dst[e] reads; an edge to   *)
(* Root ends in an external pin.  Other threads make a filter ready (the   *)
(* demuxer has a packet, a queue has room) or interrupt the graph.         *)
(***************************************************************************)
EXTENDS Naturals, Sequences, FiniteSets, SequencesExt

CONSTANTS
  Filters, Root, Edges, None,
  Src, Dst,       (* the ends of each edge                                 *)
  Kind,           (* "source": f_demux_in.c; "converter": passes frames on *)
                  (* with mp_pin_transfer_data(); "sink": process_in() of  *)
                  (* f_async_queue.c, in the reading state                 *)
  HighPriority,   (* the filters with mp_filter_set_high_priority()        *)
  MayFree,        (* the filters that the user frees and creates again     *)
  ResetGroups,    (* the filters that the user resets with one call: a     *)
                  (* filter and its children                               *)
  MaxInterrupts   (* bound: interrupts, by any thread or by max_run_time   *)

Nodes == Filters \cup {Root}

ASSUME GraphAssumption ==
  /\ IsFiniteSet(Filters) /\ Root \notin Filters /\ None \notin Edges
  /\ Src \in [Edges -> Filters] /\ Dst \in [Edges -> Nodes]
  /\ Kind \in [Filters -> {"source", "converter", "sink"}]
  /\ \A f \in Filters :
       /\ Kind[f] # "sink" => \E e \in Edges : Src[e] = f
       /\ Kind[f] # "source" => \E e \in Edges : Dst[e] = f
       /\ \A e, g \in Edges : (Src[e] = f /\ Src[g] = f) \/ (Dst[e] = f /\ Dst[g] = f)
                             => e = g
  /\ HighPriority \cup MayFree \subseteq Filters
  /\ ResetGroups \subseteq SUBSET Filters
  /\ MaxInterrupts \in Nat

VARIABLES
  alive,                                   (* the filters that exist       *)
  queue, pending,                          (* pending[], and the flags     *)
  async_pending, async_wakeup_sent, interrupt_flag,
  external_pending, recursive, exit_req,
  requested, data,                         (* per edge: data_requested, and *)
                                           (* whether data holds a frame   *)
  ready,          (* per filter: a packet was read, the queue has room     *)
  need_wakeup,    (* per filter: the demuxer is to tell about a packet     *)
  pc,             (* where the user's thread is                            *)
  wake,           (* mp_wakeup_core() was called since the last sleep      *)
  interrupts,     (* history: interrupts so far                            *)
  unseen,         (* history: external pins that got a frame which the     *)
                  (* user neither read nor was told about                  *)
  cutoff          (* history: converters that were reset while what comes  *)
                  (* after them kept its request, and did not run since    *)

runVars == <<queue, pending, external_pending, recursive, exit_req>>
asyncVars == <<async_pending, async_wakeup_sent, wake>>
pinVars == <<requested, data, ready, need_wakeup, unseen, cutoff>>
intVars == <<interrupt_flag, interrupts>>
vars == <<alive, runVars, asyncVars, pinVars, intVars, pc>>

InEdge(f) == CHOOSE e \in Edges : Dst[e] = f
OutEdge(f) == CHOOSE e \in Edges : Src[e] = f
External == {e \in Edges : Dst[e] = Root}
EdgesOf(f) == {e \in Edges : f \in {Src[e], Dst[e]}}
Connected(e) == {Src[e], Dst[e]} \subseteq alive \cup {Root}

(* A pin's state is reset with the filter that owns the pin.               *)
OwnedBy(f) == {e \in EdgesOf(f) : Dst[e] \in {f, Root}}

(* The graph is built: all filters were connected, none has run.           *)
Init ==
  /\ alive = Filters
  /\ queue = SetToSeq(Nodes) /\ pending = Nodes   (* in some order *)
  /\ async_pending = <<>> /\ async_wakeup_sent = FALSE /\ interrupt_flag = FALSE
  /\ external_pending = FALSE /\ recursive = None /\ exit_req = FALSE
  /\ requested = {} /\ data = {}
  /\ ready = [f \in Filters |-> Kind[f] = "sink"]
  /\ need_wakeup = [f \in Filters |-> FALSE]
  /\ pc = "think" /\ wake = FALSE /\ interrupts = 0 /\ unseen = {} /\ cutoff = {}

-----------------------------------------------------------------------------
(* add_pending(), with the pending array q: a new filter goes to the front *)
(* if it has a high priority, else to the end.                             *)
AddTo(q, f, high) ==
  IF f \in ToSet(q) THEN q ELSE IF f \in high THEN <<f>> \o q ELSE Append(q, f)

(* ... of each filter of the sequence s in turn.                           *)
AddPending(q, s, high) ==
  LET added[n \in 0..Len(s)] ==
        IF n = 0 THEN q ELSE AddTo(added[n - 1], s[n], high)
  IN  added[Len(s)]

(* Mutant of AddPendingPin: any change but the recursive pin's is external. *)
AddPendingPinAny(e, f, q) ==
  LET external == e # recursive
  IN /\ queue' = AddTo(q, f, HighPriority)
     /\ pending' = ToSet(q) \cup {f}
     /\ external_pending' = (external_pending \/ (external /\ f \notin ToSet(q)))
     /\ unseen' = IF external THEN unseen \cup {e} ELSE unseen

(* add_pending_pin() at the end of the edge e that belongs to f, with the  *)
(* pending array q.                                                        *)
AddPendingPin(e, f, q) ==
  LET external == f = Root /\ e # recursive
  IN /\ queue' = AddTo(q, f, HighPriority)
     /\ pending' = ToSet(q) \cup {f}
     /\ external_pending' = (external_pending \/ (external /\ f \notin ToSet(q)))
     /\ unseen' = IF external THEN unseen \cup {e} ELSE unseen

NothingPending(q) ==
  queue' = q /\ pending' = ToSet(q) /\ UNCHANGED <<external_pending, unseen>>

(* flush_async_notifications()                                             *)
FlushAsync ==
  /\ queue' = AddPending(queue, async_pending, HighPriority)
  /\ pending' = pending \cup ToSet(async_pending)
  /\ async_pending' = <<>>
  /\ async_wakeup_sent' = FALSE

(* mp_filter_wakeup() of each filter of the sequence s in turn             *)
FilterWakeup(s) ==
  /\ async_pending' = AddPending(async_pending, s, {})
  /\ wake' = (wake \/ (s # <<>> /\ ~async_wakeup_sent))
  /\ async_wakeup_sent' = (async_wakeup_sent \/ s # <<>>)

-----------------------------------------------------------------------------
(* The process() functions, with what is left of the pending array.        *)

(* mp_pin_out_request_data() of a filter that finds no frame at e          *)
OutRequest(e, q) ==
  IF Connected(e) /\ e \notin requested
  THEN requested' = requested \cup {e} /\ AddPendingPin(e, Src[e], q)
  ELSE UNCHANGED requested /\ NothingPending(q)

(* mp_pin_in_write() to e, after the frame of the edges in read was taken. *)
InWrite(e, read, q) ==
  /\ data' = (data \ read) \cup {e}
  /\ requested' = requested \ {e}
  /\ AddPendingPin(e, Dst[e], q)

(* Mutant of ProcessSource: the demuxer is not told to wake the filter.    *)
ProcessSourceQuietly(f, q) ==
  IF OutEdge(f) \in requested /\ ready[f]
  THEN /\ InWrite(OutEdge(f), {}, q)
       /\ ready' = [ready EXCEPT ![f] = FALSE]
       /\ UNCHANGED need_wakeup
  ELSE NothingPending(q) /\ UNCHANGED <<requested, data, ready, need_wakeup>>

ProcessSource(f, q) ==
  IF OutEdge(f) \in requested
  THEN IF ready[f]
       THEN /\ InWrite(OutEdge(f), {}, q)
            /\ ready' = [ready EXCEPT ![f] = FALSE]
            /\ need_wakeup' = [need_wakeup EXCEPT ![f] = FALSE]
       ELSE /\ need_wakeup' = [need_wakeup EXCEPT ![f] = TRUE]
            /\ NothingPending(q)
            /\ UNCHANGED <<requested, data, ready>>
  ELSE NothingPending(q) /\ UNCHANGED <<requested, data, ready, need_wakeup>>

ProcessConverter(f, q) ==
  /\ IF OutEdge(f) \notin requested
     THEN NothingPending(q) /\ UNCHANGED <<requested, data>>
     ELSE IF InEdge(f) \in data
          THEN InWrite(OutEdge(f), {InEdge(f)}, q)
          ELSE OutRequest(InEdge(f), q) /\ UNCHANGED data
  /\ UNCHANGED <<ready, need_wakeup>>

(* Whether the queue has room for one more frame after this one is up to   *)
(* its other end; if it has, the next frame is requested at once.          *)
ProcessSink(f, q) ==
  /\ IF ready[f]
     THEN IF InEdge(f) \in data
          THEN /\ data' = data \ {InEdge(f)}
               /\ \/ ready' = [ready EXCEPT ![f] = FALSE]
                     /\ NothingPending(q) /\ UNCHANGED requested
                  \/ OutRequest(InEdge(f), q) /\ UNCHANGED ready
          ELSE OutRequest(InEdge(f), q) /\ UNCHANGED <<data, ready>>
     ELSE NothingPending(q) /\ UNCHANGED <<requested, data, ready>>
  /\ UNCHANGED need_wakeup

(* The root filter has no process().                                       *)
Process(f, q) ==
  \/ f = Root /\ NothingPending(q) /\ UNCHANGED <<requested, data, ready, need_wakeup>>
  \/ f # Root /\ CASE Kind[f] = "source" -> ProcessSource(f, q)
                   [] Kind[f] = "converter" -> ProcessConverter(f, q)
                   [] OTHER -> ProcessSink(f, q)

-----------------------------------------------------------------------------
(* mp_filter_graph_run()                                                   *)

EnterRun ==
  /\ pc = "enter"
  /\ FlushAsync
  /\ exit_req' = FALSE
  /\ pc' = "top"
  /\ UNCHANGED <<alive, pinVars, intVars, wake, external_pending, recursive>>

(* Mutant of TakeInterrupt: the run ends without the wakeup callback.      *)
TakeInterruptQuietly ==
  /\ pc = "top"
  /\ exit_req' = (exit_req \/ interrupt_flag)
  /\ interrupt_flag' = FALSE
  /\ pc' = IF queue = <<>> THEN "refill" ELSE "pick"
  /\ UNCHANGED <<alive, queue, pending, external_pending, recursive,
                 asyncVars, pinVars, interrupts>>

(* The loop's start: an interrupt makes the run end, and calls the wakeup  *)
(* callback so that the user runs the graph again.                         *)
TakeInterrupt ==
  /\ pc = "top"
  /\ wake' = (wake \/ (interrupt_flag /\ ~async_wakeup_sent))
  /\ async_wakeup_sent' = (async_wakeup_sent \/ interrupt_flag)
  /\ exit_req' = (exit_req \/ interrupt_flag)
  /\ interrupt_flag' = FALSE
  /\ pc' = IF queue = <<>> THEN "refill" ELSE "pick"
  /\ UNCHANGED <<alive, queue, pending, external_pending, recursive,
                 async_pending, pinVars, interrupts>>

Refill ==
  /\ pc = "refill"
  /\ FlushAsync
  /\ pc' = "pick"
  /\ UNCHANGED <<alive, pinVars, intVars, wake, external_pending, recursive, exit_req>>

(* The position of the filter to process next, 0 if the run is to end.     *)
NextToRun ==
  CASE queue = <<>> -> 0
    [] queue # <<>> /\ queue[1] \in HighPriority -> 1
    [] OTHER -> IF exit_req THEN 0 ELSE Len(queue)

(* process() of one filter; max_run_time may be over then.                 *)
RunFilter ==
  /\ pc = "pick" /\ NextToRun # 0
  /\ Process(queue[NextToRun], RemoveAt(queue, NextToRun))
  /\ cutoff' = cutoff \ {queue[NextToRun]}
  /\ \/ UNCHANGED intVars
     \/ /\ interrupts < MaxInterrupts
        /\ interrupts' = interrupts + 1 /\ interrupt_flag' = TRUE
  /\ pc' = "top"
  /\ UNCHANGED <<alive, asyncVars, recursive, exit_req>>

(* In filter_recursive() the result stays in external_pending.  Else the   *)
(* user wakes himself up if there are news, and goes to mp_wait_events().  *)
EndRun ==
  /\ pc = "pick" /\ NextToRun = 0
  /\ IF recursive # None
     THEN /\ pc' = "think"
          /\ UNCHANGED <<external_pending, wake, unseen>>
     ELSE /\ pc' = "wait"
          /\ external_pending' = FALSE
          /\ wake' = (wake \/ external_pending)
          /\ unseen' = IF external_pending THEN {} ELSE unseen
  /\ recursive' = None
  /\ UNCHANGED <<alive, queue, pending, exit_req, async_pending, async_wakeup_sent,
                 requested, data, ready, need_wakeup, cutoff, intVars>>

-----------------------------------------------------------------------------
(* The user's thread                                                       *)

Run ==
  /\ pc = "think"
  /\ pc' = "enter"
  /\ UNCHANGED <<alive, runVars, asyncVars, pinVars, intVars>>

(* mp_pin_out_read() of an external pin, when there is a frame             *)
ReadExternal(e) ==
  /\ pc = "think" /\ e \in data
  /\ data' = data \ {e}
  /\ unseen' = unseen \ {e}
  /\ UNCHANGED <<alive, runVars, asyncVars, requested, ready, need_wakeup, cutoff, intVars, pc>>

(* ... and when there is none: the request enters recursive filtering.     *)
RequestExternal(e) ==
  /\ pc = "think" /\ e \notin data /\ Connected(e)
  /\ OutRequest(e, queue)
  /\ recursive' = e
  /\ pc' = "enter"
  /\ UNCHANGED <<alive, exit_req, asyncVars, data, ready, need_wakeup, cutoff, intVars>>

(* What the reset of the pins of the filters of G loses.                   *)
LostBy(G) == UNION {OwnedBy(f) : f \in G}

(* Its converters that had asked for a frame for another filter, which     *)
(* still waits for it: mp_filter_reset() makes nobody pending.             *)
CutOff(G) ==
  {f \in G : Kind[f] = "converter" /\ OutEdge(f) \in requested \ LostBy(G)}

(* Mutant of Reset: the filters' reset() is not called.                    *)
ResetPins(G) ==
  /\ pc = "think"
  /\ requested' = requested \ LostBy(G)
  /\ data' = data \ LostBy(G)
  /\ unseen' = unseen \ LostBy(G)
  /\ cutoff' = cutoff \cup CutOff(G)
  /\ UNCHANGED <<alive, runVars, asyncVars, ready, need_wakeup, intVars, pc>>

(* mp_filter_reset() of the filters of G that exist; the reset() of a sink *)
(* wakes it.                                                               *)
Reset(G) ==
  /\ pc = "think"
  /\ requested' = requested \ LostBy(G)
  /\ data' = data \ LostBy(G)
  /\ unseen' = unseen \ LostBy(G)
  /\ cutoff' = cutoff \cup CutOff(G)
  /\ FilterWakeup(SetToSeq({f \in G : Kind[f] = "sink"}))
  /\ UNCHANGED <<alive, runVars, ready, need_wakeup, intVars, pc>>

(* Mutant of Free: the async notifications are not flushed.                *)
FreeUnflushed(f) ==
  /\ pc = "think" /\ f \in alive \cap MayFree
  /\ alive' = alive \ {f}
  /\ requested' = requested \ EdgesOf(f)
  /\ data' = data \ EdgesOf(f)
  /\ unseen' = unseen \ EdgesOf(f)
  /\ cutoff' = cutoff \ {f}
  /\ queue' = RemoveFirst(queue, f)
  /\ pending' = pending \ {f}
  /\ ready' = [ready EXCEPT ![f] = Kind[f] = "sink"]
  /\ need_wakeup' = [need_wakeup EXCEPT ![f] = FALSE]
  /\ UNCHANGED <<external_pending, recursive, exit_req, asyncVars, intVars, pc>>

(* filter_destructor()                                                     *)
Free(f) ==
  /\ pc = "think" /\ f \in alive \cap MayFree
  /\ alive' = alive \ {f}
  /\ requested' = requested \ EdgesOf(f)
  /\ data' = data \ EdgesOf(f)
  /\ unseen' = unseen \ EdgesOf(f)
  /\ cutoff' = cutoff \ {f}
  /\ queue' = RemoveFirst(AddPending(queue, async_pending, HighPriority), f)
  /\ pending' = (pending \cup ToSet(async_pending)) \ {f}
  /\ async_pending' = <<>> /\ async_wakeup_sent' = FALSE
  /\ ready' = [ready EXCEPT ![f] = Kind[f] = "sink"]
  /\ need_wakeup' = [need_wakeup EXCEPT ![f] = FALSE]
  /\ UNCHANGED <<external_pending, recursive, exit_req, wake, intVars, pc>>

(* mp_filter_create(): each new pin is connected to the root filter first, *)
(* then to its neighbour, and all of them become pending.  (The priority   *)
(* of the filter itself is set after that.)                                *)
Create(f) ==
  LET neighbours == {g \in alive : EdgesOf(g) \cap EdgesOf(f) # {}}
      ends == IF Kind[f] = "source" THEN <<f, Root>> ELSE <<Root, f>>
  IN /\ pc = "think" /\ f \in MayFree \ alive
     /\ alive' = alive \cup {f}
     /\ queue' = AddPending(queue, ends \o SetToSeq(neighbours), HighPriority \ {f})
     /\ pending' = pending \cup {f, Root} \cup neighbours
     /\ UNCHANGED <<external_pending, recursive, exit_req, asyncVars, pinVars, intVars, pc>>

(* mp_wait_events() returns: because of a wakeup, or for another reason (a *)
(* timeout, an input event).                                               *)
Wake ==
  /\ pc = "wait" /\ wake
  /\ wake' = FALSE /\ pc' = "think"
  /\ UNCHANGED <<alive, runVars, async_pending, async_wakeup_sent, pinVars, intVars>>

OtherEvent ==
  /\ pc = "wait" /\ ~wake
  /\ pc' = "think"
  /\ UNCHANGED <<alive, runVars, asyncVars, pinVars, intVars>>

-----------------------------------------------------------------------------
(* Other threads                                                           *)

(* A packet was read, or the queue's other end made room.                  *)
Ready(f) ==
  /\ f \in alive /\ Kind[f] # "converter" /\ ~ready[f]
  /\ ready' = [ready EXCEPT ![f] = TRUE]
  /\ IF need_wakeup[f] \/ Kind[f] = "sink" THEN FilterWakeup(<<f>>) ELSE UNCHANGED asyncVars
  /\ need_wakeup' = [need_wakeup EXCEPT ![f] = FALSE]
  /\ UNCHANGED <<alive, runVars, requested, data, unseen, cutoff, intVars, pc>>

(* mp_filter_graph_interrupt()                                             *)
Interrupt ==
  /\ interrupts < MaxInterrupts
  /\ interrupts' = interrupts + 1
  /\ interrupt_flag' = TRUE
  /\ UNCHANGED <<alive, runVars, asyncVars, pinVars, pc>>

Running == EnterRun \/ TakeInterrupt \/ Refill \/ RunFilter \/ EndRun

Next ==
  \/ Running
  \/ Run \/ Wake \/ OtherEvent
  \/ \E e \in External : ReadExternal(e) \/ RequestExternal(e)
  \/ \E G \in ResetGroups : Reset(G \cap alive)
  \/ \E f \in Filters : Free(f) \/ Create(f) \/ Ready(f)
  \/ Interrupt

Spec == Init /\ [][Next]_vars

(* The user's loop always comes to mp_filter_graph_run() and sees the      *)
(* wakeup; other threads deliver what was asked for.                       *)
FairSpec == /\ Spec
            /\ WF_vars(Running) /\ WF_vars(Run) /\ WF_vars(Wake)
            /\ \A f \in Filters : WF_vars(Ready(f))

-----------------------------------------------------------------------------
TypeOK ==
  /\ alive \subseteq Filters
  /\ queue \in Seq(Nodes) /\ pending \subseteq Nodes
  /\ async_pending \in Seq(Filters)
  /\ {async_wakeup_sent, interrupt_flag, external_pending, exit_req, wake} \subseteq BOOLEAN
  /\ recursive \in External \cup {None}
  /\ {requested, data} \subseteq SUBSET Edges
  /\ unseen \subseteq External /\ cutoff \subseteq alive
  /\ {ready, need_wakeup} \subseteq [Filters -> BOOLEAN]
  /\ pc \in {"think", "enter", "top", "refill", "pick", "wait"}
  /\ interrupts \in 0..MaxInterrupts

(* "A filter is in this array iff mp_filter_internal.pending==true", each  *)
(* once, and neither array keeps a filter that was freed.                  *)
PendingMatches ==
  /\ IsInjective(queue) /\ ToSet(queue) = pending
  /\ IsInjective(async_pending)
  /\ pending \cup ToSet(async_pending) \subseteq alive \cup {Root}

(* The user sleeps only if nothing is left to be processed, or the wakeup  *)
(* callback was called.                                                    *)
NothingLeft == pc = "wait" /\ ~wake => queue = <<>> /\ async_pending = <<>>

(* f cannot make progress: it waits for a frame, for a request, or for     *)
(* another thread which is going to wake it.                               *)
Blocked(f) ==
  CASE Kind[f] = "source" -> OutEdge(f) \in requested => ~ready[f] /\ need_wakeup[f]
    [] Kind[f] = "converter" ->
         OutEdge(f) \in requested /\ Connected(InEdge(f)) => InEdge(f) \in requested
    [] OTHER -> ready[f] /\ Connected(InEdge(f)) => InEdge(f) \in requested

(* "This runs until the filter graph is blocked" (mp_filter_graph_run): a  *)
(* sleeping user without a wakeup leaves no filter that could go on, but   *)
(* for a converter that was reset alone (mp_output_chain_reset_harder()),  *)
(* which nobody tells that what comes after it still waits for a frame.    *)
GraphBlocked == pc = "wait" /\ ~wake => \A f \in alive : Blocked(f) \/ f \in cutoff

(* mp_filter_graph_run() "returns whether any outside pins have changed    *)
(* state": a sleeping user has seen or was told of every frame in them.    *)
ExternalReported == pc = "wait" /\ ~wake => unseen = {}

(* A request at an external pin is answered, unless the pin is reset or    *)
(* another stream keeps the runner busy forever: pending[] is a stack.     *)
RequestServed ==
  []<>(queue = <<>>) => \A e \in External : e \in requested ~> e \notin requested
=============================================================================

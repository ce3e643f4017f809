------------------------------ MODULE AsyncQueue ------------------------------
(***************************************************************************)
(* filters/f_async_queue.c: a queue between two filter graphs that run on  *)
(* their own threads.  Every function takes q->lock, so each is one        *)
(* action.  "in" is conn[0], the producer's filter, and "out" is conn[1],  *)
(* the consumer's.  A member of pending is a filter whose process() the    *)
(* runner of its graph still owes, after mp_filter_wakeup() or a change of *)
(* its pin.  The graph behind each pin is external: it may deliver a frame *)
(* that was requested, request one, and read one.                          *)
(***************************************************************************)
EXTENDS Naturals, Integers, Sequences, FiniteSets, SequencesExt

CONSTANTS
  Kinds,          (* frames, as records [samples, bytes, eof]              *)
  Configs,        (* the mp_async_queue_config values in use               *)
  MayFree,        (* the ends whose filter may be freed                    *)
  MayFreeQueue,   (* may the user drop its reference?                      *)
  Orderly,        (* which users there are: see orderly                    *)
  ProducerFirst,  (* is there a producer's filter whenever the consumer may *)
                  (* start the reading?                                    *)
  MaxEofs,        (* bound: EOF frames in the queue, whose size is 0       *)
  None            (* no frame                                              *)

Ends == {"in", "out"}

(* mp_frame_is_signaling(): an EOF counts neither samples nor bytes.       *)
ASSUME KindsAssumption ==
  /\ Kinds \subseteq [samples : Nat, bytes : Nat, eof : BOOLEAN]
  /\ \A k \in Kinds : k.eof => k.samples = 0 /\ k.bytes = 0
ASSUME ConfigsAssumption ==
  Configs \subseteq [unit : {"frame", "samples"}, max_samples : Nat \ {0},
                     max_bytes : Nat \ {0}, max_duration : Nat]
ASSUME ModesAssumption ==
  /\ MayFree \subseteq Ends
  /\ Orderly \cup {MayFreeQueue, ProducerFirst} \subseteq BOOLEAN
  /\ MaxEofs \in Nat

DefaultConfig == [unit |-> "frame", max_samples |-> 1, max_bytes |-> 1, max_duration |-> 0]

(* A frame in transit.  It is stale if it was requested before a reset.    *)
Frames == [kind : Kinds, stale : BOOLEAN]

ASSUME NoneAssumption == None \notin Frames

VARIABLES
  cfg, active, reading, samples_size, byte_size, eof_count,
  frames,         (* q->frames[], the newest first as in the code          *)
  conn,           (* the ends with q->conn[] set                           *)
  refcount, handle,  (* handle: the user still holds its mp_async_queue    *)
  freed,
  pending,        (* the ends whose filter is to be processed              *)
  data,           (* the frame buffered in the pin at each end             *)
  requested,      (* the ends whose pin has data_requested set             *)
  notify,         (* is a notify filter set?                               *)
  note,           (* is the notify filter to be processed?                 *)
  told,           (* history: of "full" and "empty", which of them holds   *)
                  (* and the notify filter ran since it does (see Untold)  *)
  crashed,        (* a NULL filter was woken                               *)
  srcEof,         (* the producer's last frame was an EOF                  *)
  srcStale,       (* the producer has not been reset since the queue was   *)
  toReset,        (* the filters still to reset in a global reset          *)
  orderly         (* the user follows the "proper global reset" of the     *)
                  (* header, and frees filters of inactive queues only     *)

queueVars == <<cfg, active, reading, samples_size, byte_size, eof_count, frames>>
lifeVars == <<conn, refcount, handle, freed, crashed>>
pinVars == <<data, requested, srcEof, srcStale, toReset>>
noteVars == <<notify, note, told>>
vars == <<queueVars, lifeVars, pinVars, noteVars, pending, orderly>>

-----------------------------------------------------------------------------
(* The size of a frame in the unit u (frame_get_samples).                  *)
FrameSamples(u, f) == CASE f.kind.eof -> 0
                        [] u = "samples" -> f.kind.samples
                        [] OTHER -> 1

(* Consecutive frames are one unit of time apart; an EOF has no timestamp. *)
IsFull ==
  \/ samples_size >= cfg.max_samples
  \/ byte_size >= cfg.max_bytes
  \/ /\ Len(frames) >= 2 /\ cfg.max_duration > 0
     /\ ~Last(frames).kind.eof /\ ~Head(frames).kind.eof
     /\ Len(frames) - 1 >= cfg.max_duration

(* Mutant of Account: an EOF is only ever counted.                         *)
AccountEofUp(f, dir) ==
  /\ samples_size' = samples_size + dir * FrameSamples(cfg.unit, f)
  /\ byte_size' = byte_size + dir * f.kind.bytes
  /\ eof_count' = eof_count + IF f.kind.eof THEN 1 ELSE 0

Account(f, dir) ==
  /\ samples_size' = samples_size + dir * FrameSamples(cfg.unit, f)
  /\ byte_size' = byte_size + dir * f.kind.bytes
  /\ eof_count' = eof_count + IF f.kind.eof THEN dir ELSE 0

(* The sizes of a sequence of frames, added up.                            *)
Total(sizes) ==
  LET sum[n \in 0..Len(sizes)] == IF n = 0 THEN 0 ELSE sum[n - 1] + sizes[n]
  IN  sum[Len(sizes)]

SamplesOf(u, q) == Total([i \in 1..Len(q) |-> FrameSamples(u, q[i])])
BytesOf(q) == Total([i \in 1..Len(q) |-> q[i].kind.bytes])
EofsOf(q) == Total([i \in 1..Len(q) |-> IF q[i].kind.eof THEN 1 ELSE 0])

(* What is_full() and num_frames tell the notify filter.                   *)
Conditions == {c \in {"full", "empty"} : IF c = "full" THEN IsFull ELSE frames = <<>>}

(* mp_async_queue_create(); the configuration is the clamped default.      *)
Init ==
  /\ cfg = DefaultConfig
  /\ active = FALSE /\ reading = FALSE
  /\ samples_size = 0 /\ byte_size = 0 /\ eof_count = 0
  /\ frames = <<>>
  /\ conn = {} /\ refcount = 1 /\ handle = TRUE /\ freed = FALSE
  /\ pending = {}
  /\ data = [e \in Ends |-> None] /\ requested = {}
  /\ notify = FALSE /\ note = FALSE /\ told = {}
  /\ crashed = FALSE
  /\ srcEof = FALSE /\ srcStale = FALSE
  /\ toReset = {}
  /\ orderly \in Orderly

-----------------------------------------------------------------------------
(* The functions for the user of the queue, on any thread.                 *)

ClearQueue ==
  /\ active' = FALSE /\ reading' = FALSE
  /\ frames' = <<>>
  /\ samples_size' = 0 /\ byte_size' = 0 /\ eof_count' = 0
  /\ UNCHANGED cfg

(* Mutant of QueueReset: the queued frames stay.                           *)
QueueResetFlagsOnly ==
  /\ handle
  /\ active' = FALSE /\ reading' = FALSE
  /\ pending' = pending \cup conn
  /\ data' = [e \in Ends |-> IF data[e] = None THEN None ELSE [data[e] EXCEPT !.stale = TRUE]]
  /\ frames' = [i \in DOMAIN frames |-> [frames[i] EXCEPT !.stale = TRUE]]
  /\ srcStale' = ("in" \in conn)
  /\ toReset' = conn
  /\ UNCHANGED <<lifeVars, requested, srcEof, notify, note, cfg, samples_size,
                 byte_size, eof_count>>

(* Whatever is in a pin, or has been requested, is from before the reset.  *)
QueueReset ==
  /\ handle
  /\ ClearQueue
  /\ pending' = pending \cup conn
  /\ data' = [e \in Ends |-> IF data[e] = None THEN None ELSE [data[e] EXCEPT !.stale = TRUE]]
  /\ srcStale' = ("in" \in conn)
  /\ toReset' = conn
  /\ UNCHANGED <<lifeVars, requested, srcEof, notify, note>>

MayResume == handle /\ (orderly => toReset = {})

Resume ==
  /\ MayResume /\ (ProducerFirst => "in" \in conn)
  /\ ~active
  /\ active' = TRUE
  /\ pending' = pending \cup (conn \cap {"out"})
  /\ UNCHANGED <<lifeVars, pinVars, notify, note, cfg, reading, samples_size,
                 byte_size, eof_count, frames>>

ResumeReading ==
  /\ MayResume
  /\ ~active \/ ~reading
  /\ active' = TRUE /\ reading' = TRUE
  /\ pending' = pending \cup conn
  /\ UNCHANGED <<lifeVars, pinVars, notify, note, cfg, samples_size, byte_size,
                 eof_count, frames>>

SetConfig(c) ==
  /\ handle /\ c # cfg
  /\ cfg' = c
  /\ IF c.unit = cfg.unit
       THEN UNCHANGED <<samples_size, byte_size, eof_count>>
       ELSE /\ samples_size' = SamplesOf(c.unit, frames)
            /\ byte_size' = BytesOf(frames)
            /\ eof_count' = EofsOf(frames)
  /\ UNCHANGED <<lifeVars, pinVars, notify, note, active, reading, frames, pending>>

(* Mutant of CreateFilter: the filter holds no reference.                  *)
CreateFilterUncounted(e) ==
  /\ handle /\ e \notin conn
  /\ conn' = conn \cup {e}
  /\ pending' = pending \cup {e}
  /\ srcEof' = (srcEof /\ e # "in") /\ srcStale' = (srcStale /\ e # "in")
  /\ UNCHANGED <<queueVars, refcount, handle, freed, crashed, data, requested,
                 toReset, notify, note>>

(* A new filter is pending, because its pin gets connected.                *)
CreateFilter(e) ==
  /\ handle /\ e \notin conn
  /\ conn' = conn \cup {e}
  /\ refcount' = refcount + 1
  /\ pending' = pending \cup {e}
  /\ srcEof' = (srcEof /\ e # "in") /\ srcStale' = (srcStale /\ e # "in")
  /\ UNCHANGED <<queueVars, handle, freed, crashed, data, requested, toReset,
                 notify, note>>

SetNotifier ==
  /\ "in" \in conn /\ ~notify
  /\ notify' = TRUE /\ note' = TRUE
  /\ UNCHANGED <<queueVars, lifeVars, pinVars, pending>>

(* The last reference frees the queue, for which no filter is left to wake.*)
Unref ==
  /\ refcount' = refcount - 1
  /\ freed' = (refcount = 1)
  /\ IF refcount = 1 THEN ClearQueue ELSE UNCHANGED queueVars

FreeQueue ==
  /\ MayFreeQueue /\ handle
  /\ handle' = FALSE
  /\ Unref
  /\ UNCHANGED <<conn, crashed, pinVars, notify, note, pending>>

(* mp_filter's destructor also clears the pin and forgets what is pending. *)
FreeFilter(e) ==
  /\ e \in MayFree /\ e \in conn
  /\ orderly => ~active
  /\ ProducerFirst => e = "out" \/ ~active \/ reading
  /\ conn' = conn \ {e}
  /\ Unref
  /\ pending' = pending \ {e} /\ requested' = requested \ {e}
  /\ data' = [data EXCEPT ![e] = None]
  /\ toReset' = toReset \ {e}
  /\ notify' = (notify /\ e # "in") /\ note' = (note /\ e # "in")
  /\ UNCHANGED <<handle, crashed, srcEof, srcStale>>

-----------------------------------------------------------------------------
(* The two filters, each on the thread of its graph.                       *)

(* Mutant of Tell: an emptied queue is not told of.                        *)
TellFull(full) == note' = (note \/ (notify /\ full))

(* End of process_in(): full if a frame has just filled the queue.         *)
Tell(full) == note' = (note \/ (notify /\ (full \/ frames' = <<>>)))

Discard ==
  /\ ~reading
  /\ data' = [data EXCEPT !["in"] = None]
  /\ pending' = pending \ {"in"}
  /\ UNCHANGED <<queueVars, requested>>
  /\ Tell(FALSE)

(* Mutant of Accept: frames are queued at the wrong end.                   *)
AcceptAtEnd ==
  /\ reading /\ ~IsFull /\ data["in"] # None
  /\ frames' = Append(frames, data["in"])
  /\ Account(data["in"], 1)
  /\ data' = [data EXCEPT !["in"] = None]
  /\ pending' = (pending \ {"in"}) \cup (conn \cap {"out"})
  /\ UNCHANGED <<cfg, active, reading>>
  /\ requested' = IF IsFull' THEN requested ELSE requested \cup {"in"}
  /\ Tell(IsFull')

(* Mutant of Accept: the reader is told only of the first frame.           *)
AcceptQuietly ==
  /\ reading /\ ~IsFull /\ data["in"] # None
  /\ frames' = <<data["in"]>> \o frames
  /\ Account(data["in"], 1)
  /\ data' = [data EXCEPT !["in"] = None]
  /\ pending' = pending \ {"in"}
  /\ UNCHANGED <<cfg, active, reading>>
  /\ requested' = IF IsFull' THEN requested ELSE requested \cup {"in"}
  /\ Tell(IsFull')

(* The next frame is requested only if the queue still has room.           *)
Accept ==
  /\ reading /\ ~IsFull /\ data["in"] # None
  /\ frames' = <<data["in"]>> \o frames
  /\ Account(data["in"], 1)
  /\ data' = [data EXCEPT !["in"] = None]
  /\ pending' = (pending \ {"in"}) \cup (conn \cap {"out"})
  /\ UNCHANGED <<cfg, active, reading>>
  /\ requested' = IF IsFull' THEN requested ELSE requested \cup {"in"}
  /\ Tell(IsFull')

Request ==
  /\ reading /\ ~IsFull /\ data["in"] = None
  /\ requested' = requested \cup {"in"}
  /\ pending' = pending \ {"in"}
  /\ UNCHANGED <<queueVars, data>>
  /\ Tell(FALSE)

(* Not even requested: a frame that is in the pin stays there.             *)
NoRoom ==
  /\ reading /\ IsFull
  /\ pending' = pending \ {"in"}
  /\ UNCHANGED <<queueVars, data, requested>>
  /\ Tell(FALSE)

ProcessIn ==
  /\ "in" \in pending
  /\ Discard \/ Accept \/ Request \/ NoRoom
  /\ UNCHANGED <<lifeVars, srcEof, srcStale, toReset, notify>>

(* Mutant of WakesIn: the writer is not told that there is room.           *)
WakesInOnce == ~reading

(* process_out() wakes conn[0] without a check when it starts the reading. *)
WakesIn == ~reading \/ frames # <<>>

ProcessOut ==
  /\ "out" \in pending
  /\ IF active /\ "out" \in requested
       THEN /\ reading' = TRUE
            /\ crashed' = (~reading /\ "in" \notin conn)
            /\ pending' = (pending \ {"out"}) \cup (IF WakesIn THEN conn \cap {"in"} ELSE {})
            /\ IF frames = <<>>
                 THEN UNCHANGED <<samples_size, byte_size, eof_count, frames, data, requested>>
                 ELSE /\ frames' = SubSeq(frames, 1, Len(frames) - 1)
                      /\ Account(frames[Len(frames)], -1)
                      /\ data' = [data EXCEPT !["out"] = frames[Len(frames)]]
                      /\ requested' = requested \ {"out"}
            /\ UNCHANGED <<cfg, active>>
       ELSE /\ pending' = pending \ {"out"}
            /\ UNCHANGED <<queueVars, crashed, data, requested>>
  /\ UNCHANGED <<conn, refcount, handle, freed, srcEof, srcStale, toReset, notify, note>>

(* Mutant of FilterReset: the writer does not ask for its input again.     *)
FilterResetOnly(e) ==
  /\ e \in conn
  /\ orderly => e \in toReset
  /\ data' = [data EXCEPT ![e] = None] /\ requested' = requested \ {e}
  /\ toReset' = toReset \ {e}
  /\ srcEof' = (srcEof /\ e # "in") /\ srcStale' = (srcStale /\ e # "in")
  /\ UNCHANGED <<queueVars, lifeVars, notify, note, pending>>

(* mp_filter_reset() of a graph: the pin, and then reset() of the filter.  *)
(* The producer's graph starts over with fresh frames.                     *)
FilterReset(e) ==
  /\ e \in conn
  /\ orderly => e \in toReset
  /\ data' = [data EXCEPT ![e] = None] /\ requested' = requested \ {e}
  /\ toReset' = toReset \ {e}
  /\ srcEof' = (srcEof /\ e # "in") /\ srcStale' = (srcStale /\ e # "in")
  /\ pending' = IF e = "in" /\ reading THEN pending \cup {e} ELSE pending
  /\ UNCHANGED <<queueVars, lifeVars, notify, note>>

-----------------------------------------------------------------------------
(* The graphs at the pins (external).                                      *)

(* mp_pin_in_write() by the filter before "in"; after an EOF comes no EOF. *)
Deliver(k) ==
  /\ "in" \in requested
  /\ k.eof => ~srcEof /\ eof_count < MaxEofs
  /\ data' = [data EXCEPT !["in"] = [kind |-> k, stale |-> srcStale]]
  /\ requested' = requested \ {"in"}
  /\ srcEof' = k.eof
  /\ pending' = pending \cup {"in"}
  /\ UNCHANGED <<queueVars, lifeVars, srcStale, toReset, notify, note>>

SinkRequest ==
  /\ "out" \in conn /\ "out" \notin requested /\ data["out"] = None
  /\ requested' = requested \cup {"out"}
  /\ pending' = pending \cup {"out"}
  /\ UNCHANGED <<queueVars, lifeVars, data, srcEof, srcStale, toReset, notify, note>>

SinkRead ==
  /\ data["out"] # None
  /\ data' = [data EXCEPT !["out"] = None]
  /\ UNCHANGED <<queueVars, lifeVars, requested, srcEof, srcStale, toReset,
                 notify, note, pending>>

(* The notify filter's process() looks at is_full() and get_frames().      *)
NotifierRuns ==
  /\ note
  /\ note' = FALSE
  /\ told' = Conditions
  /\ UNCHANGED <<queueVars, lifeVars, pinVars, notify, pending>>

(* What becomes so without a call of mp_filter_wakeup(): new limits make   *)
(* the queue full, or the EOF that hid how long it is was read from it.    *)
Untold ==
  LET readsEof == frames # <<>> /\ Last(frames).kind.eof /\ Len(frames') < Len(frames)
  IN  IF cfg' # cfg \/ readsEof THEN {"full"} ELSE {}

Step ==
  \/ QueueReset \/ Resume \/ ResumeReading
  \/ \E c \in Configs : SetConfig(c)
  \/ \E e \in Ends : CreateFilter(e) \/ FreeFilter(e) \/ FilterReset(e)
  \/ SetNotifier \/ FreeQueue
  \/ ProcessIn \/ ProcessOut
  \/ (\E k \in Kinds : Deliver(k)) \/ SinkRequest \/ SinkRead

Next ==
  /\ ~crashed
  /\ UNCHANGED orderly
  /\ \/ Step /\ told' = Conditions' \cap (told \cup Untold)
     \/ NotifierRuns

Spec == Init /\ [][Next]_vars

(* Both threads run their graph when it is due, and the producer's graph   *)
(* answers requests.                                                       *)
FairSpec == /\ Spec
            /\ WF_vars(Next /\ ProcessIn) /\ WF_vars(Next /\ ProcessOut)
            /\ WF_vars(Next /\ \E k \in Kinds : Deliver(k))

-----------------------------------------------------------------------------
(* The accounted sizes and the EOF count are those of the frames that are  *)
(* queued, whatever the order of writes, reads, resets and changes of the  *)
(* unit (account_frame, recompute_sizes).                                  *)
SizesMatch ==
  /\ samples_size = SamplesOf(cfg.unit, frames)
  /\ byte_size = BytesOf(frames)
  /\ eof_count = EofsOf(frames)

(* The producer never sleeps while the queue is empty and is being read:   *)
(* its filter is to be processed or has asked its graph for a frame.       *)
ProducerAwake ==
  "in" \in conn /\ reading /\ frames = <<>> => "in" \in pending \cup requested

(* A consumer that waits in an active queue has seen it empty and started  *)
(* the reading: no frame is left unnoticed by process_out().               *)
ConsumerAwake ==
  active /\ "out" \in requested \ pending => reading /\ frames = <<>>

(* mp_async_queue_set_notifier(): when the queue became full or empty, the *)
(* notify filter has run since, is to run, or process_in() will have it    *)
(* run.  (Not so for a queue that became full as Untold says.)             *)
NotifierAwake ==
  notify /\ ~note => /\ IsFull => "full" \in told
                     /\ frames = <<>> => "empty" \in told \/ "in" \in pending

(* The queue lives exactly as long as the user's handle or a filter.       *)
AliveWhileUsed == freed <=> conn = {} /\ ~handle

(* After the proper global reset no frame from before it is in transit     *)
(* once the queue is active again, however the threads interleave.         *)
NothingStale ==
  orderly /\ active => /\ \A i \in DOMAIN frames : ~frames[i].stale
            /\ \A e \in Ends : data[e] # None => ~data[e].stale

(* "The filter can be freed at any time" (mp_async_queue_create_filter).   *)
FilterMayGo == ~crashed

InTransit(e) == IF data[e] = None THEN <<>> ELSE <<data[e].kind>>
KindsOf(q) == [i \in DOMAIN q |-> Reverse(q)[i].kind]

(* The stream of an orderly user: the consumer's pin, the queue with its   *)
(* oldest frame first, and the producer's pin.                             *)
Carried == IF orderly THEN (InTransit("out") \o KindsOf(frames)) \o InTransit("in") ELSE <<>>
Running == orderly /\ active
Stream == INSTANCE FrameStream WITH Frames <- Kinds, stream <- Carried, active <- Running

(* For an orderly user the queue and its two pins are one FIFO stream that  *)
(* loses frames only while it is inactive.                                 *)
ImplementsStream == Stream!Spec

(* A consumer that requests a frame from an active queue gets one, unless  *)
(* the queue is reset.  (A user who resets the producer again and again    *)
(* can prevent it.)                                                        *)
ConsumerServed ==
  (orderly /\ active /\ "out" \in requested /\ "in" \in conn) ~> (~active \/ "out" \notin requested)
==============================================================================

----------------------------- MODULE FrameStream -----------------------------
(***************************************************************************)
(* What mp_async_queue promises to the two filter graphs it connects: the  *)
(* frames between the producer's pin and the consumer's pin are one FIFO   *)
(* stream, and frames disappear from it only when the queue is stopped, or *)
(* while it is (f_async_queue.h, "proper global reset").                   *)
(***************************************************************************)
EXTENDS Naturals, Sequences

CONSTANT Frames

VARIABLES stream,     (* the frames in transit, the oldest first           *)
          active

sVars == <<stream, active>>

(* t is s without one contiguous piece.                                    *)
IsCut(t, s) ==
  \E i \in 0..Len(s), j \in 1..Len(s) + 1 : t = SubSeq(s, 1, i) \o SubSeq(s, j, Len(s))

Init == stream = <<>> /\ active = FALSE

Put(f) == stream' = Append(stream, f) /\ UNCHANGED active

Get == stream # <<>> /\ stream' = Tail(stream) /\ UNCHANGED active

Start == active' = TRUE /\ UNCHANGED stream

Stop == active' = FALSE /\ IsCut(stream', stream)

Lose == ~active /\ IsCut(stream', stream) /\ UNCHANGED active

Next == (\E f \in Frames : Put(f)) \/ Get \/ Start \/ Stop \/ Lose

Spec == Init /\ [][Next]_sVars
==============================================================================

---------------------------- MODULE MCAsyncQueue ----------------------------
(* The instances of AsyncQueue for TLC.                                    *)
EXTENDS AsyncQueue

Packet == [samples |-> 2, bytes |-> 2, eof |-> FALSE]
Eof == [samples |-> 0, bytes |-> 0, eof |-> TRUE]
MCKinds == {Packet, Eof}

(* By frames and bytes, and by samples and duration.                       *)
ByFrames == [unit |-> "frame", max_samples |-> 2, max_bytes |-> 3, max_duration |-> 0]
BySamples == [unit |-> "samples", max_samples |-> 5, max_bytes |-> 9, max_duration |-> 1]
MCConfigs == {ByFrames, BySamples}
=============================================================================

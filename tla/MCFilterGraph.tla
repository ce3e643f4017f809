---------------------------- MODULE MCFilterGraph ----------------------------
(* The graph of the player for TLC: video packets go through a decoder to  *)
(* the external pin that the playloop reads, audio packets through the     *)
(* output chain, which is also reset alone, to the queue of the audio      *)
(* output.                                                                 *)
EXTENDS FilterGraph

CONSTANTS demux_video, decoder, demux_audio, af_chain, ao_queue

MCFilters == {demux_video, decoder, demux_audio, af_chain, ao_queue}
MCEdges == {"packets", "frames", "audio", "samples"}
MCSrc == [packets |-> demux_video, frames |-> decoder, audio |-> demux_audio,
          samples |-> af_chain]
MCDst == [packets |-> decoder, frames |-> Root, audio |-> af_chain,
          samples |-> ao_queue]
MCKind == [f \in MCFilters |-> CASE f \in {decoder, af_chain} -> "converter"
                                [] f = ao_queue -> "sink"
                                [] OTHER -> "source"]
MCResetGroups == {MCFilters, {decoder}, {af_chain}, {ao_queue}}
=============================================================================

SPECIFICATION FairSpec
CONSTANTS
  demux_video = demux_video
  decoder = decoder
  demux_audio = demux_audio
  af_chain = af_chain
  ao_queue = ao_queue
  Root = root
  None = none
  Filters <- MCFilters
  Edges <- MCEdges
  Src <- MCSrc
  Dst <- MCDst
  Kind <- MCKind
  HighPriority = {ao_queue}
  MayFree = {ao_queue}
  ResetGroups <- MCResetGroups
  MaxInterrupts = 1
INVARIANTS
  TypeOK
  PendingMatches
  NothingLeft
  GraphBlocked
PROPERTIES
  RequestServed

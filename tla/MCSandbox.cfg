\* Two bytes stand for 64 MiB: every length around the cap, the chunk and the
\* pipe is reached, on both streams at once.
SPECIFICATION Spec
CONSTANTS
  Cap = 2
  ChunkSize = 2
  PipeSize = 2
  InputSize = 3
  MaxOutput = 4
INVARIANTS
  TypeOK
  ResultIsSound
  HealthyRunReturns
  OverflowNamesCulprit
PROPERTIES
  CallEnds
  OutputDrained
CHECK_DEADLOCK FALSE

CONSTANTS
  Files = {f1}
  FuseThreads = {t1}
  Llm = llm
  Contents <- MCContents
  Messages <- MCMessages
  ChunkSize = 4
  Overlap = 1
  Probe = 2
  TopK = 2
  NoTask = NoTask
  MaxCalls = 2
  MaxCrashes = 1
SPECIFICATION Spec
INVARIANTS TypeOK ChunksCover IndexFaithful SearchRanks DrainsFirst
PROPERTIES Progress
CHECK_DEADLOCK FALSE

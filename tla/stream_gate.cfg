SPECIFICATION Spec
CONSTANTS
  c1 = c1  c2 = c2
  f1 = f1  f2 = f2  f3 = f3  f4 = f4
  Chunks <- MCChunks
  Findings <- MCFindings
  ChunkRank <- MCChunkRank
  ChunkOf <- MCChunkOf
  DefectOf <- MCDistinctDefects
  Policy <- MCFindings
  QueueEnd = QueueEnd
  NoFinding = NoFinding
  AuditWorkers = 2
  Parallel = 1
  AsanLimit = 1
  GateFloor = 3
PROPERTIES
  GateMeansZeroSuccesses

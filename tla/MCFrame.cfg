SPECIFICATION Spec
CONSTANTS
  Byte <- MCByte
  Protocols <- MCProtocols
  CandidateLen <- MCCandidateLen
  HeaderLen <- MCHeaderLen
  MaxFrame <- MCMaxFrame
  OnCorrupt <- MCOnCorrupt
  ScanPastIncomplete <- MCScan
  Candidate <- MCCandidate
  Measure <- MCMeasure
  Verify <- MCVerify
  Body <- MCBody
  N <- MCN
  StatMax = 2
  Chunks <- MCChunks
  MaxOffered = 5
INVARIANTS
  BytesAccounted
  NeverStalls
  NoFrameLost
  ChunkingDoesNotMatter
  StatsExact
PROPERTIES
  ImplementsFraming
  NeedIsLowerBoundWithoutScan
  PopReturns

SPECIFICATION ConnSpec
CHECK_DEADLOCK FALSE
CONSTANTS
  c1 = c1
  c2 = c2
  Nobody = Nobody
  Call <- TwoCalls
  Kinds = {"read", "edit", "render", "malformed"}
  ConnectCap = 1
  HandshakeLimit = 2
  WriteLimit = 2
  Headroom = 1
  IdleLimit = 3
  ExecLimit <- ShortExec
  Ingest = 1
  ResolveBudget = 6
  PhaseBudget <- ShortPhase
  MaxMishaps = 1
  Body = 3
  Chunk = 2
  Room = 2
  MaxRequests = 3
SYMMETRY CallSymmetry
INVARIANTS
  AnswersAreTrue
  BufferOutlivesIo
  FramesInStep
PROPERTIES
  RefetchIsConclusive
  EditMeetsItsCaller
  PromptIsAnswered

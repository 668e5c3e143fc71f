SPECIFICATION MCSpec
CONSTANTS
  t1 = t1  t2 = t2  f1 = f1  u1 = u1  u2 = u2  w1 = w1  w2 = w2  e1 = e1  e2 = e2
  Thread = {t1, t2}
  Fingerprint = {f1}
  MaxCalls = 5
  MaxSeconds = 2
  RunawayMax = 2
  Window = 1
  Horizon = 4
  Documents <- SomeDocuments
  PolicyNames = {"p1", "p2"}
  Upload = {u1, u2}
  Oldest = 2
  Grain = 3
  Day = 5
  LastClock = 2
  LastVersion = 2
  Writer = {w1, w2}
  SecretName = {"lab", "prod"}
  Legacy = {"lab", "prod"}
  SecretValue = {"v1", "v2"}
  LegacyValue = "v1"
  Subjects <- TwoSubjects
  MaxFailures = 1
  MaxLimit = 2
  MaxAltered = 1
  ErasureSet = {e1, e2}
  WriteQuorum = 3
  MaxTargets = 2
SYMMETRY Alike
CHECK_DEADLOCK FALSE
INVARIANTS
  
  BurstBounded
  UndoRestoresSetting
  UndoIsReplayable
  UndoRestoresAccount
  OwnCredentialKept
  ReportedLockTrue
  UndoDeletesOwn
  PreviewForetells
  PurgeSparesYoung
  RetentionGuardTight
  DestroyableTrue
  HoldRestoredOnCurrent
  StoreKeepsUpdates
  AnswersFromStore
  NoFalseAllClear
  FindingsTrue
  CleanVerdictsMeasured
  
PROPERTIES
  RefusalJustified
  MigratedBeforePutAside
  StoreIsAtomic

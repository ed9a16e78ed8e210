\* Two remote pages one after the other, three sessions between them: a session
\* that outlives its page can meet the next page's session and its reconnection.
SPECIFICATION FairSpec
CONSTANTS
  MaxConn = 2
  MaxSess = 3
  MaxBuf = 1
  Sends <- MCSends
INVARIANTS
  TypeOK
  OneSessionUnlessStray
  ClosedIsCutOff
  SecureIsMutual
  LoginAnswersItsChallenge
PROPERTIES
  FailureIsShown
  SessionsSettle
  CutSessionsEnd
CHECK_DEADLOCK FALSE

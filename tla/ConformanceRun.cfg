SPECIFICATION FairSpec
CONSTANTS
  NumRules = 2
  NumCases <- TwoRules
  Excluded <- SecondOfFirst
  fullMode = FALSE
  Generator = {g1, g2}
  Tester = {t1, t2}
  numJobs = 2
  ChannelFactor = 1
  maxErrors = 1
  Outcomes = {"pass", "issue", "panic"}
  NoCase = nocase
INVARIANTS
  NoSendAfterClose
  SuccessMeansTested
  FailuresAreReported
  IssuesBounded
PROPERTIES
  Terminates
CHECK_DEADLOCK FALSE

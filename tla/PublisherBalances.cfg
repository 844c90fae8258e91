SPECIFICATION Spec
CONSTANTS
  WORD = 16
  Accounts = {"alice", "bob"}
  NoJournal = NoJournal
  Configs <- BalanceConfigs
  Requests <- SomeRequests
INVARIANT PreflightPredictsGuest
INVARIANT PublishedPowerIsDelegated
INVARIANT SentJournalIsRequest
 
INVARIANT EvenSplitsConserve
INVARIANT MajorityExact
CHECK_DEADLOCK FALSE

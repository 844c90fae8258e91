SPECIFICATION Spec
CONSTANTS
  WORD = 16
  Accounts = {"alice", "bob"}
  NoJournal = NoJournal
  Configs <- PastVotesConfigs
  Requests <- SomeVotes
INVARIANT PreflightPredictsGuest
CHECK_DEADLOCK FALSE

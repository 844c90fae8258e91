SPECIFICATION Spec
CONSTANTS
  WORD = 16
  Accounts = {"alice", "bob"}
  NoJournal = NoJournal
  Configs <- SplitConfigs
  Requests <- SomeVotes
INVARIANT SplitsConserve
CHECK_DEADLOCK FALSE

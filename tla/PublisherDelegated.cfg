SPECIFICATION Spec
CONSTANTS
  WORD = 16
  Accounts = {"alice", "bob"}
  NoJournal = NoJournal
  Configs <- UndelegatedConfigs
  Requests <- SomeVotes
INVARIANT AttestedPowerIsDelegated
CHECK_DEADLOCK FALSE

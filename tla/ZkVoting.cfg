SPECIFICATION ZkSpec
CONSTANTS
  WORD = 6
  Accounts = {"alice", "bob"}
  Configs <- NoConfigs
  Requests <- SomeRequests
  NoJournal = NoJournal
  Plugin = "plugin"
  Pids = {0}
  Amounts = {2}
  InitialBalances <- Holdings
  MaxBlock = 3
  MaxCalls = 2
  MaxProved = 2
 
INVARIANT NoPowerTwice
INVARIANT TokenSupplyIsSum
CHECK_DEADLOCK FALSE

SPECIFICATION FairSpec
CONSTANTS
  Addresses = {"plugin", "otherPlugin", "verifier", "zeroAddress"}
  VotingImages = {"voting", "revised", "zeroImage"}
  ExecutionImages = {"execution", "zeroImage"}
  Configs = {"config", ""}
  Self = "plugin"
  Verifiers = {"verifier"}
  ZeroAddress = "zeroAddress"
  ZeroImage = "zeroImage"
  NoConfig = ""
  RATIO_BASE = 10
  MIN_DURATION = 2
  MAX_DURATION = 3
  MAX_UINT64 = 4
  MAX_UINT256 = 12
  CLAIM_ID_RANGE = 16
  Voters = {"alice", "bob"}
  Attested <- AttestedHeld
  Supply <- SupplyAt
  Journals <- HeldJournals
  SettingsArgs <- VoteSettings
  DateArgs = {0, 4}
  ActionArgs <- NoActions
  MaxProposals = 2
  MaxBlock = 4
  MaxTime = 4
  MaxCalls = 0
INVARIANT TallyIsLatestVotes
INVARIANT TurnoutWithinSupply
INVARIANT UnknownProposalsEmpty
PROPERTY ProposalsClose

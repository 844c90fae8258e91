SPECIFICATION Spec
CONSTANTS
  Addresses = {"plugin", "otherPlugin", "verifier", "zeroAddress"}
  VotingImages = {"voting", "revised", "zeroImage"}
  ExecutionImages = {"execution", "zeroImage"}
  Configs = {"config", ""}
  Self = "plugin"
  Verifiers = {"verifier"}
  ZeroAddress = "zeroAddress"
  ZeroImage = "zeroImage"
  NoConfig = ""
  RATIO_BASE = 10
  MIN_DURATION = 2
  MAX_DURATION = 3
  MAX_UINT64 = 6
  MAX_UINT256 = 12
  CLAIM_ID_RANGE = 16
  Voters = {"alice", "bob"}
  Attested <- AttestedHeld
  Supply <- SupplyAt
  Journals <- HeldJournals
  SettingsArgs <- Standard
  DateArgs = {0, 3}
  ActionArgs <- NoActions
  MaxProposals = 1
  MaxBlock = 3
  MaxTime = 4
  MaxCalls = 0
PROPERTY ExecutionAfterVote

SPECIFICATION Spec
CONSTANTS
  Addresses = {"plugin", "otherPlugin", "verifier", "zeroAddress"}
  VotingImages = {"voting", "revised", "zeroImage"}
  ExecutionImages = {"execution", "zeroImage"}
  Configs = {"config", ""}
  Self = "plugin"
  Verifiers = {"verifier"}
  ZeroAddress = "zeroAddress"
  ZeroImage = "zeroImage"
  NoConfig = ""
  RATIO_BASE = 10
  MIN_DURATION = 2
  MAX_DURATION = 3
  MAX_UINT64 = 6
  MAX_UINT256 = 12
  CLAIM_ID_RANGE = 16
  Voters = {"alice"}
  Attested <- AttestedHeld
  Supply <- SupplyAt
  Journals <- HeldJournals
  SettingsArgs <- Early
  DateArgs = {0}
  ActionArgs <- OneOrTwoActions
  MaxProposals = 2
  MaxBlock = 2
  MaxTime = 2
  MaxCalls = 2
INVARIANT ExecutedAtMostOnce
INVARIANT ExecutedOnProof
PROPERTY ParametersFrozen
PROPERTY ImplementsBallots

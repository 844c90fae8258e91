---------------------------- MODULE VotingPlugin ----------------------------
(***************************************************************************)
(* The on-chain part of zkGovernance: the RiscVotingProtocolPlugin of a    *)
(* DAO together with the MajorityVotingBase it inherits from.              *)
(*                                                                         *)
(* A transaction runs alone on the chain, so a call that runs to its end   *)
(* is one step, and a call that reverts is not a step at all.  The one     *)
(* call that is not atomic is execute: it hands the actions of a proposal  *)
(* to the DAO, which calls arbitrary contracts, and those can call the     *)
(* plugin again before the first call has returned.  `frames' is the stack *)
(* of execute calls in progress.  Each frame keeps the states the EVM goes *)
(* back to when the call, or the action it is at, reverts.                 *)
(*                                                                         *)
(* A zero-knowledge proof is abstracted to the relation Attested: whether  *)
(* a seal exists that the verifier accepts for an image and a journal.     *)
(*                                                                         *)
(* Some definitions are preceded by a variant that no action uses: what    *)
(* the definition would be with a plausible mistake in the code.  The      *)
(* property the variant violates is listed in PROJECT.json.                *)
(***************************************************************************)
EXTENDS Integers, Sequences, FiniteSets, Functions

CONSTANTS
  Self,              \* address(this), the address of the plugin
  Addresses,         \* addresses of contracts
  VotingImages,      \* image ids of voting guests
  ExecutionImages,   \* image ids of execution guests
  Configs,           \* voting protocol configurations
  Voters,            \* addresses a journal can name as the voter
  Verifiers,         \* addresses that hold the code of a RISC Zero verifier
  ZeroAddress,       \* address(0), no code is deployed there
  ZeroImage,         \* bytes32(0)
  NoConfig,          \* the empty string
  RATIO_BASE,        \* 100%, 10**6 in the code
  MIN_DURATION,      \* the shortest minDuration, 60 minutes in the code
  MAX_DURATION,      \* the longest minDuration, 365 days in the code
  MAX_UINT64,        \* type(uint64).max, the largest date
  MAX_UINT256,       \* type(uint256).max, the largest tally
  CLAIM_ID_RANGE,    \* 2**240, an encoded commitment id is version * 2**240 + claimID
  Attested(_, _),    \* Attested(image, journal): a proof of it exists
  Supply(_)          \* Supply(b): the supply of the token at block b

CONSTANTS            \* the arguments callers pass
  Journals,          \* decoded journals submitted with vote and with execute
  SettingsArgs,      \* voting settings passed to initialize and updateVotingSettings
  DateArgs,          \* values of _startDate and _endDate
  ActionArgs         \* pairs of a number of actions and an allowFailureMap

CONSTANTS            \* bounds of the model
  MaxProposals,      \* proposals created
  MaxBlock,          \* the last block number
  MaxTime,           \* the last block timestamp
  MaxCalls           \* calls back into the plugin within one transaction (the gas)

VARIABLES
  block,             \* block.number
  now,               \* block.timestamp
  state,             \* storage of the plugin and the events emitted so far
  frames,            \* the execute calls in progress, the innermost one last
  calls              \* calls made back into the plugin in this transaction

vars == <<block, now, state, frames, calls>>

(* proposals is a Solidity mapping: every id has a value.  The id          *)
(* MaxProposals stands for the ids that no proposal was created under.     *)
Pids == 0 .. MaxProposals

VotingMode == {"Standard", "EarlyExecution", "VoteReplacement"}

Settings ==
  [votingMode : VotingMode, supportThreshold : Nat, minParticipation : Nat,
   minDuration : Nat, votingProtocolConfig : Configs, verifier : Addresses,
   votingProtocolImageId : VotingImages,
   executionProtocolImageId : ExecutionImages]

ASSUME ConstantTypes ==
  /\ Self \in Addresses /\ ZeroAddress \in Addresses
  /\ Verifiers \subseteq Addresses \ {ZeroAddress}
  /\ ZeroImage \in VotingImages \cap ExecutionImages /\ NoConfig \in Configs
  /\ {RATIO_BASE, MIN_DURATION, MAX_DURATION, MAX_UINT64, MAX_UINT256} \subseteq Nat
  /\ CLAIM_ID_RANGE \in Nat \ {0}
  /\ {MaxProposals, MaxBlock, MaxTime, MaxCalls} \subseteq Nat
  /\ SettingsArgs \subseteq Settings
  /\ DateArgs \subseteq 0 .. MAX_UINT64
  /\ ActionArgs \subseteq [actions : Nat, allowFailureMap : SUBSET Nat]
  /\ Journals \subseteq
       [configContract : Addresses, proposalId : Pids,
        commitment : [id : Nat, digest : Nat], voter : Voters, balance : Nat,
        direction : Nat]

(* The voting guest asserts both before it commits the journal. *)
ASSUME GuestAsserts ==
  \A image \in VotingImages, j \in Journals :
    Attested(image, j) => j.direction \in 1 .. 3 /\ j.balance > 0

(* An address has 160 bits. *)
ASSUME VotersFinite == IsFiniteSet(Voters)

VoteOptions == <<"None", "Abstain", "Yes", "No">>

VoteOption(direction) == VoteOptions[direction + 1]

Tallied == {"Abstain", "Yes", "No"}

EmptyParameters ==
  [votingMode |-> "Standard", supportThreshold |-> 0, startDate |-> 0,
   endDate |-> 0, snapshotBlock |-> 0, snapshotBlockHash |-> 0,
   votingProtocolConfig |-> NoConfig, verifier |-> ZeroAddress,
   votingProtocolImageId |-> ZeroImage, executionProtocolImageId |-> ZeroImage]

EmptyProposal ==
  [executed |-> FALSE, parameters |-> EmptyParameters,
   tally |-> [o \in Tallied |-> 0], voters |-> [v \in Voters |-> "None"],
   actions |-> 0, allowFailureMap |-> {}]

(* Block hashes are distinct and differ from the zero word. *)
BlockHash(b) == b + 1

-----------------------------------------------------------------------------
(***************************************************************************)
(* Voting settings and proposal dates (MajorityVotingBase).                *)
(***************************************************************************)

ValidSettings(s) ==
  /\ s.supportThreshold <= RATIO_BASE - 1
  /\ s.minParticipation <= RATIO_BASE
  /\ MIN_DURATION <= s.minDuration
  /\ s.minDuration <= MAX_DURATION

(* The dates a proposal gets for the arguments _start and _end, 0 meaning  *)
(* the default; DatesValid is that no check reverts, the checked uint64    *)
(* addition in earliestEndDate and the cast of block.timestamp included.   *)
StartDate(start, time) == IF start = 0 THEN time ELSE start

EndDate(start, end, time, minDuration) ==
  IF end = 0 THEN StartDate(start, time) + minDuration ELSE end

DatesValidAnyEnd(start, end, time, minDuration) ==
  /\ time <= MAX_UINT64
  /\ start = 0 \/ start >= time
  /\ StartDate(start, time) + minDuration <= MAX_UINT64

DatesValid(start, end, time, minDuration) ==
  LET earliestEndDate == StartDate(start, time) + minDuration
  IN /\ time <= MAX_UINT64
     /\ start = 0 \/ start >= time
     /\ earliestEndDate <= MAX_UINT64
     /\ end = 0 \/ end >= earliestEndDate

OpenAtEndDate(proposal, time) ==
  /\ proposal.parameters.startDate <= time
  /\ time <= proposal.parameters.endDate
  /\ ~proposal.executed

_isProposalOpen(proposal, time) ==
  /\ proposal.parameters.startDate <= time
  /\ time < proposal.parameters.endDate
  /\ ~proposal.executed

CanExecuteAgain(proposal, time) ==
  /\ time <= MAX_UINT64
  /\ _isProposalOpen(proposal, time)
       => proposal.parameters.votingMode = "EarlyExecution"

_canExecute(proposal, time) ==
  /\ time <= MAX_UINT64
  /\ ~proposal.executed
  /\ _isProposalOpen(proposal, time)
       => proposal.parameters.votingMode = "EarlyExecution"

_canVote(proposal, voter, option, time) ==
  /\ _isProposalOpen(proposal, time)
  /\ option # "None"
  /\ \/ proposal.voters[voter] = "None"
     \/ proposal.parameters.votingMode = "VoteReplacement"

-----------------------------------------------------------------------------
(***************************************************************************)
(* Journals and proofs.                                                    *)
(***************************************************************************)

MatchesAnyBlock(s, j) == j.configContract = Self

(* The journal is for this plugin and its Steel commitment is to the       *)
(* snapshot block of the proposal; the version in the id is not looked at. *)
JournalMatches(s, j) ==
  LET parameters == s.proposals[j.proposalId].parameters
  IN /\ j.configContract = Self
     /\ j.commitment.digest = parameters.snapshotBlockHash
     /\ j.commitment.id % CLAIM_ID_RANGE = parameters.snapshotBlock

VerifiedIfDeployed(verifier, image, j) == verifier \in Verifiers => Attested(image, j)

(* IRiscZeroVerifier(verifier).verify(...) does not revert.  The call of a *)
(* function at an address without code does.                               *)
Verified(verifier, image, j) ==
  /\ verifier \in Verifiers
  /\ Attested(image, j)

-----------------------------------------------------------------------------
(***************************************************************************)
(* What the entry points do to the state.                                  *)
(***************************************************************************)

(* votingSettings, proposals and proposalCount are storage.  The others    *)
(* are read off the emitted events: cast[p][v] is the power in the latest  *)
(* VoteCast of v, turnout[p] adds up the powers in the first VoteCast of   *)
(* every voter, and executions[p] counts the Executed events of the DAO.   *)
InitialState(settings) ==
  [votingSettings |-> settings,
   proposals      |-> [p \in Pids |-> EmptyProposal],
   proposalCount  |-> 0,
   cast           |-> [p \in Pids |-> [v \in Voters |-> 0]],
   turnout        |-> [p \in Pids |-> 0],
   executions     |-> [p \in Pids |-> 0]]

NewProposal(settings, args, start, end) ==
  [EmptyProposal EXCEPT
     !.parameters =
        [votingMode               |-> settings.votingMode,
         supportThreshold         |-> settings.supportThreshold,
         startDate                |-> StartDate(start, now),
         endDate                  |-> EndDate(start, end, now, settings.minDuration),
         snapshotBlock            |-> block - 1,
         snapshotBlockHash        |-> BlockHash(block - 1),
         votingProtocolConfig     |-> settings.votingProtocolConfig,
         verifier                 |-> settings.verifier,
         votingProtocolImageId    |-> settings.votingProtocolImageId,
         executionProtocolImageId |-> settings.executionProtocolImageId],
     !.actions = args.actions,
     !.allowFailureMap = args.allowFailureMap]

(* A tally without, and with, `power' votes for an option. *)
Less(tally, option, power) ==
  [o \in Tallied |-> IF o = option THEN tally[o] - power ELSE tally[o]]

Plus(tally, option, power) ==
  [o \in Tallied |-> IF o = option THEN tally[o] + power ELSE tally[o]]

TallyKeepingOldVote(proposal, j) ==
  Plus(proposal.tally, VoteOption(j.direction), j.balance)

(* A revote takes the power of the new journal away from the old option,   *)
(* and checked arithmetic reverts on an underflow and on an overflow.      *)
TallyAfter(proposal, j) ==
  Plus(Less(proposal.tally, proposal.voters[j.voter], j.balance),
       VoteOption(j.direction), j.balance)

VoteAcceptedUnchecked(s, j) ==
  LET parameters == s.proposals[j.proposalId].parameters
  IN /\ JournalMatches(s, j)
     /\ Verified(parameters.verifier, parameters.votingProtocolImageId, j)
     /\ j.direction < Len(VoteOptions)

VoteAcceptedBySettings(s, j) ==
  LET proposal == s.proposals[j.proposalId]
      old      == proposal.voters[j.voter]
  IN /\ JournalMatches(s, j)
     /\ Verified(s.votingSettings.verifier, s.votingSettings.votingProtocolImageId, j)
     /\ j.direction < Len(VoteOptions)
     /\ old # "None" => proposal.tally[old] >= j.balance
     /\ \A o \in Tallied : TallyAfter(proposal, j)[o] <= MAX_UINT256

VoteAccepted(s, j) ==
  LET proposal == s.proposals[j.proposalId]
      old      == proposal.voters[j.voter]
  IN /\ JournalMatches(s, j)
     /\ Verified(proposal.parameters.verifier,
                 proposal.parameters.votingProtocolImageId, j)
     /\ j.direction < Len(VoteOptions)
     /\ old # "None" => proposal.tally[old] >= j.balance
     /\ \A o \in Tallied : TallyAfter(proposal, j)[o] <= MAX_UINT256

WithVote(proposal, j) ==
  [proposal EXCEPT !.tally = TallyAfter(proposal, j),
                   !.voters[j.voter] = VoteOption(j.direction)]

AfterVote(s, j) ==
  LET p     == j.proposalId
      first == s.proposals[p].voters[j.voter] = "None"
  IN [s EXCEPT !.proposals[p] = WithVote(s.proposals[p], j),
               !.cast[p][j.voter] = j.balance,
               !.turnout[p] = IF first THEN @ + j.balance ELSE @]

ExecuteAcceptedOnVoteProof(s, j) ==
  LET proposal == s.proposals[j.proposalId]
  IN /\ JournalMatches(s, j)
     /\ _canExecute(proposal, now)
     /\ Verified(proposal.parameters.verifier,
                 proposal.parameters.votingProtocolImageId, j)

ExecuteAccepted(s, j) ==
  LET proposal == s.proposals[j.proposalId]
  IN /\ JournalMatches(s, j)
     /\ _canExecute(proposal, now)
     /\ Verified(proposal.parameters.verifier,
                 proposal.parameters.executionProtocolImageId, j)

MarkExecutedAndClear(s, p) ==
  [s EXCEPT !.proposals[p] = [EmptyProposal EXCEPT !.executed = TRUE]]

(* _execute marks the proposal, and then calls the DAO with a copy of its  *)
(* actions.  The DAO is at action `next'; if the call reverts the state    *)
(* goes back to `base', if only that action does, to `checkpoint'.         *)
MarkExecuted(s, p) ==
  [s EXCEPT !.proposals[p] = [s.proposals[p] EXCEPT !.executed = TRUE]]

NewFrame(p, before, after) ==
  [proposalId |-> p, next |-> 0, actions |-> before.proposals[p].actions,
   allowFailureMap |-> before.proposals[p].allowFailureMap,
   base |-> before, checkpoint |-> after]

-----------------------------------------------------------------------------
(***************************************************************************)
(* The actions.                                                            *)
(***************************************************************************)

(* A call comes from a new transaction, or from the action that an execute *)
(* call in progress is at, as long as there is gas for it.                 *)
Call ==
  \/ frames = <<>> /\ calls' = 0
  \/ frames # <<>> /\ calls < MaxCalls /\ calls' = calls + 1

UpdateVotingSettings(settings) ==
  /\ Call
  /\ ValidSettings(settings)
  /\ state' = [state EXCEPT !.votingSettings = settings]
  /\ UNCHANGED <<block, now, frames>>

CreateProposal(args, start, end) ==
  /\ Call
  /\ state.proposalCount < MaxProposals
  /\ DatesValid(start, end, now, state.votingSettings.minDuration)
  /\ state' = [state EXCEPT
                 !.proposalCount = @ + 1,
                 !.proposals[state.proposalCount] =
                    NewProposal(state.votingSettings, args, start, end)]
  /\ UNCHANGED <<block, now, frames>>

Vote(j) ==
  /\ Call
  /\ VoteAccepted(state, j)
  /\ state' = AfterVote(state, j)
  /\ UNCHANGED <<block, now, frames>>

(* execute up to the call of the DAO. *)
Execute(j) ==
  /\ Call
  /\ ExecuteAccepted(state, j)
  /\ state' = MarkExecuted(state, j.proposalId)
  /\ frames' = Append(frames, NewFrame(j.proposalId, state, state'))
  /\ UNCHANGED <<block, now>>

-----------------------------------------------------------------------------
(***************************************************************************)
(* DAO.execute, which is not part of this repository.  It performs the     *)
(* actions in order.  An action that reverts is undone; unless its bit is  *)
(* set in allowFailureMap, the whole call then reverts.                    *)
(***************************************************************************)

Top == frames[Len(frames)]

Below == SubSeq(frames, 1, Len(frames) - 1)

AtAction == frames # <<>> /\ Top.next < Top.actions

ActionSucceeds ==
  /\ AtAction
  /\ frames' = Append(Below, [Top EXCEPT !.next = @ + 1, !.checkpoint = state])
  /\ UNCHANGED <<block, now, state, calls>>

ActionFailureAllowed ==
  /\ AtAction
  /\ Top.next \in Top.allowFailureMap
  /\ state' = Top.checkpoint
  /\ frames' = Append(Below, [Top EXCEPT !.next = @ + 1])
  /\ UNCHANGED <<block, now, calls>>

ActionFailureReverts ==
  /\ AtAction
  /\ Top.next \notin Top.allowFailureMap
  /\ state' = Top.base
  /\ frames' = Below
  /\ UNCHANGED <<block, now, calls>>

ExecuteReturns ==
  /\ frames # <<>>
  /\ Top.next >= Top.actions
  /\ state' = [state EXCEPT !.executions[Top.proposalId] = @ + 1]
  /\ frames' = Below
  /\ UNCHANGED <<block, now, calls>>

(* The transaction runs out of gas. *)
OutOfGas ==
  /\ frames # <<>>
  /\ state' = frames[1].base
  /\ frames' = <<>>
  /\ UNCHANGED <<block, now, calls>>

(* The next block, with a later timestamp. *)
Mine ==
  /\ frames = <<>>
  /\ block < MaxBlock
  /\ block' = block + 1
  /\ now' \in (now + 1) .. MaxTime
  /\ UNCHANGED <<state, frames, calls>>

-----------------------------------------------------------------------------
(* The plugin is deployed and initialized in block 1, at time 1. *)
Init ==
  /\ block = 1
  /\ now = 1
  /\ \E settings \in SettingsArgs :
       /\ ValidSettings(settings)
       /\ state = InitialState(settings)
  /\ frames = <<>>
  /\ calls = 0

DaoStep ==
  \/ ActionSucceeds
  \/ ActionFailureAllowed
  \/ ActionFailureReverts
  \/ ExecuteReturns
  \/ OutOfGas

Next ==
  \/ \E settings \in SettingsArgs : UpdateVotingSettings(settings)
  \/ \E args \in ActionArgs, start, end \in DateArgs : CreateProposal(args, start, end)
  \/ \E j \in Journals : Vote(j)
  \/ \E j \in Journals : Execute(j)
  \/ DaoStep
  \/ Mine

Spec == Init /\ [][Next]_vars

(* A transaction that has started runs to its end, and blocks keep being   *)
(* produced whatever is submitted: the gas limit of a block ends it even   *)
(* if transactions keep coming.  Nobody has to vote, propose or execute.   *)
FairSpec == Spec /\ SF_vars(Mine) /\ WF_vars(DaoStep)

-----------------------------------------------------------------------------
(***************************************************************************)
(* Properties.                                                             *)
(***************************************************************************)

Parameters ==
  [votingMode : VotingMode, supportThreshold : Nat, startDate : Nat,
   endDate : Nat, snapshotBlock : Nat, snapshotBlockHash : Nat,
   votingProtocolConfig : Configs, verifier : Addresses,
   votingProtocolImageId : VotingImages,
   executionProtocolImageId : ExecutionImages]

Proposals ==
  [executed : BOOLEAN, parameters : Parameters, tally : [Tallied -> Nat],
   voters : [Voters -> Tallied \cup {"None"}], actions : Nat,
   allowFailureMap : SUBSET Nat]

States ==
  [votingSettings : Settings, proposals : [Pids -> Proposals],
   proposalCount : 0 .. MaxProposals, cast : [Pids -> [Voters -> Nat]],
   turnout : [Pids -> Nat], executions : [Pids -> Nat]]

Frames ==
  [proposalId : Pids, next : Nat, actions : Nat, allowFailureMap : SUBSET Nat,
   base : States, checkpoint : States]

(* Every variable has its type, in the current state and in every state    *)
(* that a revert can go back to.                                           *)
TypeOK ==
  /\ block \in Nat \ {0}
  /\ now \in Nat
  /\ state \in States
  /\ frames \in Seq(Frames)
  /\ calls \in Nat

Exists(s, p) == p < s.proposalCount

InProgress == {frames[i].proposalId : i \in 1 .. Len(frames)}

ExecutedOnce(s, running) ==
  \A p \in Pids :
    s.executions[p] = IF s.proposals[p].executed /\ p \notin running THEN 1 ELSE 0

(* The DAO carries out a proposal at most once, although the actions of a  *)
(* proposal can call execute again (MajorityVotingBase._execute sets       *)
(* executed before it calls the DAO): an execution was completed for       *)
(* exactly the proposals marked executed that are not in progress, and no  *)
(* proposal is in progress twice.                                          *)
ExecutedAtMostOnce ==
  /\ ExecutedOnce(state, InProgress)
  /\ \A i, k \in 1 .. Len(frames) :
       frames[i].proposalId = frames[k].proposalId => i = k

ProvesVote(s, p, v, j) ==
  LET proposal == s.proposals[p]
  IN /\ Attested(proposal.parameters.votingProtocolImageId, j)
     /\ j.configContract = Self
     /\ j.proposalId = p
     /\ j.voter = v
     /\ j.balance = s.cast[p][v]
     /\ VoteOption(j.direction) = proposal.voters[v]
     /\ j.commitment.digest = BlockHash(proposal.parameters.snapshotBlock)

VotesProved(s) ==
  \A p \in Pids, v \in Voters :
    s.proposals[p].voters[v] # "None" => \E j \in Journals : ProvesVote(s, p, v, j)

(* What counts as the latest vote of a voter was proved by the voting guest *)
(* the proposal was created with, for this plugin, this proposal and its    *)
(* snapshot block, and for the option recorded (RiscVotingProtocolPlugin.   *)
(* vote), whatever the settings were changed to in the meantime.            *)
CountedVotesProved == VotesProved(state)

ExecutionsProved(s) ==
  \A p \in Pids :
    LET proposal == s.proposals[p]
    IN proposal.executed =>
         \E j \in Journals :
           /\ Attested(proposal.parameters.executionProtocolImageId, j)
           /\ j.configContract = Self
           /\ j.proposalId = p
           /\ j.commitment.digest = BlockHash(proposal.parameters.snapshotBlock)

(* A proposal marked executed was proved to pass by the execution guest it *)
(* was created with, at its snapshot block (RiscVotingProtocolPlugin.      *)
(* execute).                                                               *)
ExecutedOnProof == ExecutionsProved(state)

UnknownEmpty(s) ==
  \A p \in Pids : ~Exists(s, p) => s.proposals[p] = EmptyProposal

(* The record of an id under which nothing was created stays empty: a      *)
(* journal that matches the zeros in it is stopped by the call of          *)
(* verify at the zero address (vote and execute do not look at existence). *)
UnknownProposalsEmpty == UnknownEmpty(state)

WindowValid(parameters, currentBlock) ==
  /\ parameters.startDate + MIN_DURATION <= parameters.endDate
  /\ parameters.endDate <= MAX_UINT64
  /\ parameters.snapshotBlock < currentBlock
  /\ parameters.snapshotBlockHash = BlockHash(parameters.snapshotBlock)

WindowsValid(s, currentBlock) ==
  /\ ValidSettings(s.votingSettings)
  /\ \A p \in Pids : Exists(s, p) => WindowValid(s.proposals[p].parameters, currentBlock)

(* The settings in force are valid and every proposal is open for at least *)
(* the shortest permitted duration, ends at a representable date and has a *)
(* snapshot that was mined before it, whatever the settings became since   *)
(* (_updateVotingSettings and _validateProposalDates).                     *)
WindowsRespectSettings == WindowsValid(state, block)

TurnoutKept(s) ==
  \A p \in Pids :
    LET tally == s.proposals[p].tally
    IN tally["Abstain"] + tally["Yes"] + tally["No"] = s.turnout[p]

(* Voting again never changes how much power has taken part: the three     *)
(* tallies add up to the powers of everyone's first vote, also when a      *)
(* later vote of the same voter is proved with another power (the tally    *)
(* arithmetic of RiscVotingProtocolPlugin.vote).                           *)
TurnoutIsFirstVotes == TurnoutKept(state)

TalliesLatest(s) ==
  \A p \in Pids, o \in Tallied :
    LET proposal == s.proposals[p]
        choosing == {v \in Voters : proposal.voters[v] = o}
    IN proposal.tally[o] = SumFunctionOnSet(s.cast[p], choosing)

(* Votes can be replaced and only the latest one is tallied: each tally is *)
(* the sum of the powers in the latest VoteCast of the voters who chose    *)
(* that option (RiscVotingProtocolPlugin.vote takes the power of the new   *)
(* journal, not that of the old one, away from the old option).            *)
TallyIsLatestVotes == TalliesLatest(state)

Turnout(s, p) ==
  LET tally == s.proposals[p].tally
  IN tally["Abstain"] + tally["Yes"] + tally["No"]

(* Where the guest proves balances, no more power takes part in a vote     *)
(* than the token had supply at the snapshot, although tokens move between *)
(* voters while the vote goes on (vote accepts only journals for this      *)
(* plugin with a commitment to the snapshot block).                        *)
TurnoutWithinSupply ==
  \A p \in Pids :
    Turnout(state, p) <= Supply(state.proposals[p].parameters.snapshotBlock)

SameProposal(s, t, p) ==
  /\ s.proposals[p].parameters = t.proposals[p].parameters
  /\ s.proposals[p].actions = t.proposals[p].actions
  /\ s.proposals[p].allowFailureMap = t.proposals[p].allowFailureMap

(* As long as a proposal exists, nothing changes the parameters, actions   *)
(* and failure map it was created with: no later change of the settings,   *)
(* no vote, and no revert of a call in whose course it had been created    *)
(* (createProposal copies the settings into the proposal).                 *)
ParametersFrozen ==
  [][\A p \in Pids :
       Exists(state, p) /\ Exists(state', p) => SameProposal(state, state', p)]_vars

(* A vote is accepted only from an account that canVote answers for with   *)
(* true: while the proposal is open, and once unless votes can be replaced *)
(* (RiscVotingProtocolPlugin.vote and _canVote).                           *)
VotesRespectCanVote ==
  [][\A j \in Journals :
       Vote(j) =>
         _canVote(state.proposals[j.proposalId], j.voter, VoteOption(j.direction), now)]_vars

(* Unless it may be executed early, a proposal is executed only after its  *)
(* vote is closed (MajorityVotingBase._canExecute).                        *)
ExecutionAfterVote ==
  [][\A j \in Journals :
       LET parameters == state.proposals[j.proposalId].parameters
       IN Execute(j) =>
            parameters.votingMode = "EarlyExecution" \/ parameters.endDate <= now]_vars

(* What the chain shows once the transaction in progress is over, should   *)
(* it revert: between transactions, the state itself.                      *)
Committed == IF frames = <<>> THEN state ELSE frames[1].base

Public == INSTANCE Ballots WITH
  proposals  <- Committed.proposalCount,
  ballots    <- [p \in Pids |-> Committed.proposals[p].voters],
  power      <- [p \in Pids |-> Turnout(Committed, p)],
  marked     <- [p \in Pids |-> Committed.proposals[p].executed],
  carriedOut <- [p \in Pids |-> Committed.executions[p]]

(* Seen between transactions, the plugin with all its re-entrant, failing  *)
(* and reverting calls is the plain Ballots: votes are never lost, power   *)
(* comes with new voters only, and a proposal is marked exactly if the DAO *)
(* carried it out, once (vote and _execute).                               *)
ImplementsBallots == Public!Spec

(* Every vote ends: from some time on no proposal is open, also one whose  *)
(* end is the last date there is (_isProposalOpen).                        *)
ProposalsClose ==
  \A p \in Pids : <>[]~_isProposalOpen(state.proposals[p], now)
=============================================================================

------------------------- MODULE VotingPluginProofs -------------------------
(***************************************************************************)
(* Proofs about VotingPlugin, for every value of its constants.            *)
(***************************************************************************)
EXTENDS VotingPlugin, SequenceTheorems, TLAPS

-----------------------------------------------------------------------------
(***************************************************************************)
(* Types of what the entry points compute.                                 *)
(***************************************************************************)

(* The numbers among the constants and the arguments. *)
LEMMA NumberTypes ==
  /\ MIN_DURATION \in Nat /\ MAX_UINT64 \in Nat /\ MaxProposals \in Nat
  /\ \A date \in DateArgs : date \in Nat /\ date <= MAX_UINT64
BY ConstantTypes

(* A record of the proposals mapping that was never written has its type. *)
LEMMA EmptyProposalType == EmptyProposal \in Proposals
BY ConstantTypes DEF EmptyProposal, EmptyParameters, Proposals, Parameters, VotingMode, Tallied

(* The state the initializer leaves has its type. *)
LEMMA InitialStateType ==
  ASSUME NEW settings \in SettingsArgs
  PROVE  InitialState(settings) \in States
BY EmptyProposalType, ConstantTypes DEF InitialState, States, Pids

(* What the mapping holds under an id has its type. *)
LEMMA StoredTypes ==
  ASSUME NEW s \in States, NEW p \in Pids
  PROVE  /\ s.proposals[p] \in Proposals
         /\ s.proposals[p].parameters \in Parameters
<1>1. s.proposals[p] \in Proposals
  BY DEF States
<1> QED
  BY <1>1 DEF Proposals

(* createProposal stores a proposal of the right type. *)
LEMMA NewProposalType ==
  ASSUME NEW settings \in Settings, NEW args \in ActionArgs,
         NEW start \in Nat, NEW end \in Nat,
         block \in Nat \ {0}, now \in Nat
  PROVE  NewProposal(settings, args, start, end) \in Proposals
<1>1. args.actions \in Nat /\ args.allowFailureMap \in SUBSET Nat
  BY ConstantTypes
<1>2. StartDate(start, now) \in Nat /\ EndDate(start, end, now, settings.minDuration) \in Nat
  BY DEF StartDate, EndDate, Settings
<1>3. block - 1 \in Nat /\ BlockHash(block - 1) \in Nat
  BY DEF BlockHash
<1> QED
  BY <1>1, <1>2, <1>3, EmptyProposalType, ZenonT(30)
     DEF NewProposal, EmptyProposal, Proposals, Parameters, Settings

(* Adding votes to a tally gives a tally. *)
LEMMA PlusType ==
  ASSUME NEW tally \in [Tallied -> Nat], NEW option, NEW power \in Nat
  PROVE  Plus(tally, option, power) \in [Tallied -> Nat]
BY DEF Plus

(* So does taking votes away that are there. *)
LEMMA LessType ==
  ASSUME NEW tally \in [Tallied -> Nat], NEW option \in Tallied \cup {"None"},
         NEW power \in Nat, option # "None" => tally[option] >= power
  PROVE  Less(tally, option, power) \in [Tallied -> Nat]
BY DEF Less, Tallied

(* The direction of a journal that an accepted vote carries is an option   *)
(* that is tallied, and its arithmetic stays within the natural numbers.   *)
LEMMA VoteTypes ==
  ASSUME NEW s \in States, NEW j \in Journals, VoteAccepted(s, j)
  PROVE  /\ VoteOption(j.direction) \in Tallied
         /\ j.proposalId \in Pids
         /\ j.voter \in Voters
         /\ j.balance \in Nat
         /\ TallyAfter(s.proposals[j.proposalId], j) \in [Tallied -> Nat]
<1> DEFINE proposal == s.proposals[j.proposalId]
           old      == proposal.voters[j.voter]
           image    == proposal.parameters.votingProtocolImageId
<1>1. j.proposalId \in Pids /\ j.voter \in Voters /\ j.balance \in Nat /\ j.direction \in Nat
  BY ConstantTypes
<1>2. proposal \in Proposals
  BY <1>1 DEF States
<1>3. Attested(image, j) /\ (old # "None" => proposal.tally[old] >= j.balance)
  BY Zenon DEF VoteAccepted, Verified
<1>4. TallyAfter(proposal, j) =
        Plus(Less(proposal.tally, old, j.balance), VoteOption(j.direction), j.balance)
  BY Zenon DEF TallyAfter
<1>5. old \in Tallied \cup {"None"} /\ proposal.tally \in [Tallied -> Nat]
  BY <1>1, <1>2 DEF Proposals
<1>6. image \in VotingImages
  BY <1>2 DEF Proposals, Parameters
<1> HIDE DEF proposal, old, image
<1>7. j.direction \in 1 .. 3
  BY <1>3, <1>6, GuestAsserts
<1>8. VoteOption(j.direction) \in Tallied
  BY <1>7 DEF VoteOption, VoteOptions, Tallied
<1>9. Less(proposal.tally, old, j.balance) \in [Tallied -> Nat]
  BY <1>1, <1>3, <1>5, LessType, Zenon
<1>10. TallyAfter(proposal, j) \in [Tallied -> Nat]
  BY <1>1, <1>4, <1>9, PlusType
<1> QED
  BY <1>1, <1>8, <1>10 DEF proposal

(* An accepted vote keeps the types of the state. *)
LEMMA AfterVoteType ==
  ASSUME NEW s \in States, NEW j \in Journals, VoteAccepted(s, j)
  PROVE  AfterVote(s, j) \in States
<1>1. j.proposalId \in Pids /\ j.voter \in Voters /\ j.balance \in Nat
  BY VoteTypes
<1>2. s.proposals[j.proposalId] \in Proposals
  BY <1>1 DEF States
<1>3. WithVote(s.proposals[j.proposalId], j) \in Proposals
  BY <1>1, <1>2, VoteTypes, Zenon DEF WithVote, Proposals
<1>4. AfterVote(s, j).cast \in [Pids -> [Voters -> Nat]]
  BY <1>1 DEF AfterVote, States
<1>5. AfterVote(s, j).turnout \in [Pids -> Nat]
  BY <1>1 DEF AfterVote, States
<1> QED
  BY <1>1, <1>3, <1>4, <1>5, Zenon DEF AfterVote, States

(* Marking a proposal as executed keeps the types of the state. *)
LEMMA MarkExecutedType ==
  ASSUME NEW s \in States, NEW p \in Pids
  PROVE  MarkExecuted(s, p) \in States
<1>1. s.proposals[p] \in Proposals
  BY DEF States
<1>2. [s.proposals[p] EXCEPT !.executed = TRUE] \in Proposals
  BY <1>1, Zenon DEF Proposals
<1> QED
  BY <1>2, Zenon DEF MarkExecuted, States

-----------------------------------------------------------------------------
(***************************************************************************)
(* A state is sound when everything it records is backed by a proof, the   *)
(* unused part of the mapping is empty, and the windows and tallies are    *)
(* right.  The conjuncts need each other: that a counted vote commits to   *)
(* the hash of the snapshot block holds because the proposal exists, and   *)
(* it exists because an unused record names no verifier.                   *)
(***************************************************************************)
Sound(s, b) ==
  /\ s \in States
  /\ VotesProved(s)
  /\ ExecutionsProved(s)
  /\ UnknownEmpty(s)
  /\ WindowsValid(s, b)
  /\ TurnoutKept(s)

(* The initializer leaves a sound state. *)
LEMMA InitialSound ==
  ASSUME NEW settings \in SettingsArgs, ValidSettings(settings), NEW b
  PROVE  Sound(InitialState(settings), b)
<1> DEFINE s == InitialState(settings)
<1>1. s \in States
  BY InitialStateType
<1>2. s.votingSettings = settings /\ s.proposalCount = 0
  BY DEF InitialState
<1>3. \A p \in Pids : s.proposals[p] = EmptyProposal /\ s.turnout[p] = 0
  BY DEF InitialState
<1>4. EmptyProposal.executed = FALSE /\ \A v \in Voters : EmptyProposal.voters[v] = "None"
  BY DEF EmptyProposal
<1>5. \A o \in Tallied : EmptyProposal.tally[o] = 0
  BY DEF EmptyProposal
<1> HIDE DEF s
<1>6. VotesProved(s) /\ ExecutionsProved(s)
  BY <1>3, <1>4 DEF VotesProved, ExecutionsProved
<1>7. UnknownEmpty(s)
  BY <1>3 DEF UnknownEmpty
<1>8. WindowsValid(s, b)
  BY <1>2, ConstantTypes DEF WindowsValid, Exists, Pids
<1>9. TurnoutKept(s)
  BY <1>3, <1>5 DEF TurnoutKept, Tallied
<1> QED
  BY <1>1, <1>6, <1>7, <1>8, <1>9 DEF Sound, s

(* Changing the settings keeps a state sound. *)
LEMMA SettingsSound ==
  ASSUME NEW b, NEW s, Sound(s, b), NEW settings \in SettingsArgs, ValidSettings(settings)
  PROVE  Sound([s EXCEPT !.votingSettings = settings], b)
<1> DEFINE t == [s EXCEPT !.votingSettings = settings]
<1>1. s \in States
  BY DEF Sound
<1>2. t \in States
  BY <1>1, ConstantTypes DEF States
<1>3. /\ t.votingSettings = settings
      /\ t.proposals = s.proposals /\ t.proposalCount = s.proposalCount
      /\ t.cast = s.cast /\ t.turnout = s.turnout
  BY <1>1 DEF States
<1> HIDE DEF t
<1> QED
  BY <1>2, <1>3 DEF Sound, VotesProved, ProvesVote, ExecutionsProved, UnknownEmpty, WindowsValid, TurnoutKept, Exists, t

(* A later block keeps a state sound. *)
LEMMA LaterBlockSound ==
  ASSUME NEW b \in Nat, NEW s, Sound(s, b)
  PROVE  Sound(s, b + 1)
<1>1. \A p \in Pids : s.proposals[p].parameters.snapshotBlock \in Nat
  BY StoredTypes DEF Sound, Parameters
<1>2. WindowsValid(s, b) => WindowsValid(s, b + 1)
  BY <1>1 DEF WindowsValid, WindowValid
<1> QED
  BY <1>2 DEF Sound

(* Completing an execution keeps a state sound. *)
LEMMA ExecutionSound ==
  ASSUME NEW b, NEW s, Sound(s, b), NEW p \in Pids
  PROVE  Sound([s EXCEPT !.executions[p] = @ + 1], b)
<1> DEFINE t == [s EXCEPT !.executions[p] = @ + 1]
<1>1. s \in States
  BY DEF Sound
<1>2. t \in States
  <2>1. t.executions \in [Pids -> Nat]
    BY <1>1 DEF States
  <2> QED
    BY <1>1, <2>1, Zenon DEF States
<1>3. /\ t.votingSettings = s.votingSettings
      /\ t.proposals = s.proposals /\ t.proposalCount = s.proposalCount
      /\ t.cast = s.cast /\ t.turnout = s.turnout
  BY <1>1 DEF States
<1> HIDE DEF t
<1> QED
  BY <1>2, <1>3 DEF Sound, VotesProved, ProvesVote, ExecutionsProved, UnknownEmpty, WindowsValid, TurnoutKept, Exists, t

(* The proposal whose verifier accepted a proof exists: the record of an   *)
(* unused id names the zero address, where no verifier is.                 *)
LEMMA VerifiedExists ==
  ASSUME NEW b, NEW s, Sound(s, b), NEW j \in Journals, NEW image,
         JournalMatches(s, j),
         Verified(s.proposals[j.proposalId].parameters.verifier, image, j)
  PROVE  /\ j.proposalId \in Pids
         /\ Exists(s, j.proposalId)
         /\ j.configContract = Self
         /\ Attested(image, j)
         /\ j.commitment.digest = BlockHash(s.proposals[j.proposalId].parameters.snapshotBlock)
<1>1. j.proposalId \in Pids
  BY ConstantTypes
<1>2. s.proposals[j.proposalId].parameters.verifier # ZeroAddress
  BY ConstantTypes DEF Verified
<1>3. EmptyProposal.parameters.verifier = ZeroAddress
  BY DEF EmptyProposal, EmptyParameters
<1>4. Exists(s, j.proposalId)
  BY <1>1, <1>2, <1>3 DEF Sound, UnknownEmpty
<1> QED
  BY <1>1, <1>4 DEF Sound, WindowsValid, WindowValid, JournalMatches, Verified

(* An accepted call of execute leaves a sound state. *)
LEMMA MarkSound ==
  ASSUME NEW b, NEW s, Sound(s, b), NEW j \in Journals, ExecuteAccepted(s, j)
  PROVE  Sound(MarkExecuted(s, j.proposalId), b)
<1> DEFINE p == j.proposalId
           t == MarkExecuted(s, p)
<1>1. s \in States
  BY ZenonT(30) DEF Sound
<1>2. /\ p \in Pids /\ Exists(s, p) /\ j.configContract = Self
      /\ Attested(s.proposals[p].parameters.executionProtocolImageId, j)
      /\ j.commitment.digest = BlockHash(s.proposals[p].parameters.snapshotBlock)
  BY VerifiedExists DEF ExecuteAccepted
<1>3. t \in States
  BY <1>1, <1>2, MarkExecutedType
<1>4. /\ t.votingSettings = s.votingSettings /\ t.proposalCount = s.proposalCount
      /\ t.cast = s.cast /\ t.turnout = s.turnout
  BY <1>1 DEF MarkExecuted, States
<1>5. \A q \in Pids : q # p => t.proposals[q] = s.proposals[q]
  BY <1>1 DEF MarkExecuted, States
<1>6. \A q \in Pids : /\ t.proposals[q].parameters = s.proposals[q].parameters
                      /\ t.proposals[q].tally = s.proposals[q].tally
                      /\ t.proposals[q].voters = s.proposals[q].voters
  BY <1>1, <1>2, StoredTypes, SMTT(60) DEF MarkExecuted, States, Proposals
<1> HIDE DEF t
<1>7. VotesProved(t)
  BY <1>4, <1>6, SMTT(60) DEF VotesProved, ProvesVote, Sound
<1>8. ExecutionsProved(t)
  BY <1>2, <1>5, <1>6, SMTT(60) DEF ExecutionsProved, Sound
<1>9. UnknownEmpty(t)
  BY <1>2, <1>4, <1>5 DEF UnknownEmpty, Sound, Exists
<1>10. WindowsValid(t, b)
  BY <1>4, <1>6 DEF WindowsValid, Sound, Exists
<1>11. TurnoutKept(t)
  BY <1>4, <1>6 DEF TurnoutKept, Sound
<1> QED
  BY <1>3, <1>7, <1>8, <1>9, <1>10, <1>11 DEF Sound, t

(* What a vote writes, and what it leaves alone. *)
LEMMA AfterVoteFacts ==
  ASSUME NEW s \in States, NEW j \in Journals, j.proposalId \in Pids
  PROVE  LET p == j.proposalId
             t == AfterVote(s, j)
         IN /\ t.votingSettings = s.votingSettings /\ t.proposalCount = s.proposalCount
            /\ \A q \in Pids : q # p => /\ t.proposals[q] = s.proposals[q]
                                        /\ t.cast[q] = s.cast[q]
                                        /\ t.turnout[q] = s.turnout[q]
            /\ t.proposals[p].parameters = s.proposals[p].parameters
            /\ t.proposals[p].executed = s.proposals[p].executed
            /\ t.proposals[p].tally = TallyAfter(s.proposals[p], j)
            /\ t.proposals[p].voters
                 = [s.proposals[p].voters EXCEPT ![j.voter] = VoteOption(j.direction)]
            /\ t.cast[p] = [s.cast[p] EXCEPT ![j.voter] = j.balance]
            /\ t.turnout[p] = IF s.proposals[p].voters[j.voter] = "None"
                              THEN s.turnout[p] + j.balance ELSE s.turnout[p]
<1> DEFINE p == j.proposalId
           t == AfterVote(s, j)
<1>1. t.votingSettings = s.votingSettings /\ t.proposalCount = s.proposalCount
  BY DEF AfterVote, States
<1>2. \A q \in Pids : q # p => /\ t.proposals[q] = s.proposals[q]
                               /\ t.cast[q] = s.cast[q]
                               /\ t.turnout[q] = s.turnout[q]
  BY DEF AfterVote, States
<1>3. t.proposals[p] = WithVote(s.proposals[p], j)
  BY DEF AfterVote, States
<1>4. /\ t.proposals[p].parameters = s.proposals[p].parameters
      /\ t.proposals[p].executed = s.proposals[p].executed
      /\ t.proposals[p].tally = TallyAfter(s.proposals[p], j)
      /\ t.proposals[p].voters = [s.proposals[p].voters EXCEPT ![j.voter] = VoteOption(j.direction)]
  BY <1>3, StoredTypes DEF WithVote, Proposals
<1>5. t.cast[p] = [s.cast[p] EXCEPT ![j.voter] = j.balance]
  BY DEF AfterVote, States
<1>6. t.turnout[p] = IF s.proposals[p].voters[j.voter] = "None"
                     THEN s.turnout[p] + j.balance ELSE s.turnout[p]
  BY DEF AfterVote, States
<1> HIDE DEF t
<1> QED
  BY <1>1, <1>2, <1>4, <1>5, <1>6, Zenon DEF t

(* An accepted vote leaves a sound state. *)
LEMMA VoteSound ==
  ASSUME NEW b, NEW s, Sound(s, b), NEW j \in Journals, VoteAccepted(s, j)
  PROVE  Sound(AfterVote(s, j), b)
<1> DEFINE p == j.proposalId
           t == AfterVote(s, j)
<1>1. s \in States
  BY Zenon DEF Sound
<1>2. /\ p \in Pids /\ Exists(s, p) /\ j.configContract = Self
      /\ Attested(s.proposals[p].parameters.votingProtocolImageId, j)
      /\ j.commitment.digest = BlockHash(s.proposals[p].parameters.snapshotBlock)
  BY VerifiedExists, Zenon DEF VoteAccepted
<1>3. t \in States
  BY <1>1, AfterVoteType
<1>4. j.voter \in Voters /\ j.balance \in Nat /\ VoteOption(j.direction) \in Tallied
  BY <1>1, VoteTypes
<1>5. t.votingSettings = s.votingSettings /\ t.proposalCount = s.proposalCount
  BY <1>1, <1>2, AfterVoteFacts, Zenon
<1>6. \A q \in Pids : q # p => /\ t.proposals[q] = s.proposals[q]
                               /\ t.cast[q] = s.cast[q]
                               /\ t.turnout[q] = s.turnout[q]
  BY <1>1, <1>2, AfterVoteFacts, Zenon
<1>8. /\ t.proposals[p].parameters = s.proposals[p].parameters
      /\ t.proposals[p].executed = s.proposals[p].executed
      /\ t.proposals[p].tally = TallyAfter(s.proposals[p], j)
      /\ t.proposals[p].voters = [s.proposals[p].voters EXCEPT ![j.voter] = VoteOption(j.direction)]
  BY <1>1, <1>2, AfterVoteFacts, Zenon
<1>9. t.cast[p] = [s.cast[p] EXCEPT ![j.voter] = j.balance]
  BY <1>1, <1>2, AfterVoteFacts, Zenon
<1>10. t.turnout[p] = IF s.proposals[p].voters[j.voter] = "None"
                      THEN s.turnout[p] + j.balance ELSE s.turnout[p]
  BY <1>1, <1>2, AfterVoteFacts, Zenon
<1>11. s.proposals[p] \in Proposals /\ s.cast[p] \in [Voters -> Nat] /\ s.turnout[p] \in Nat
  BY <1>1, <1>2, StoredTypes DEF States
<1> HIDE DEF t
<1>12. VotesProved(t)
  <2>1. VotesProved(s)
    BY Zenon DEF Sound
  <2>2. ASSUME NEW q \in Pids, NEW v \in Voters, t.proposals[q].voters[v] # "None"
        PROVE  \E i \in Journals : ProvesVote(t, q, v, i)
    <3>1. CASE q = p /\ v = j.voter
      <4>1. t.proposals[p].voters[v] = VoteOption(j.direction) /\ t.cast[p][v] = j.balance
        BY <1>4, <1>8, <1>9, <1>11, <3>1 DEF Proposals
      <4> QED
        BY <1>2, <1>8, <3>1, <4>1, Zenon DEF ProvesVote
    <3>2. CASE q = p /\ v # j.voter
      <4>1. t.proposals[p].voters[v] = s.proposals[p].voters[v] /\ t.cast[p][v] = s.cast[p][v]
        BY <1>8, <1>9, <1>11, <3>2 DEF Proposals
      <4>2. PICK i \in Journals : ProvesVote(s, p, v, i)
        BY <1>2, <2>1, <2>2, <3>2, <4>1, Zenon DEF VotesProved
      <4> QED
        BY <1>8, <3>2, <4>1, <4>2, Zenon DEF ProvesVote
    <3>3. CASE q # p
      <4>1. t.proposals[q] = s.proposals[q] /\ t.cast[q] = s.cast[q]
        BY <1>6, <3>3
      <4>2. PICK i \in Journals : ProvesVote(s, q, v, i)
        BY <2>1, <2>2, <4>1, Zenon DEF VotesProved
      <4> QED
        BY <4>1, <4>2, Zenon DEF ProvesVote
    <3> QED
      BY <3>1, <3>2, <3>3, Zenon
  <2> QED
    BY <2>2, Zenon DEF VotesProved
<1>13. ExecutionsProved(t)
  BY <1>2, <1>6, <1>8 DEF ExecutionsProved, Sound
<1>14. UnknownEmpty(t)
  BY <1>2, <1>5, <1>6, Zenon DEF UnknownEmpty, Sound, Exists
<1>15. WindowsValid(t, b)
  BY <1>2, <1>5, <1>6, <1>8, Zenon DEF WindowsValid, Sound, Exists
<1>16. TurnoutKept(t)
  <2> DEFINE old   == s.proposals[p].voters[j.voter]
             tally == s.proposals[p].tally
             after == TallyAfter(s.proposals[p], j)
             new   == VoteOption(j.direction)
  <2>1. old \in Tallied \cup {"None"} /\ tally \in [Tallied -> Nat]
    BY <1>4, <1>11, Zenon DEF Proposals
  <2>2. tally["Abstain"] + tally["Yes"] + tally["No"] = s.turnout[p]
    BY <1>2 DEF Sound, TurnoutKept
  <2>3. after = Plus(Less(tally, old, j.balance), new, j.balance)
    BY DEF TallyAfter
  <2> HIDE DEF old, tally, after, new
  <2>4. after["Abstain"] + after["Yes"] + after["No"] =
          IF old = "None" THEN s.turnout[p] + j.balance ELSE s.turnout[p]
    BY <1>4, <1>11, <2>1, <2>2, <2>3 DEF Plus, Less, Tallied, new
  <2>5. \A q \in Pids : q # p =>
          t.proposals[q].tally["Abstain"] + t.proposals[q].tally["Yes"]
            + t.proposals[q].tally["No"] = t.turnout[q]
    BY <1>6 DEF Sound, TurnoutKept
  <2> QED
    BY <1>2, <1>8, <1>10, <2>4, <2>5, ZenonT(30) DEF TurnoutKept, old, after
<1> QED
  BY <1>3, <1>12, <1>13, <1>14, <1>15, <1>16 DEF Sound, t

(* createProposal leaves a sound state: the record it writes was empty. *)
LEMMA CreateSound ==
  ASSUME NEW s, Sound(s, block), block \in Nat \ {0}, now \in Nat,
         NEW args \in ActionArgs, NEW start \in DateArgs, NEW end \in DateArgs,
         s.proposalCount < MaxProposals,
         DatesValid(start, end, now, s.votingSettings.minDuration)
  PROVE  Sound([s EXCEPT !.proposalCount = @ + 1,
                         !.proposals[s.proposalCount] =
                            NewProposal(s.votingSettings, args, start, end)], block)
<1> DEFINE p   == s.proposalCount
           new == NewProposal(s.votingSettings, args, start, end)
           t   == [s EXCEPT !.proposalCount = @ + 1, !.proposals[p] = new]
<1>1. s \in States
  BY DEF Sound
<1>2. p \in Pids /\ p \in Nat /\ p + 1 \in 0 .. MaxProposals
  <2>1. p \in 0 .. MaxProposals
    BY <1>1 DEF States
  <2> QED
    BY <2>1, NumberTypes DEF Pids
<1>3. s.votingSettings \in Settings /\ start \in Nat /\ end \in Nat
  BY <1>1, NumberTypes DEF States
<1>4. new \in Proposals
  BY <1>3, NewProposalType
<1>5. t \in States
  <2> HIDE DEF new
  <2> QED
    BY <1>1, <1>2, <1>4, Zenon DEF States
<1>6. /\ t.votingSettings = s.votingSettings /\ t.proposalCount = p + 1
      /\ t.cast = s.cast /\ t.turnout = s.turnout
      /\ t.proposals[p] = new
      /\ \A q \in Pids : q # p => t.proposals[q] = s.proposals[q]
  <2> HIDE DEF new
  <2> QED
    BY <1>1, <1>2 DEF States
<1>7. /\ new.executed = FALSE
      /\ new.voters = [v \in Voters |-> "None"]
      /\ new.tally = [o \in Tallied |-> 0]
  BY DEF NewProposal, EmptyProposal
<1>8. /\ new.parameters.startDate = StartDate(start, now)
      /\ new.parameters.endDate = EndDate(start, end, now, s.votingSettings.minDuration)
      /\ new.parameters.snapshotBlock = block - 1
      /\ new.parameters.snapshotBlockHash = BlockHash(block - 1)
  BY DEF NewProposal, EmptyProposal
<1>9. s.proposals[p] = EmptyProposal
  BY <1>2 DEF Sound, UnknownEmpty, Exists
<1>10. s.turnout[p] = 0
  BY <1>2, <1>9 DEF Sound, TurnoutKept, EmptyProposal, Tallied
<1> HIDE DEF t, new
<1>11. VotesProved(t)
  BY <1>2, <1>6, <1>7 DEF Sound, VotesProved, ProvesVote
<1>12. ExecutionsProved(t)
  BY <1>2, <1>6, <1>7 DEF Sound, ExecutionsProved
<1>13. UnknownEmpty(t)
  BY <1>2, <1>6 DEF Sound, UnknownEmpty, Exists, Pids
<1>14. WindowsValid(t, block)
  <2>1. ValidSettings(t.votingSettings)
    BY <1>6 DEF Sound, WindowsValid
  <2>2. WindowValid(new.parameters, block)
    <3>1. s.votingSettings.minDuration \in Nat /\ MIN_DURATION <= s.votingSettings.minDuration
      BY <1>3, <1>6, <2>1 DEF ValidSettings, Settings
    <3>2. start \in Nat /\ end \in Nat /\ end <= MAX_UINT64
      BY NumberTypes
    <3>3. /\ new.parameters.startDate + MIN_DURATION <= new.parameters.endDate
          /\ new.parameters.endDate <= MAX_UINT64
      BY <1>8, <3>1, <3>2, NumberTypes DEF DatesValid, StartDate, EndDate
    <3>4. /\ new.parameters.snapshotBlock < block
          /\ new.parameters.snapshotBlockHash = BlockHash(new.parameters.snapshotBlock)
      BY <1>8
    <3> QED
      BY <3>3, <3>4 DEF WindowValid
  <2>3. \A q \in Pids : q < p + 1 => q = p \/ Exists(s, q)
    BY <1>2 DEF Exists, Pids
  <2> QED
    BY <1>6, <2>1, <2>2, <2>3 DEF Sound, WindowsValid, Exists
<1>15. TurnoutKept(t)
  BY <1>2, <1>6, <1>7, <1>10 DEF Sound, TurnoutKept, Tallied
<1> QED
  BY <1>5, <1>11, <1>12, <1>13, <1>14, <1>15 DEF Sound, t, new

-----------------------------------------------------------------------------
(***************************************************************************)
(* The stack of calls in progress.                                         *)
(***************************************************************************)

(* What the stack looks like without its innermost call. *)
LEMMA StackFacts ==
  ASSUME frames \in Seq(Frames), frames # <<>>
  PROVE  /\ Len(frames) \in Nat \ {0}
         /\ Top = frames[Len(frames)]
         /\ Top \in Frames
         /\ Below \in Seq(Frames)
         /\ Len(Below) = Len(frames) - 1
         /\ \A i \in 1 .. Len(frames) - 1 : Below[i] = frames[i]
<1>1. Len(frames) \in Nat \ {0}
  OBVIOUS
<1>2. Top = frames[Len(frames)] /\ Top \in Frames
  BY <1>1 DEF Top
<1>3. Below \in Seq(Frames)
  BY <1>1 DEF Below
<1>4. Len(Below) = Len(frames) - 1
  <2> DEFINE n == Len(frames) - 1
  <2>1. n \in Int /\ 1 \in Int /\ \A i \in 1 .. n : frames[i] \in Frames
    BY <1>1
  <2>2. Len(SubSeq(frames, 1, n)) = IF 1 <= n THEN n - 1 + 1 ELSE 0
    <3> HIDE DEF n
    <3> QED
      BY <2>1, SubSeqProperties
  <2>3. Len(Below) = IF 1 <= n THEN n - 1 + 1 ELSE 0
    BY <2>2, Zenon DEF Below
  <2>4. n \in Nat
    BY <1>1
  <2> HIDE DEF n
  <2>5. Len(Below) = n
    BY <2>3, <2>4
  <2> QED
    BY <2>5, Zenon DEF n
<1>5. ASSUME NEW i \in 1 .. Len(frames) - 1 PROVE Below[i] = frames[i]
  BY <1>1, <1>5 DEF Below
<1> QED
  BY <1>1, <1>2, <1>3, <1>4, <1>5

(* Pushing a call on a stack, and replacing the innermost one. *)
LEMMA PushFacts ==
  ASSUME NEW stack \in Seq(Frames), NEW f \in Frames
  PROVE  /\ Append(stack, f) \in Seq(Frames)
         /\ Len(Append(stack, f)) = Len(stack) + 1
         /\ Append(stack, f)[Len(stack) + 1] = f
         /\ \A i \in 1 .. Len(stack) : Append(stack, f)[i] = stack[i]
OBVIOUS

(* Advancing a call to its next action. *)
LEMMA AdvancedFrame ==
  ASSUME NEW f \in Frames
  PROVE  LET g == [f EXCEPT !.next = @ + 1]
         IN /\ g \in Frames /\ g.base = f.base /\ g.checkpoint = f.checkpoint
            /\ g.proposalId = f.proposalId
<1> DEFINE g == [f EXCEPT !.next = @ + 1]
<1>1. g.next \in Nat
  BY DEF Frames
<1>2. g \in Frames
  BY <1>1 DEF Frames
<1> QED
  BY <1>2 DEF Frames

(* The same, keeping the state the action left to go back to. *)
LEMMA CheckpointedFrame ==
  ASSUME NEW f \in Frames, NEW s \in States
  PROVE  LET g == [f EXCEPT !.next = @ + 1, !.checkpoint = s]
         IN /\ g \in Frames /\ g.base = f.base /\ g.checkpoint = s
            /\ g.proposalId = f.proposalId
<1> DEFINE g == [f EXCEPT !.next = @ + 1, !.checkpoint = s]
<1>1. g.next \in Nat /\ g.checkpoint = s
  BY DEF Frames
<1>2. g \in Frames
  BY <1>1, ZenonT(30) DEF Frames
<1> QED
  BY <1>1, <1>2 DEF Frames

(* The frame that execute pushes. *)
LEMMA NewFrameFacts ==
  ASSUME NEW s \in States, NEW t \in States, NEW p \in Pids
  PROVE  /\ NewFrame(p, s, t) \in Frames
         /\ NewFrame(p, s, t).base = s
         /\ NewFrame(p, s, t).checkpoint = t
         /\ NewFrame(p, s, t).proposalId = p
BY StoredTypes DEF NewFrame, Frames, Proposals

-----------------------------------------------------------------------------
(***************************************************************************)
(* Every state that execution can be in or go back to is sound.            *)
(***************************************************************************)
SoundInv ==
  /\ block \in Nat \ {0}
  /\ now \in Nat
  /\ calls \in Nat
  /\ frames \in Seq(Frames)
  /\ Sound(state, block)
  /\ \A i \in 1 .. Len(frames) :
       Sound(frames[i].base, block) /\ Sound(frames[i].checkpoint, block)

(* The plugin starts in a sound state, outside of any call. *)
LEMMA SoundInvInit == Init => SoundInv
<1> SUFFICES ASSUME Init PROVE SoundInv
  OBVIOUS
<1>1. PICK settings \in SettingsArgs : ValidSettings(settings) /\ state = InitialState(settings)
  BY DEF Init
<1>2. Sound(state, block)
  BY <1>1, InitialSound
<1> QED
  BY <1>2 DEF Init, SoundInv

(* A call that ends without calling the DAO leaves everything sound if it  *)
(* leaves a sound state.                                                   *)
LEMMA CallSound ==
  ASSUME SoundInv, Call, Sound(state', block), UNCHANGED <<block, now, frames>>
  PROVE  SoundInv'
<1>1. calls' \in Nat
  BY DEF Call, SoundInv
<1> QED
  BY <1>1 DEF SoundInv

(* Every step keeps every state sound. *)
LEMMA SoundInvStep == SoundInv /\ [Next]_vars => SoundInv'
<1> SUFFICES ASSUME SoundInv, [Next]_vars PROVE SoundInv'
  OBVIOUS
<1> USE DEF SoundInv
<1>1. ASSUME NEW settings \in SettingsArgs, UpdateVotingSettings(settings) PROVE SoundInv'
  BY <1>1, SettingsSound, CallSound, Zenon DEF UpdateVotingSettings
<1>2. ASSUME NEW args \in ActionArgs, NEW start \in DateArgs, NEW end \in DateArgs,
             CreateProposal(args, start, end)
      PROVE  SoundInv'
  BY <1>2, CreateSound, CallSound, ZenonT(30) DEF CreateProposal
<1>3. ASSUME NEW j \in Journals, Vote(j) PROVE SoundInv'
  BY <1>3, VoteSound, CallSound DEF Vote
<1>4. ASSUME NEW j \in Journals, Execute(j) PROVE SoundInv'
  <2> DEFINE f == NewFrame(j.proposalId, state, state')
  <2>1. Sound(state', block) /\ state' \in States /\ state \in States
    BY <1>4, MarkSound DEF Execute, Sound
  <2>2. calls' \in Nat
    BY <1>4, SMTT(60) DEF Execute, Call
  <2>3. j.proposalId \in Pids
    BY ConstantTypes
  <2>4. f \in Frames /\ f.base = state /\ f.checkpoint = state'
    BY <2>1, <2>3, NewFrameFacts
  <2>5. frames' = Append(frames, f) /\ block' = block /\ now' = now
    BY <1>4 DEF Execute
  <2> HIDE DEF f
  <2> QED
    BY <2>1, <2>2, <2>4, <2>5, PushFacts, SMTT(60)
<1>5. CASE ActionSucceeds
  <2> DEFINE f == [Top EXCEPT !.next = @ + 1, !.checkpoint = state]
  <2>1. frames # <<>> /\ frames' = Append(Below, f) /\ UNCHANGED <<block, now, state, calls>>
    BY <1>5 DEF ActionSucceeds, AtAction
  <2>2. f \in Frames /\ f.base = Top.base /\ f.checkpoint = state
    BY <2>1, StackFacts, CheckpointedFrame, Zenon DEF Sound
  <2> HIDE DEF f
  <2> QED
    BY <2>1, <2>2, StackFacts, PushFacts, SMTT(60)
<1>6. CASE ActionFailureAllowed
  <2> DEFINE f == [Top EXCEPT !.next = @ + 1]
  <2>1. /\ frames # <<>> /\ frames' = Append(Below, f) /\ state' = Top.checkpoint
        /\ UNCHANGED <<block, now, calls>>
    BY <1>6 DEF ActionFailureAllowed, AtAction
  <2>2. f \in Frames /\ f.base = Top.base /\ f.checkpoint = Top.checkpoint
    BY <2>1, StackFacts, AdvancedFrame
  <2>3. Sound(Top.base, block) /\ Sound(Top.checkpoint, block)
    BY <2>1, StackFacts
  <2> HIDE DEF f
  <2> QED
    BY <2>1, <2>2, <2>3, StackFacts, PushFacts
<1>7. CASE ActionFailureReverts
  BY <1>7, StackFacts DEF ActionFailureReverts, AtAction
<1>8. CASE ExecuteReturns
  <2>1. /\ frames # <<>> /\ frames' = Below
        /\ state' = [state EXCEPT !.executions[Top.proposalId] = @ + 1]
        /\ UNCHANGED <<block, now, calls>>
    BY <1>8 DEF ExecuteReturns
  <2>2. Top.proposalId \in Pids
    BY <2>1, StackFacts DEF Frames
  <2>3. Sound(state', block)
    BY <2>1, <2>2, ExecutionSound, Zenon
  <2> QED
    BY <2>1, <2>3, StackFacts
<1>9. CASE OutOfGas
  BY <1>9, StackFacts DEF OutOfGas
<1>10. CASE Mine
  BY <1>10, LaterBlockSound, ConstantTypes DEF Mine
<1>11. CASE UNCHANGED vars
  BY <1>11 DEF vars
<1> QED
  BY <1>1, <1>2, <1>3, <1>4, <1>5, <1>6, <1>7, <1>8, <1>9, <1>10, <1>11 DEF Next, DaoStep

(* In every reachable state, and in every state a revert would restore,    *)
(* everything the plugin records is sound.                                 *)
THEOREM SoundInvariant == Spec => []SoundInv
BY SoundInvInit, SoundInvStep, PTL DEF Spec

(* The types of the plugin hold, also of the states that a revert          *)
(* restores.                                                               *)
THEOREM TypeCorrect == Spec => []TypeOK
<1>1. SoundInv => TypeOK
  BY DEF SoundInv, Sound, TypeOK
<1> QED
  BY <1>1, SoundInvariant, PTL

(* Every counted vote was proved by the guest of its proposal, for this    *)
(* plugin, this proposal, its snapshot block and the recorded option, for  *)
(* any number of proposals, voters, nested calls and changes of settings.  *)
THEOREM CountedVotesAlwaysProved == Spec => []CountedVotesProved
<1>1. SoundInv => CountedVotesProved
  BY DEF SoundInv, Sound, CountedVotesProved
<1> QED
  BY <1>1, SoundInvariant, PTL

(* No proposal is ever marked executed without a proof of the execution    *)
(* guest it was created with.                                              *)
THEOREM ExecutedAlwaysOnProof == Spec => []ExecutedOnProof
<1>1. SoundInv => ExecutedOnProof
  BY DEF SoundInv, Sound, ExecutedOnProof
<1> QED
  BY <1>1, SoundInvariant, PTL

(* vote and execute never write to a proposal that was not created. *)
THEOREM UnknownProposalsStayEmpty == Spec => []UnknownProposalsEmpty
<1>1. SoundInv => UnknownProposalsEmpty
  BY Zenon DEF SoundInv, Sound, UnknownProposalsEmpty
<1> QED
  BY <1>1, SoundInvariant, PTL

(* The voting window of every proposal respects the limits the settings    *)
(* are checked against, and its snapshot precedes it.                      *)
THEOREM WindowsAlwaysValid == Spec => []WindowsRespectSettings
<1>1. SoundInv => WindowsRespectSettings
  BY DEF SoundInv, Sound, WindowsRespectSettings
<1> QED
  BY <1>1, SoundInvariant, PTL

(* The tallies of a proposal always add up to the powers of the first      *)
(* votes, whatever powers later votes of the same voters are proved with.  *)
THEOREM TurnoutAlwaysKept == Spec => []TurnoutIsFirstVotes
<1>1. SoundInv => TurnoutIsFirstVotes
  BY DEF SoundInv, Sound, TurnoutIsFirstVotes
<1> QED
  BY <1>1, SoundInvariant, PTL
=============================================================================

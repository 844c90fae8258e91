---------------------- MODULE VotingPluginTallyProofs -----------------------
(***************************************************************************)
(* Proof that the tallies of VotingPlugin are those of the latest votes,   *)
(* and within the supply, where the power of a voter is fixed by the       *)
(* block.  Where the voter has a choice of powers, the run latest_vote     *)
(* shows that the tallies are not.                                         *)
(***************************************************************************)
EXTENDS VotingPluginProofs, FiniteSums

(* The guests that proposals can be created with. *)
ImagesInUse == {settings.votingProtocolImageId : settings \in SettingsArgs}

(* What these guests prove for this plugin is a table: one power for each  *)
(* block and voter. *)
PowersFixed(power) ==
  /\ power \in [Nat -> [Voters -> Nat]]
  /\ \A image \in ImagesInUse, j \in Journals, b \in Nat :
       Attested(image, j) /\ j.configContract = Self /\ j.commitment.digest = BlockHash(b)
         => j.balance = power[b][j.voter]

(* The guest of every proposal is one the settings could name. *)
ImagesChosen(s) ==
  /\ s.votingSettings \in SettingsArgs
  /\ \A p \in Pids : Exists(s, p) =>
       s.proposals[p].parameters.votingProtocolImageId \in ImagesInUse

Counted(s) == TalliesLatest(s) /\ ImagesChosen(s)

(* A vote that counts has the power that the table gives the voter at the  *)
(* snapshot block.                                                         *)
LEMMA CastFixed ==
  ASSUME NEW power, PowersFixed(power), NEW b, NEW s, Sound(s, b), ImagesChosen(s),
         NEW p \in Pids, NEW v \in Voters, s.proposals[p].voters[v] # "None"
  PROVE  /\ s.proposals[p].parameters.snapshotBlock \in Nat
         /\ s.cast[p][v] = power[s.proposals[p].parameters.snapshotBlock][v]
<1>1. PICK j \in Journals : ProvesVote(s, p, v, j)
  BY DEF Sound, VotesProved
<1>2. Exists(s, p)
  BY DEF Sound, UnknownEmpty, EmptyProposal
<1>3. s.proposals[p].parameters.snapshotBlock \in Nat
  BY StoredTypes DEF Sound, Parameters
<1>4. s.proposals[p].parameters.votingProtocolImageId \in ImagesInUse
  BY <1>2 DEF ImagesChosen
<1>5. /\ Attested(s.proposals[p].parameters.votingProtocolImageId, j)
      /\ j.configContract = Self /\ j.voter = v /\ j.balance = s.cast[p][v]
      /\ j.commitment.digest = BlockHash(s.proposals[p].parameters.snapshotBlock)
  BY <1>1 DEF ProvesVote
<1> QED
  BY <1>3, <1>4, <1>5 DEF PowersFixed

(* The tallies count on after a vote.                                      *)
LEMMA VoteCounted ==
  ASSUME NEW power, PowersFixed(power), NEW b, NEW s, Sound(s, b), Counted(s),
         NEW j \in Journals, VoteAccepted(s, j)
  PROVE  Counted(AfterVote(s, j))
<1> DEFINE p == j.proposalId
           x == j.voter
           t == AfterVote(s, j)
           old == s.proposals[p].voters[x]
           new == VoteOption(j.direction)
           Choosing(u, q, o) == {v \in Voters : u.proposals[q].voters[v] = o}
<1>1. s \in States /\ t \in States
  BY AfterVoteType DEF Sound
<1>2. /\ p \in Pids /\ Exists(s, p) /\ j.configContract = Self
      /\ Attested(s.proposals[p].parameters.votingProtocolImageId, j)
      /\ j.commitment.digest = BlockHash(s.proposals[p].parameters.snapshotBlock)
  BY VerifiedExists, Zenon DEF VoteAccepted
<1>3. x \in Voters /\ j.balance \in Nat /\ new \in Tallied
  BY <1>1, VoteTypes
<1>4. /\ t.votingSettings = s.votingSettings /\ t.proposalCount = s.proposalCount
      /\ \A q \in Pids : q # p => /\ t.proposals[q] = s.proposals[q]
                                  /\ t.cast[q] = s.cast[q]
                                  /\ t.turnout[q] = s.turnout[q]
  BY <1>1, <1>2, AfterVoteFacts, Zenon
<1>5. /\ t.proposals[p].parameters = s.proposals[p].parameters
      /\ t.proposals[p].tally = TallyAfter(s.proposals[p], j)
      /\ t.proposals[p].voters = [s.proposals[p].voters EXCEPT ![x] = new]
      /\ t.cast[p] = [s.cast[p] EXCEPT ![x] = j.balance]
  BY <1>1, <1>2, AfterVoteFacts, Zenon
<1>6. ImagesChosen(t)
  BY <1>2, <1>4, <1>5, Zenon DEF Counted, ImagesChosen, Exists
<1>7. old # "None" => s.cast[p][x] = j.balance
  <2> SUFFICES ASSUME old # "None" PROVE s.cast[p][x] = j.balance
    OBVIOUS
  <2>1. /\ s.proposals[p].parameters.snapshotBlock \in Nat
        /\ s.cast[p][x] = power[s.proposals[p].parameters.snapshotBlock][x]
    BY <1>2, <1>3, CastFixed, SMTT(60) DEF Counted
  <2>2. s.proposals[p].parameters.votingProtocolImageId \in ImagesInUse
    BY <1>2 DEF Counted, ImagesChosen
  <2> QED
    BY <1>2, <2>1, <2>2, ZenonT(30) DEF PowersFixed
<1>8. ASSUME NEW o \in Tallied
      PROVE  t.proposals[p].tally[o] = SumFunctionOnSet(t.cast[p], Choosing(t, p, o))
  <2> DEFINE f == s.cast[p]
             g == t.cast[p]
             rest == Choosing(s, p, o) \ {x}
             sum == SumFunctionOnSet(f, rest)
  <2>1. /\ \A v \in Voters : f[v] \in Int /\ g[v] \in Int
        /\ g[x] = j.balance
        /\ \A v \in Voters \ {x} : g[v] = f[v]
    BY <1>1, <1>2, <1>3, <1>5, SMTT(60) DEF States
  <2>2. rest \in SUBSET Voters /\ x \notin rest
    OBVIOUS
  <2>3. IsFiniteSet(rest) /\ IsFiniteSet(Choosing(s, p, o)) /\ IsFiniteSet(Choosing(t, p, o))
    BY VotersFinite, FS_Subset, Zenon
  <2>4. sum \in Int /\ SumFunctionOnSet(g, rest) = sum
    <3> HIDE DEF f, g, rest
    <3> QED
      BY <2>1, <2>2, <2>3, SumInt, SumAgree, Zenon
  <2>5. s.proposals[p].tally[o] = IF old = o THEN j.balance + sum ELSE sum
    <3>1. s.proposals[p].tally[o] = SumFunctionOnSet(f, Choosing(s, p, o))
      BY <1>2, ZenonT(30) DEF Counted, TalliesLatest
    <3>2. CASE old = o
      <4>1. x \in Choosing(s, p, o)
        BY <1>3, <3>2, ZenonT(30)
      <4>2. o # "None"
        BY DEF Tallied
      <4>3. SumFunctionOnSet(f, Choosing(s, p, o)) = f[x] + sum
        <5>1. \A v \in Choosing(s, p, o) : f[v] \in Int
          BY <2>1, ZenonT(30)
        <5> HIDE DEF Choosing
        <5> QED
          BY <2>3, <4>1, <5>1, SumRemove, ZenonT(30)
      <4> QED
        BY <1>7, <3>1, <3>2, <4>2, <4>3, SMTT(60)
    <3>3. CASE old # o
      <4>1. rest = Choosing(s, p, o)
        BY <3>3, ZenonT(30)
      <4> QED
        BY <3>1, <3>3, <4>1, ZenonT(30)
    <3> QED
      BY <3>2, <3>3, Zenon
  <2>6. SumFunctionOnSet(g, Choosing(t, p, o)) = IF new = o THEN j.balance + sum ELSE sum
    <3>1. \A v \in Voters : t.proposals[p].voters[v]
                              = IF v = x THEN new ELSE s.proposals[p].voters[v]
      BY <1>1, <1>2, <1>5, StoredTypes, SMTT(60) DEF Proposals
    <3>2. CASE new = o
      <4>1. x \in Choosing(t, p, o) /\ Choosing(t, p, o) \ {x} = rest
        BY <1>3, <3>1, <3>2, Zenon
      <4>2. SumFunctionOnSet(g, Choosing(t, p, o))
              = g[x] + SumFunctionOnSet(g, Choosing(t, p, o) \ {x})
        <5>1. \A v \in Choosing(t, p, o) : g[v] \in Int
          BY <2>1, Zenon
        <5> HIDE DEF Choosing, g
        <5> QED
          BY <2>3, <4>1, <5>1, SumRemove, ZenonT(30)
      <4> QED
        BY <2>1, <2>4, <3>2, <4>1, <4>2, Zenon
    <3>3. CASE new # o
      <4>1. Choosing(t, p, o) = rest
        BY <3>1, <3>3, ZenonT(30)
      <4> QED
        BY <2>4, <3>3, <4>1, Zenon
    <3> QED
      BY <3>2, <3>3, ZenonT(30)
  <2>7. t.proposals[p].tally[o]
          = LET less == IF o = old THEN s.proposals[p].tally[o] - j.balance
                                   ELSE s.proposals[p].tally[o]
            IN IF o = new THEN less + j.balance ELSE less
    BY <1>5, Zenon DEF TallyAfter, Plus, Less
  <2> HIDE DEF sum, old, new, g
  <2> QED
    BY <1>3, <2>4, <2>5, <2>6, <2>7 DEF g
<1>9. ASSUME NEW q \in Pids, NEW o \in Tallied
      PROVE  t.proposals[q].tally[o] = SumFunctionOnSet(t.cast[q], Choosing(t, q, o))
  <2>1. CASE q = p
    BY <1>8, <2>1, ZenonT(30)
  <2>2. CASE q # p
    BY <1>4, <2>2, SMTT(60) DEF Counted, TalliesLatest
  <2> QED
    BY <2>1, <2>2, ZenonT(30)
<1> HIDE DEF t
<1>10. TalliesLatest(t)
  BY <1>9 DEF TalliesLatest
<1> QED
  BY <1>6, <1>10 DEF Counted, t

(* A step that leaves tallies, votes and powers alone keeps the count, as  *)
(* long as the guests are still among those in use.                        *)
LEMMA SameVotesCounted ==
  ASSUME NEW s, Counted(s), NEW t, t.cast = s.cast, ImagesChosen(t),
         \A q \in Pids : /\ t.proposals[q].tally = s.proposals[q].tally
                        /\ t.proposals[q].voters = s.proposals[q].voters
  PROVE  Counted(t)
BY DEF Counted, TalliesLatest

(* Nobody has chosen anything in an empty ballot.                          *)
LEMMA EmptyCounted ==
  ASSUME NEW proposal, NEW cast, NEW o \in Tallied,
         proposal.tally = [a \in Tallied |-> 0], proposal.voters = [v \in Voters |-> "None"]
  PROVE  proposal.tally[o]
           = SumFunctionOnSet(cast, {v \in Voters : proposal.voters[v] = o})
<1>1. {v \in Voters : proposal.voters[v] = o} = {}
  BY DEF Tallied
<1> QED
  BY <1>1, SumEmpty

(* The initializer leaves a state with nothing to count.                   *)
LEMMA InitialCounted ==
  ASSUME NEW settings \in SettingsArgs
  PROVE  Counted(InitialState(settings))
<1> DEFINE s == InitialState(settings)
<1>1. s.votingSettings = settings /\ s.proposalCount = 0
      /\ \A p \in Pids : s.proposals[p] = EmptyProposal
  BY DEF InitialState
<1>2. /\ EmptyProposal.tally = [o \in Tallied |-> 0]
      /\ EmptyProposal.voters = [v \in Voters |-> "None"]
  BY DEF EmptyProposal
<1> HIDE DEF s
<1>3. TalliesLatest(s)
  BY <1>1, <1>2, EmptyCounted, SMTT(60) DEF TalliesLatest
<1>4. ImagesChosen(s)
  BY <1>1, ConstantTypes DEF ImagesChosen, Exists, Pids
<1> QED
  BY <1>3, <1>4 DEF Counted, s

(* createProposal opens a ballot with nothing to count.                    *)
LEMMA CreateCounted ==
  ASSUME NEW s, Sound(s, block), Counted(s), NEW args, NEW start, NEW end,
         s.proposalCount < MaxProposals
  PROVE  Counted([s EXCEPT !.proposalCount = @ + 1,
                           !.proposals[s.proposalCount] =
                              NewProposal(s.votingSettings, args, start, end)])
<1> DEFINE p   == s.proposalCount
           new == NewProposal(s.votingSettings, args, start, end)
           t   == [s EXCEPT !.proposalCount = @ + 1, !.proposals[p] = new]
<1>1. s \in States /\ p \in Pids /\ p \in Nat
  BY ConstantTypes, SMTT(60) DEF Sound, States, Pids
<1>2. /\ t.votingSettings = s.votingSettings /\ t.proposalCount = p + 1
      /\ t.cast = s.cast /\ t.proposals[p] = new
      /\ \A q \in Pids : q # p => t.proposals[q] = s.proposals[q]
  <2> HIDE DEF new
  <2> QED
    BY <1>1 DEF States
<1>3. /\ new.voters = [v \in Voters |-> "None"]
      /\ new.tally = [o \in Tallied |-> 0]
      /\ new.parameters.votingProtocolImageId = s.votingSettings.votingProtocolImageId
  BY DEF NewProposal, EmptyProposal
<1> HIDE DEF t, new
<1>4. TalliesLatest(t)
  <2> SUFFICES ASSUME NEW q \in Pids, NEW o \in Tallied
               PROVE  t.proposals[q].tally[o]
                        = SumFunctionOnSet(t.cast[q], {v \in Voters : t.proposals[q].voters[v] = o})
    BY DEF TalliesLatest
  <2>1. CASE q = p
    BY <1>2, <1>3, <2>1, EmptyCounted, SMTT(60)
  <2>2. CASE q # p
    BY <1>2, <2>2, SMTT(60) DEF Counted, TalliesLatest
  <2> QED
    BY <2>1, <2>2, Zenon
<1>5. ImagesChosen(t)
  <2>1. new.parameters.votingProtocolImageId \in ImagesInUse
    BY <1>3 DEF Counted, ImagesChosen, ImagesInUse
  <2>2. \A q \in Pids : q < p + 1 => q = p \/ Exists(s, q)
    BY <1>1 DEF Exists, Pids
  <2> QED
    BY <1>2, <2>1, <2>2, Zenon DEF Counted, ImagesChosen, Exists
<1> QED
  BY <1>4, <1>5, Zenon DEF Counted, t, new

(* Marking a proposal as executed, and completing its execution, do not    *)
(* touch the votes; changing the settings does not either.                 *)
LEMMA OthersCounted ==
  ASSUME NEW s \in States, Counted(s), NEW p \in Pids, NEW settings \in SettingsArgs
  PROVE  /\ Counted(MarkExecuted(s, p))
         /\ Counted([s EXCEPT !.executions[p] = @ + 1])
         /\ Counted([s EXCEPT !.votingSettings = settings])
<1>1. Counted(MarkExecuted(s, p))
  <2> DEFINE t == MarkExecuted(s, p)
  <2>1. /\ t.votingSettings = s.votingSettings /\ t.proposalCount = s.proposalCount
        /\ t.cast = s.cast
    BY DEF MarkExecuted, States
  <2>2. \A q \in Pids : /\ t.proposals[q].parameters = s.proposals[q].parameters
                        /\ t.proposals[q].tally = s.proposals[q].tally
                        /\ t.proposals[q].voters = s.proposals[q].voters
    BY StoredTypes, SMTT(60) DEF MarkExecuted, States, Proposals
  <2> HIDE DEF t
  <2>3. ImagesChosen(t)
    BY <2>1, <2>2 DEF Counted, ImagesChosen, Exists
  <2> QED
    BY <2>1, <2>2, <2>3, SameVotesCounted, Zenon DEF t
<1>2. Counted([s EXCEPT !.executions[p] = @ + 1])
  <2> DEFINE t == [s EXCEPT !.executions[p] = @ + 1]
  <2>1. /\ t.votingSettings = s.votingSettings /\ t.proposalCount = s.proposalCount
        /\ t.cast = s.cast /\ t.proposals = s.proposals
    BY DEF States
  <2> HIDE DEF t
  <2>2. ImagesChosen(t)
    BY <2>1 DEF Counted, ImagesChosen, Exists
  <2> QED
    BY <2>1, <2>2, SameVotesCounted, Zenon DEF t
<1>3. Counted([s EXCEPT !.votingSettings = settings])
  <2> DEFINE t == [s EXCEPT !.votingSettings = settings]
  <2>1. /\ t.votingSettings = settings /\ t.proposalCount = s.proposalCount
        /\ t.cast = s.cast /\ t.proposals = s.proposals
    BY DEF States
  <2> HIDE DEF t
  <2>2. ImagesChosen(t)
    BY <2>1 DEF Counted, ImagesChosen, Exists
  <2> QED
    BY <2>1, <2>2, SameVotesCounted, ZenonT(30) DEF t
<1> QED
  BY <1>1, <1>2, <1>3, Zenon

-----------------------------------------------------------------------------
(* Every state that execution can be in or go back to has its votes        *)
(* counted right.                                                          *)
CountInv ==
  /\ Counted(state)
  /\ \A i \in 1 .. Len(frames) : Counted(frames[i].base) /\ Counted(frames[i].checkpoint)

(* Every step keeps the count.                                             *)
LEMMA CountStep ==
  ASSUME NEW power, PowersFixed(power), SoundInv, CountInv, [Next]_vars
  PROVE  CountInv'
<1> USE DEF CountInv
<1>0. /\ frames \in Seq(Frames) /\ Sound(state, block) /\ state \in States
  BY DEF SoundInv, Sound
<1>1. ASSUME NEW settings \in SettingsArgs, UpdateVotingSettings(settings) PROVE CountInv'
  <2>1. 0 \in Pids
    BY ConstantTypes DEF Pids
  <2> QED
    BY <1>0, <1>1, <2>1, OthersCounted, ZenonT(30) DEF UpdateVotingSettings
<1>2. ASSUME NEW args \in ActionArgs, NEW start \in DateArgs, NEW end \in DateArgs,
             CreateProposal(args, start, end)
      PROVE  CountInv'
  <2>1. Counted(state')
    BY <1>0, <1>2, CreateCounted, Zenon DEF CreateProposal
  <2> QED
    BY <1>2, <2>1 DEF CreateProposal
<1>3. ASSUME NEW j \in Journals, Vote(j) PROVE CountInv'
  BY <1>0, <1>3, VoteCounted, ZenonT(30) DEF Vote
<1>4. ASSUME NEW j \in Journals, Execute(j) PROVE CountInv'
  <2> DEFINE f == NewFrame(j.proposalId, state, state')
  <2>1. j.proposalId \in Pids
    BY ConstantTypes, ZenonT(30)
  <2>2. Counted(state') /\ state' \in States
    BY <1>0, <1>4, <2>1, OthersCounted, MarkExecutedType, ZenonT(60)
    DEF Execute, Counted, ImagesChosen
  <2>3. f \in Frames /\ f.base = state /\ f.checkpoint = state'
    BY <1>0, <2>1, <2>2, NewFrameFacts
  <2>4. frames' = Append(frames, f)
    BY <1>4, ZenonT(30) DEF Execute
  <2> HIDE DEF f
  <2> QED
    BY <1>0, <2>2, <2>3, <2>4, PushFacts, SMTT(60)
<1>5. CASE ActionSucceeds
  <2> DEFINE f == [Top EXCEPT !.next = @ + 1, !.checkpoint = state]
  <2>1. frames # <<>> /\ frames' = Append(Below, f) /\ state' = state
    BY <1>5 DEF ActionSucceeds, AtAction
  <2>2. f \in Frames /\ f.base = Top.base /\ f.checkpoint = state
    BY <1>0, <2>1, StackFacts, CheckpointedFrame, Zenon
  <2> HIDE DEF f
  <2> QED
    BY <1>0, <2>1, <2>2, StackFacts, PushFacts, SMTT(60)
<1>6. CASE ActionFailureAllowed
  <2> DEFINE f == [Top EXCEPT !.next = @ + 1]
  <2>1. frames # <<>> /\ frames' = Append(Below, f) /\ state' = Top.checkpoint
    BY <1>6 DEF ActionFailureAllowed, AtAction
  <2>2. f \in Frames /\ f.base = Top.base /\ f.checkpoint = Top.checkpoint
    BY <1>0, <2>1, StackFacts, AdvancedFrame, Zenon
  <2>3. Counted(Top.base) /\ Counted(Top.checkpoint)
    BY <1>0, <2>1, StackFacts, SMTT(60)
  <2> HIDE DEF f
  <2> QED
    BY <1>0, <2>1, <2>2, <2>3, StackFacts, PushFacts, SMTT(60)
<1>7. CASE ActionFailureReverts
  BY <1>0, <1>7, StackFacts, SMTT(60) DEF ActionFailureReverts, AtAction
<1>8. CASE ExecuteReturns
  <2>1. /\ frames # <<>> /\ frames' = Below
        /\ state' = [state EXCEPT !.executions[Top.proposalId] = @ + 1]
    BY <1>8 DEF ExecuteReturns
  <2>2. Top.proposalId \in Pids
    BY <1>0, <2>1, StackFacts, Zenon DEF Frames
  <2>3. Counted(state')
    BY <1>0, <2>1, <2>2, OthersCounted, Zenon DEF Counted, ImagesChosen
  <2> QED
    BY <1>0, <2>1, <2>3, StackFacts, SMTT(60)
<1>9. CASE OutOfGas
  BY <1>0, <1>9, StackFacts DEF OutOfGas
<1>10. CASE Mine \/ UNCHANGED vars
  BY <1>10 DEF Mine, vars
<1> QED
  BY <1>1, <1>2, <1>3, <1>4, <1>5, <1>6, <1>7, <1>8, <1>9, <1>10 DEF Next, DaoStep

(* CountInv is an invariant: with SoundInv it is inductive.                *)
LEMMA CountInvariant ==
  ASSUME NEW power, PowersFixed(power)
  PROVE  Spec => []CountInv
<1>1. Init => CountInv
  BY InitialCounted DEF Init, CountInv
<1>2. SoundInv /\ CountInv /\ [Next]_vars => CountInv'
  BY CountStep
<1> QED
  BY <1>1, <1>2, SoundInvariant, PTL DEF Spec

(* Where the guests in use prove one power for each voter and block, every *)
(* tally is the sum of the latest votes, for any number of voters and      *)
(* replacements (RiscVotingProtocolPlugin.vote).                           *)
THEOREM TallyAlwaysLatest ==
  ASSUME NEW power, PowersFixed(power)
  PROVE  Spec => []TallyIsLatestVotes
<1>1. CountInv => TallyIsLatestVotes
  BY DEF CountInv, Counted, TallyIsLatestVotes
<1> QED
  BY <1>1, CountInvariant, PTL

(* Where, moreover, the powers of a block add up to at most the supply, no *)
(* more power takes part in a vote than the token had supply at the        *)
(* snapshot.                                                               *)
THEOREM TurnoutAlwaysWithinSupply ==
  ASSUME NEW power, PowersFixed(power),
         \A b \in Nat : /\ Supply(b) \in Nat
                       /\ SumFunctionOnSet(power[b], Voters) <= Supply(b)
  PROVE  Spec => []TurnoutWithinSupply
<1>1. ASSUME SoundInv, CountInv, NEW p \in Pids
      PROVE  Turnout(state, p) <= Supply(state.proposals[p].parameters.snapshotBlock)
  <2> DEFINE proposal == state.proposals[p]
             n == proposal.parameters.snapshotBlock
             Choosing(o) == {v \in Voters : proposal.voters[v] = o}
             table == power[n]
             Power(o) == SumFunctionOnSet(table, Choosing(o))
             two == Choosing("Abstain") \cup Choosing("Yes")
             all == two \cup Choosing("No")
  <2>1. n \in Nat /\ table \in [Voters -> Nat]
    BY <1>1, StoredTypes, Zenon DEF SoundInv, Sound, Parameters, PowersFixed
  <2>2. ASSUME NEW o \in Tallied
        PROVE  proposal.tally[o] = Power(o)
    <3>1. state.cast[p] \in [Voters -> Nat]
      BY <1>1, Zenon DEF SoundInv, Sound, States
    <3>2. \A v \in Choosing(o) : state.cast[p][v] = table[v]
      BY <1>1, CastFixed, SMTT(60) DEF SoundInv, CountInv, Counted, Tallied
    <3>3. SumFunctionOnSet(state.cast[p], Choosing(o)) = Power(o)
      <4> DEFINE C == Choosing(o)
      <4>1. C \subseteq Voters /\ IsFiniteSet(C)
        BY VotersFinite, FS_Subset, Zenon
      <4> HIDE DEF C, table
      <4>2. SumFunctionOnSet(state.cast[p], C) = SumFunctionOnSet(table, C)
        BY <2>1, <3>1, <3>2, <4>1, SumAgree, SMTT(60) DEF C
      <4> QED
        BY <4>2 DEF C
    <3> QED
      BY <1>1, <3>3, Zenon DEF CountInv, Counted, TalliesLatest
  <2>3. Turnout(state, p) = Power("Abstain") + Power("Yes") + Power("No")
    BY <2>2, Zenon DEF Turnout, Tallied
  <2>4. /\ Choosing("Abstain") \subseteq Voters /\ Choosing("Yes") \subseteq Voters
        /\ Choosing("No") \subseteq Voters
        /\ Choosing("Abstain") \cap Choosing("Yes") = {} /\ two \cap Choosing("No") = {}
    OBVIOUS
  <2>5. IsFiniteSet(Choosing("Abstain")) /\ IsFiniteSet(Choosing("Yes"))
        /\ IsFiniteSet(Choosing("No")) /\ IsFiniteSet(two)
    BY <2>4, VotersFinite, FS_Subset, Zenon
  <2>6. SumFunctionOnSet(table, all) = Power("Abstain") + Power("Yes") + Power("No")
    <3> DEFINE A == Choosing("Abstain")
               Y == Choosing("Yes")
               N == Choosing("No")
    <3>1. /\ IsFiniteSet(A) /\ IsFiniteSet(Y) /\ IsFiniteSet(N) /\ IsFiniteSet(A \cup Y)
          /\ A \cap Y = {} /\ (A \cup Y) \cap N = {}
          /\ A \subseteq Voters /\ Y \subseteq Voters /\ N \subseteq Voters
      BY <2>4, <2>5, Zenon
    <3> HIDE DEF A, Y, N, table
    <3>2. (\A x \in A \cup Y : table[x] \in Int) /\ \A x \in (A \cup Y) \cup N : table[x] \in Int
      BY <2>1, <3>1, SMTT(60)
    <3>3. SumFunctionOnSet(table, A \cup Y)
            = SumFunctionOnSet(table, A) + SumFunctionOnSet(table, Y)
      BY <3>1, <3>2, SumUnion, Zenon
    <3>4. SumFunctionOnSet(table, (A \cup Y) \cup N)
            = SumFunctionOnSet(table, A \cup Y) + SumFunctionOnSet(table, N)
      BY <3>1, <3>2, SumUnion, Zenon
    <3> QED
      BY <3>3, <3>4, Zenon DEF A, Y, N
  <2>7. SumFunctionOnSet(table, all) <= SumFunctionOnSet(table, Voters)
    <3>1. all \in SUBSET Voters
      BY <2>4, Zenon
    <3> HIDE DEF all, table
    <3> QED
      BY <2>1, <3>1, VotersFinite, SumSubset, Zenon
  <2>8. SumFunctionOnSet(table, Voters) <= Supply(n) /\ Supply(n) \in Nat
    BY <2>1
  <2>9. SumFunctionOnSet(table, Voters) \in Int /\ SumFunctionOnSet(table, all) \in Int
    <3>1. IsFiniteSet(all) /\ all \subseteq Voters
      BY <2>4, VotersFinite, FS_Subset, Zenon
    <3> HIDE DEF all, table
    <3> QED
      BY <2>1, <3>1, VotersFinite, SumInt, SMTT(60)
  <2> HIDE DEF all, table, Power, n
  <2> QED
    BY <2>3, <2>6, <2>7, <2>8, <2>9, SMTT(60) DEF n
<1>2. SoundInv /\ CountInv => TurnoutWithinSupply
  BY <1>1 DEF TurnoutWithinSupply
<1> QED
  BY <1>2, SoundInvariant, CountInvariant, PTL
=============================================================================

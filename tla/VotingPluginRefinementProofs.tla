-------------------- MODULE VotingPluginRefinementProofs --------------------
(***************************************************************************)
(* The proof that VotingPlugin implements Ballots: seen between            *)
(* transactions, every step of the plugin is a step of Ballots or none.    *)
(***************************************************************************)
EXTENDS VotingPluginReentrancyProofs

Voted(s, p, v) == s.proposals[p].voters[v] # "None"

(* Nothing that happened to proposal p in s is undone in t, and more power *)
(* has taken part in t only if somebody voted for the first time.          *)
FollowsFor(s, t, p) ==
  /\ s.proposals[p].executed => t.proposals[p].executed
  /\ \A v \in Voters : Voted(s, p, v) => Voted(t, p, v)
  /\ s.turnout[p] <= t.turnout[p]
  /\ s.turnout[p] < t.turnout[p] => \E v \in Voters : ~Voted(s, p, v) /\ Voted(t, p, v)

Follows(s, t) ==
  /\ s.proposalCount <= t.proposalCount
  /\ \A p \in Pids : FollowsFor(s, t, p)

(* All that a transaction has reached, and all a revert of a part of it    *)
(* restores, follows the state in which the transaction started.           *)
OutermostInv ==
  frames # <<>> =>
    /\ Follows(frames[1].base, state)
    /\ \A i \in 1 .. Len(frames) :
         /\ Follows(frames[1].base, frames[i].base)
         /\ Follows(frames[1].base, frames[i].checkpoint)

(* The counts in a state are numbers. *)
LEMMA CountTypes ==
  ASSUME NEW s \in States
  PROVE  s.proposalCount \in Nat /\ \A p \in Pids : s.turnout[p] \in Nat
BY NumberTypes DEF States

(* A state follows itself. *)
LEMMA FollowsReflexive ==
  ASSUME NEW s \in States
  PROVE  Follows(s, s)
BY CountTypes DEF Follows, FollowsFor

(* What follows a state that follows s follows s. *)
LEMMA FollowsTransitive ==
  ASSUME NEW s \in States, NEW t \in States, NEW u \in States, Follows(s, t), Follows(t, u)
  PROVE  Follows(s, u)
<1>1. s.proposalCount <= u.proposalCount
  BY CountTypes DEF Follows
<1>2. ASSUME NEW p \in Pids PROVE FollowsFor(s, u, p)
  <2>1. FollowsFor(s, t, p) /\ FollowsFor(t, u, p)
    BY DEF Follows
  <2>2. s.turnout[p] \in Nat /\ t.turnout[p] \in Nat /\ u.turnout[p] \in Nat
    BY CountTypes
  <2>3. s.turnout[p] <= u.turnout[p]
    BY <2>1, <2>2 DEF FollowsFor
  <2>4. s.turnout[p] < u.turnout[p] => s.turnout[p] < t.turnout[p] \/ t.turnout[p] < u.turnout[p]
    BY <2>2
  <2> QED
    BY <2>1, <2>3, <2>4, ZenonT(30) DEF FollowsFor
<1> QED
  BY <1>1, <1>2 DEF Follows

(* A state with the same votes, marks and turnout follows. *)
LEMMA FollowsSame ==
  ASSUME NEW s \in States, NEW t \in States,
         s.proposalCount <= t.proposalCount,
         t.turnout = s.turnout,
         \A p \in Pids : /\ t.proposals[p].voters = s.proposals[p].voters
                         /\ s.proposals[p].executed => t.proposals[p].executed
  PROVE  Follows(s, t)
BY CountTypes DEF Follows, FollowsFor, Voted

(* An accepted vote is followed by the state it leaves: the turnout grows  *)
(* only with a first vote.                                                 *)
LEMMA VoteFollows ==
  ASSUME NEW s \in States, NEW j \in Journals, VoteAccepted(s, j)
  PROVE  Follows(s, AfterVote(s, j))
<1> DEFINE p == j.proposalId
           t == AfterVote(s, j)
<1>1. /\ p \in Pids /\ j.voter \in Voters /\ j.balance \in Nat
      /\ VoteOption(j.direction) \in Tallied
  BY VoteTypes
<1>2. s.proposals[p] \in Proposals
  BY <1>1, StoredTypes
<1>3. t.proposals[p] = WithVote(s.proposals[p], j) /\ t.proposalCount = s.proposalCount
  BY <1>1 DEF AfterVote, States
<1>4. /\ t.proposals[p].executed = s.proposals[p].executed
      /\ t.proposals[p].voters = [s.proposals[p].voters EXCEPT ![j.voter] = VoteOption(j.direction)]
  BY <1>2, <1>3 DEF WithVote, Proposals
<1>5. t.turnout[p] = IF s.proposals[p].voters[j.voter] = "None"
                     THEN s.turnout[p] + j.balance ELSE s.turnout[p]
  BY <1>1 DEF AfterVote, States
<1>6. \A q \in Pids : q # p => /\ t.proposals[q] = s.proposals[q]
                               /\ t.turnout[q] = s.turnout[q]
  BY DEF AfterVote, States
<1> HIDE DEF t
<1>7. Voted(t, p, j.voter) /\ \A v \in Voters : Voted(s, p, v) => Voted(t, p, v)
  BY <1>1, <1>2, <1>4 DEF Voted, Proposals, Tallied
<1>8. s.turnout[p] \in Nat /\ s.proposalCount \in Nat
  BY <1>1, CountTypes
<1>9. s.turnout[p] <= t.turnout[p]
  BY <1>1, <1>5, <1>8
<1>10. s.turnout[p] < t.turnout[p] => ~Voted(s, p, j.voter)
  BY <1>5, <1>8 DEF Voted
<1>11. FollowsFor(s, t, p)
  BY <1>1, <1>4, <1>7, <1>9, <1>10, Zenon DEF FollowsFor
<1>12. ASSUME NEW q \in Pids, q # p PROVE FollowsFor(s, t, q)
  BY <1>6, <1>12, CountTypes DEF FollowsFor, Voted
<1> QED
  BY <1>3, <1>8, <1>11, <1>12 DEF Follows, t

(* A call that returns is followed by the state it leaves. *)
LEMMA CallFollows ==
  ASSUME SoundInv, state' \in States,
                   \/ \E settings \in SettingsArgs : UpdateVotingSettings(settings)
                   \/ \E args \in ActionArgs, start, end \in DateArgs :
                        CreateProposal(args, start, end)
                   \/ \E j \in Journals : Vote(j)
                   \/ \E j \in Journals : Execute(j)
                   \/ ExecuteReturns
  PROVE  Follows(state, state')
<1>s. state \in States /\ state' \in States /\ state.proposalCount \in Nat /\ UnknownEmpty(state)
  BY CountTypes DEF SoundInv, Sound
<1>1. ASSUME NEW settings \in SettingsArgs, UpdateVotingSettings(settings)
      PROVE  Follows(state, state')
  <2>1. /\ state'.proposalCount = state.proposalCount /\ state'.turnout = state.turnout
        /\ state'.proposals = state.proposals
    BY <1>s, <1>1 DEF UpdateVotingSettings, States
  <2> QED
    BY <1>s, <2>1, FollowsSame
<1>2. ASSUME NEW args \in ActionArgs, NEW start \in DateArgs, NEW end \in DateArgs,
             CreateProposal(args, start, end)
      PROVE  Follows(state, state')
  <2> DEFINE p   == state.proposalCount
             new == NewProposal(state.votingSettings, args, start, end)
  <2>1. new.voters = EmptyProposal.voters
    BY DEF NewProposal, EmptyProposal
  <2> HIDE DEF new
  <2>2. state' = [state EXCEPT !.proposalCount = @ + 1, !.proposals[p] = new]
    BY <1>2, Zenon DEF CreateProposal, new
  <2>3. p \in Pids
    BY <1>s DEF States, Pids
  <2>4. /\ state'.proposalCount = p + 1 /\ state'.turnout = state.turnout
        /\ state'.proposals[p] = new
        /\ \A q \in Pids : q # p => state'.proposals[q] = state.proposals[q]
    BY <1>s, <2>2, <2>3 DEF States
  <2>5. state.proposals[p] = EmptyProposal /\ ~EmptyProposal.executed
    <3>1. ~Exists(state, p)
      BY <1>s DEF Exists
    <3> QED
      BY <1>s, <2>3, <3>1, Zenon DEF UnknownEmpty, EmptyProposal
  <2>6. state.proposalCount <= state'.proposalCount
    BY <1>s, <2>4
  <2>7. \A q \in Pids : /\ state'.proposals[q].voters = state.proposals[q].voters
                        /\ state.proposals[q].executed => state'.proposals[q].executed
    BY <2>1, <2>4, <2>5, Zenon
  <2> QED
    BY <1>s, <2>4, <2>6, <2>7, FollowsSame
<1>3. ASSUME NEW j \in Journals, Vote(j) PROVE Follows(state, state')
  BY <1>s, <1>3, VoteFollows DEF Vote
<1>4. ASSUME NEW j \in Journals, Execute(j) PROVE Follows(state, state')
  <2> DEFINE p == j.proposalId
  <2>1. state' = MarkExecuted(state, p) /\ p \in Pids
    BY <1>4, ConstantTypes DEF Execute
  <2>2. /\ state'.proposalCount = state.proposalCount /\ state'.turnout = state.turnout
        /\ state'.proposals[p] = [state.proposals[p] EXCEPT !.executed = TRUE]
        /\ \A q \in Pids : q # p => state'.proposals[q] = state.proposals[q]
    BY <1>s, <2>1, Zenon DEF MarkExecuted, States
  <2>3. state.proposals[p] \in Proposals
    BY <1>s, <2>1, StoredTypes
  <2>4. state'.proposals[p].voters = state.proposals[p].voters /\ state'.proposals[p].executed
    BY <2>2, <2>3, Zenon DEF Proposals
  <2>5. state.proposalCount <= state'.proposalCount
    BY <1>s, <2>2
  <2>6. \A q \in Pids : /\ state'.proposals[q].voters = state.proposals[q].voters
                        /\ state.proposals[q].executed => state'.proposals[q].executed
    BY <2>2, <2>4, Zenon
  <2> QED
    BY <1>s, <2>2, <2>5, <2>6, FollowsSame
<1>5. CASE ExecuteReturns
  <2>1. /\ state'.proposalCount = state.proposalCount /\ state'.turnout = state.turnout
        /\ state'.proposals = state.proposals
    BY <1>s, <1>5 DEF ExecuteReturns, States
  <2> QED
    BY <1>s, <2>1, FollowsSame
<1> QED
  BY <1>1, <1>2, <1>3, <1>4, <1>5, ZenonT(30)

(* Whatever a step does, all that a transaction reaches keeps following    *)
(* the state in which it started.                                          *)
LEMMA OutermostInvStep ==
  SoundInv /\ SoundInv' /\ OutermostInv /\ [Next]_vars => OutermostInv'
<1> SUFFICES ASSUME SoundInv, SoundInv', OutermostInv, [Next]_vars PROVE OutermostInv'
  OBVIOUS
<1>s. /\ state \in States /\ state' \in States /\ frames \in Seq(Frames)
      /\ \A i \in 1 .. Len(frames) : frames[i].base \in States /\ frames[i].checkpoint \in States
  BY DEF SoundInv, Sound
<1>n. frames # <<>> => 1 \in 1 .. Len(frames)
  BY <1>s
<1>1. ASSUME frames' = frames, Follows(state, state') PROVE OutermostInv'
  <2> SUFFICES ASSUME frames # <<>> PROVE Follows(frames[1].base, state')
    BY <1>1, Zenon DEF OutermostInv
  <2> QED
    BY <1>s, <1>n, <1>1, FollowsTransitive DEF OutermostInv
<1>2. CASE \/ \E settings \in SettingsArgs : UpdateVotingSettings(settings)
           \/ \E args \in ActionArgs, start, end \in DateArgs : CreateProposal(args, start, end)
           \/ \E j \in Journals : Vote(j)
  BY <1>s, <1>1, <1>2, CallFollows, ZenonT(30) DEF UpdateVotingSettings, CreateProposal, Vote
<1>3. ASSUME NEW j \in Journals, Execute(j) PROVE OutermostInv'
  <2> DEFINE n == Len(frames)
             f == NewFrame(j.proposalId, state, state')
  <2>1. Follows(state, state') /\ Follows(state, state)
    BY <1>s, <1>3, CallFollows, FollowsReflexive
  <2>2. frames' = Append(frames, f) /\ n \in Nat
    BY <1>s, <1>3 DEF Execute
  <2>3. f \in Frames /\ f.base = state /\ f.checkpoint = state'
    BY <1>s, ConstantTypes, NewFrameFacts, SMTT(60)
  <2> HIDE DEF f
  <2>4. /\ Len(frames') = n + 1 /\ frames'[n + 1] = f
        /\ \A k \in 1 .. n : frames'[k] = frames[k]
        /\ frames = <<>> => n = 0
        /\ \A k \in 1 .. n + 1 : k \in 1 .. n \/ k = n + 1
    BY <1>s, <2>2, <2>3, PushFacts
  <2>5. CASE frames = <<>>
    <3>1. \A k \in 1 .. Len(frames') : frames'[k] = f
      BY <2>4, <2>5
    <3>2. frames'[1] = f
      BY <2>4, <2>5
    <3> QED
      BY <2>1, <2>3, <3>1, <3>2 DEF OutermostInv
  <2>6. CASE frames # <<>>
    <3>1. frames'[1] = frames[1]
      BY <1>n, <2>4, <2>6
    <3>2. Follows(frames[1].base, state) /\ Follows(frames[1].base, state')
      BY <1>s, <1>n, <2>1, <2>6, FollowsTransitive DEF OutermostInv
    <3>3. \A k \in 1 .. n : /\ Follows(frames[1].base, frames'[k].base)
                            /\ Follows(frames[1].base, frames'[k].checkpoint)
      BY <2>4, <2>6 DEF OutermostInv
    <3> QED
      BY <2>3, <2>4, <3>1, <3>2, <3>3 DEF OutermostInv
  <2> QED
    BY <2>5, <2>6
<1>4. ASSUME frames # <<>>, NEW f \in Frames, frames' = Append(Below, f), f.base = Top.base,
             f.checkpoint \in {Top.checkpoint, state}, state' \in {Top.checkpoint, state}
      PROVE  OutermostInv'
  <2> DEFINE n == Len(frames)
  <2>1. /\ n \in Nat \ {0} /\ Len(frames') = n /\ frames'[n] = f /\ Top = frames[n]
        /\ \A k \in 1 .. n - 1 : frames'[k] = frames[k]
    BY <1>s, <1>4, StackFacts, PushFacts
  <2>2. \A k \in 1 .. n : k = n \/ k \in 1 .. n - 1
    BY <2>1
  <2>3. frames'[1].base = frames[1].base
    BY <1>4, <1>n, <2>1, <2>2
  <2>4. /\ Follows(frames[1].base, Top.base) /\ Follows(frames[1].base, Top.checkpoint)
        /\ Follows(frames[1].base, state)
        /\ \A k \in 1 .. n - 1 : /\ Follows(frames[1].base, frames[k].base)
                                 /\ Follows(frames[1].base, frames[k].checkpoint)
    BY <1>4, <2>1 DEF OutermostInv
  <2> QED
    BY <1>4, <2>1, <2>2, <2>3, <2>4 DEF OutermostInv
<1>5. ASSUME frames # <<>>, frames' = Below, state' = Top.base \/ Follows(state, state')
      PROVE  OutermostInv'
  <2> SUFFICES ASSUME frames' # <<>> PROVE OutermostInv'
    BY DEF OutermostInv
  <2> DEFINE n == Len(frames)
  <2>1. /\ n \in Nat \ {0} /\ Len(frames') = n - 1 /\ Top = frames[n]
        /\ \A k \in 1 .. n - 1 : frames'[k] = frames[k] /\ k \in 1 .. n
        /\ 1 \in 1 .. n - 1 /\ n \in 1 .. n
    BY <1>s, <1>5, StackFacts
  <2>2. Follows(frames[1].base, Top.base) /\ Follows(frames[1].base, state)
    BY <1>5, <2>1 DEF OutermostInv
  <2>3. Follows(frames[1].base, state')
    BY <1>s, <1>5, <2>1, <2>2, FollowsTransitive
  <2> QED
    BY <1>5, <2>1, <2>3 DEF OutermostInv
<1>6. CASE ActionSucceeds
  <2> DEFINE f == [Top EXCEPT !.next = @ + 1, !.checkpoint = state]
  <2>1. frames # <<>> /\ frames' = Append(Below, f) /\ state' = state
    BY <1>6, Zenon DEF ActionSucceeds, AtAction
  <2>2. f \in Frames /\ f.base = Top.base /\ f.checkpoint = state
    BY <1>s, <2>1, StackFacts, CheckpointedFrame, ZenonT(30)
  <2> HIDE DEF f
  <2> QED
    BY <1>4, <2>1, <2>2, Zenon
<1>7. CASE ActionFailureAllowed
  <2> DEFINE f == [Top EXCEPT !.next = @ + 1]
  <2>1. frames # <<>> /\ frames' = Append(Below, f) /\ state' = Top.checkpoint
    BY <1>7 DEF ActionFailureAllowed, AtAction
  <2>2. f \in Frames /\ f.base = Top.base /\ f.checkpoint = Top.checkpoint
    BY <1>s, <2>1, StackFacts, AdvancedFrame
  <2> HIDE DEF f
  <2> QED
    BY <1>4, <2>1, <2>2, Zenon
<1>8. CASE ActionFailureReverts
  BY <1>5, <1>8 DEF ActionFailureReverts, AtAction
<1>9. CASE ExecuteReturns
  BY <1>s, <1>5, <1>9, CallFollows, Zenon DEF ExecuteReturns
<1>10. CASE OutOfGas
  BY <1>10 DEF OutOfGas, OutermostInv
<1>11. CASE Mine \/ UNCHANGED vars
  BY <1>11, ZenonT(30) DEF Mine, vars, OutermostInv
<1> QED
  BY <1>2, <1>3, <1>6, <1>7, <1>8, <1>9, <1>10, <1>11, Zenon DEF Next, DaoStep

(* Every step keeps what the chain shows between transactions, or leads to *)
(* a state that follows it.                                                *)
LEMMA CommittedStep ==
  ASSUME SoundInv, SoundInv', OutermostInv, [Next]_vars
  PROVE  Follows(Committed, Committed')
<1>s. /\ state \in States /\ state' \in States /\ frames \in Seq(Frames)
      /\ \A i \in 1 .. Len(frames) : frames[i].base \in States
  BY DEF SoundInv, Sound
<1>n. frames # <<>> => 1 \in 1 .. Len(frames)
  BY <1>s
<1>c. Committed \in States /\ Follows(Committed, Committed) /\ Follows(state, state)
  BY <1>s, <1>n, FollowsReflexive DEF Committed
<1>1. ASSUME frames' = frames, Follows(state, state') PROVE Follows(Committed, Committed')
  <2>1. CASE frames = <<>>
    BY <1>1, <2>1 DEF Committed
  <2>2. CASE frames # <<>>
    BY <1>c, <1>1, <2>2 DEF Committed
  <2> QED
    BY <2>1, <2>2
<1>2. CASE \/ \E settings \in SettingsArgs : UpdateVotingSettings(settings)
           \/ \E args \in ActionArgs, start, end \in DateArgs : CreateProposal(args, start, end)
           \/ \E j \in Journals : Vote(j)
  <2>1. frames' = frames
    BY <1>2, Zenon DEF UpdateVotingSettings, CreateProposal, Vote
  <2> QED
    BY <1>s, <1>c, <1>1, <1>2, <2>1, CallFollows
<1>3. ASSUME NEW j \in Journals, Execute(j) PROVE Committed' = Committed
  <2> DEFINE n == Len(frames)
             f == NewFrame(j.proposalId, state, state')
  <2>1. frames' = Append(frames, f) /\ n \in Nat
    BY <1>s, <1>3 DEF Execute
  <2>2. f \in Frames /\ f.base = state
    BY <1>s, ConstantTypes, NewFrameFacts, SMTT(60)
  <2> HIDE DEF f
  <2>3. /\ Len(frames') = n + 1 /\ frames'[n + 1] = f
        /\ \A k \in 1 .. n : frames'[k] = frames[k]
        /\ frames = <<>> => n = 0
    BY <1>s, <2>1, <2>2, PushFacts
  <2>4. frames' # <<>>
    BY <2>1, <2>3
  <2>5. frames'[1].base = Committed
    BY <1>n, <2>2, <2>3 DEF Committed
  <2> QED
    BY <2>4, <2>5 DEF Committed
<1>4. ASSUME frames # <<>>, NEW f \in Frames, frames' = Append(Below, f), f.base = Top.base
      PROVE  Committed' = Committed
  <2> DEFINE n == Len(frames)
  <2>1. /\ n \in Nat \ {0} /\ Len(frames') = n /\ frames'[n] = f /\ Top = frames[n]
        /\ \A k \in 1 .. n - 1 : frames'[k] = frames[k]
    BY <1>s, <1>4, StackFacts, PushFacts
  <2>2. 1 = n \/ 1 \in 1 .. n - 1
    BY <2>1
  <2>3. frames' # <<>> /\ frames'[1].base = frames[1].base
    BY <1>4, <2>1, <2>2
  <2> QED
    BY <1>4, <2>3 DEF Committed
<1>5. ASSUME frames # <<>>, frames' = Below, state' = Top.base \/ Follows(state, state')
      PROVE  Follows(Committed, Committed')
  <2> DEFINE n == Len(frames)
  <2>1. /\ n \in Nat \ {0} /\ Len(frames') = n - 1 /\ Top = frames[n]
        /\ \A k \in 1 .. n - 1 : frames'[k] = frames[k]
    BY <1>s, <1>5, StackFacts
  <2>2. CASE n = 1
    <3>1. frames' = <<>>
      BY <1>s, <1>5, <2>1, <2>2, StackFacts
    <3>2. Follows(frames[1].base, state) /\ Follows(frames[1].base, frames[1].base)
      BY <1>c, <1>n, <1>5 DEF OutermostInv, Committed
    <3>3. Follows(frames[1].base, state')
      BY <1>s, <1>n, <1>5, <2>1, <2>2, <3>2, FollowsTransitive
    <3> QED
      BY <1>5, <3>1, <3>3 DEF Committed
  <2>3. CASE n # 1
    <3>1. 1 \in 1 .. n - 1 /\ Len(frames') # 0
      BY <2>1, <2>3
    <3>2. frames' # <<>> /\ frames'[1] = frames[1]
      BY <2>1, <3>1
    <3> QED
      BY <1>c, <1>5, <3>2 DEF Committed
  <2> QED
    BY <2>2, <2>3
<1>6. CASE ActionSucceeds
  <2> DEFINE f == [Top EXCEPT !.next = @ + 1, !.checkpoint = state]
  <2>1. frames # <<>> /\ frames' = Append(Below, f)
    BY <1>6, Zenon DEF ActionSucceeds, AtAction
  <2>2. f \in Frames /\ f.base = Top.base
    BY <1>s, <2>1, StackFacts, CheckpointedFrame, ZenonT(30)
  <2> HIDE DEF f
  <2> QED
    BY <1>c, <1>4, <2>1, <2>2, Zenon
<1>7. CASE ActionFailureAllowed
  <2> DEFINE f == [Top EXCEPT !.next = @ + 1]
  <2>1. frames # <<>> /\ frames' = Append(Below, f)
    BY <1>7 DEF ActionFailureAllowed, AtAction
  <2>2. f \in Frames /\ f.base = Top.base
    BY <1>s, <2>1, StackFacts, AdvancedFrame
  <2> HIDE DEF f
  <2> QED
    BY <1>c, <1>4, <2>1, <2>2, Zenon
<1>8. CASE ActionFailureReverts
  BY <1>c, <1>5, <1>8 DEF ActionFailureReverts, AtAction
<1>9. CASE ExecuteReturns
  BY <1>s, <1>c, <1>5, <1>9, CallFollows, Zenon DEF ExecuteReturns
<1>10. CASE OutOfGas
  <2>1. Committed' = Committed
    BY <1>10 DEF OutOfGas, Committed
  <2> QED
    BY <1>c, <2>1, Zenon
<1>11. CASE Mine \/ UNCHANGED vars
  <2>1. Committed' = Committed
    BY <1>11 DEF Mine, vars, Committed
  <2> QED
    BY <1>c, <2>1, Zenon
<1> QED
  BY <1>c, <1>2, <1>3, <1>6, <1>7, <1>8, <1>9, <1>10, <1>11, Zenon DEF Next, DaoStep

(* What the chain shows between transactions is sound, and exactly the     *)
(* proposals marked executed were carried out.                             *)
CommittedInv ==
  /\ Committed \in States
  /\ UnknownEmpty(Committed)
  /\ TurnoutKept(Committed)
  /\ \A p \in Pids : Committed.executions[p] = IF Committed.proposals[p].executed THEN 1 ELSE 0

(* It is, because nothing is in progress then. *)
LEMMA CommittedSound == SoundInv /\ OnceInv => CommittedInv
<1> SUFFICES ASSUME SoundInv, OnceInv PROVE CommittedInv
  OBVIOUS
<1>1. frames \in Seq(Frames)
  BY DEF SoundInv
<1>2. Sound(Committed, block)
  BY <1>1 DEF SoundInv, Committed
<1>3. Settled(Committed, frames, 0)
  <2>1. CASE frames = <<>>
    <3>1. Len(frames) = 0 /\ Committed = state
      BY <2>1 DEF Committed
    <3> QED
      BY <3>1, Zenon DEF OnceInv
  <2>2. CASE frames # <<>>
    <3>1. 1 \in 1 .. Len(frames) /\ 1 - 1 = 0 /\ Committed = frames[1].base
      BY <1>1, <2>2 DEF Committed
    <3> QED
      BY <3>1, Zenon DEF OnceInv
  <2> QED
    BY <2>1, <2>2
<1>4. Running(frames, 0) = {}
  BY DEF Running
<1> QED
  BY <1>2, <1>3, <1>4 DEF Sound, Settled, ExecutedOnce, CommittedInv

(* Between two states that follow one another there is a step of Ballots. *)
LEMMA TransactionStep ==
  ASSUME CommittedInv, CommittedInv', Follows(Committed, Committed')
  PROVE  Public!Transaction
<1> DEFINE s == Committed
           t == Committed'
<1>1. /\ s \in States /\ t \in States
      /\ UnknownEmpty(t) /\ TurnoutKept(s) /\ TurnoutKept(t)
      /\ \A p \in Pids : /\ s.executions[p] = IF s.proposals[p].executed THEN 1 ELSE 0
                         /\ t.executions[p] = IF t.proposals[p].executed THEN 1 ELSE 0
  BY DEF CommittedInv
<1>2. Follows(s, t)
  OBVIOUS
<1> HIDE DEF s, t
<1>3. ASSUME NEW p \in Pids PROVE Turnout(s, p) = s.turnout[p] /\ Turnout(t, p) = t.turnout[p]
  BY <1>1 DEF Turnout, TurnoutKept
<1>4. ASSUME NEW p \in Pids
      PROVE  /\ \A v \in Voters : s.proposals[p].voters[v] # "None" => t.proposals[p].voters[v] # "None"
             /\ Turnout(s, p) <= Turnout(t, p)
             /\ Turnout(s, p) < Turnout(t, p) =>
                  {v \in Voters : /\ s.proposals[p].voters[v] = "None"
                                  /\ t.proposals[p].voters[v] # "None"} # {}
  BY <1>2, <1>3, SMTT(60) DEF Follows, FollowsFor, Voted
<1>5. ASSUME NEW p \in Pids
      PROVE  /\ t.executions[p] \in {s.executions[p], 1}
             /\ t.proposals[p].executed <=> t.executions[p] = 1
  BY <1>1, <1>2 DEF Follows, FollowsFor
<1>6. ASSUME NEW p \in Pids, t.proposalCount <= p
      PROVE  /\ \A v \in Voters : t.proposals[p].voters[v] = "None"
             /\ Turnout(t, p) = 0
             /\ t.executions[p] = 0
  <2>1. ~Exists(t, p)
    BY <1>1, <1>6, CountTypes DEF Exists, Pids
  <2>2. t.proposals[p] = EmptyProposal
    BY <1>1, <2>1 DEF UnknownEmpty
  <2>3. /\ ~EmptyProposal.executed
        /\ \A v \in Voters : EmptyProposal.voters[v] = "None"
        /\ \A o \in Tallied : EmptyProposal.tally[o] = 0
    BY DEF EmptyProposal
  <2> QED
    BY <1>1, <2>2, <2>3 DEF Turnout, Tallied
<1>7. s.proposalCount <= t.proposalCount
  BY <1>2 DEF Follows
<1> USE DEF s, t
<1>8. ASSUME NEW p \in Pids PROVE Public!KeepsBallots(p)
  BY <1>4, <1>8 DEF Public!KeepsBallots, Public!NewVoters
<1>9. ASSUME NEW p \in Pids PROVE Public!CarriesOutOnce(p)
  BY <1>5, <1>9 DEF Public!CarriesOutOnce
<1>10. ASSUME NEW p \in Pids PROVE Public!UntouchedUntilCreated(p)
  BY <1>6, <1>10 DEF Public!UntouchedUntilCreated
<1> QED
  BY <1>7, <1>8, <1>9, <1>10 DEF Public!Transaction

(* The plugin starts as Ballots does. *)
LEMMA BallotsInit == Init => Public!Init
<1> SUFFICES ASSUME Init PROVE Public!Init
  OBVIOUS
<1>1. PICK settings \in SettingsArgs : state = InitialState(settings)
  BY DEF Init
<1>2. Committed = InitialState(settings)
  BY <1>1 DEF Init, Committed
<1>3. /\ Committed.proposalCount = 0
      /\ \A p \in Pids : Committed.proposals[p] = EmptyProposal /\ Committed.executions[p] = 0
  BY <1>2 DEF InitialState
<1>4. /\ ~EmptyProposal.executed
      /\ \A v \in Voters : EmptyProposal.voters[v] = "None"
      /\ \A o \in Tallied : EmptyProposal.tally[o] = 0
  BY DEF EmptyProposal
<1> QED
  BY <1>3, <1>4 DEF Public!Init, Turnout, Tallied

(* The plugin implements Ballots, for any number of proposals, voters,     *)
(* nested calls and reverts: between transactions votes are never lost,    *)
(* power comes with new voters only, and the proposals marked executed are *)
(* those the DAO has carried out, once (vote and _execute).                *)
THEOREM AlwaysImplementsBallots == Spec => ImplementsBallots
<1>1. Init => OutermostInv
  BY DEF Init, OutermostInv
<1>2. SoundInv /\ SoundInv' /\ OutermostInv /\ CommittedInv /\ CommittedInv' /\ [Next]_vars
        => [Public!Transaction]_(Public!vars)
  BY CommittedStep, TransactionStep, Zenon
<1> QED
  BY <1>1, <1>2, OutermostInvStep, BallotsInit, CommittedSound, OnceInvInit, OnceInvStep,
     SoundInvariant, PTL DEF Spec, ImplementsBallots, Public!Spec
=============================================================================

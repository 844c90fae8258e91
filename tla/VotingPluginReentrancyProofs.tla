-------------------- MODULE VotingPluginReentrancyProofs --------------------
(***************************************************************************)
(* Proofs about VotingPlugin that are about calls back into the plugin:    *)
(* a proposal is carried out at most once, and no revert brings back other *)
(* parameters for a proposal that exists.                                  *)
(***************************************************************************)
EXTENDS VotingPluginProofs

(* `depth' calls of the stack `fs' are in progress in state s: their       *)
(* proposals are marked, and the completed executions are those of the     *)
(* other marked proposals.                                                 *)
Running(fs, depth) == {fs[k].proposalId : k \in 1 .. depth}

Settled(s, fs, depth) ==
  /\ ExecutedOnce(s, Running(fs, depth))
  /\ \A k \in 1 .. depth : s.proposals[fs[k].proposalId].executed

(* The state and what a revert restores are settled, each at its depth,    *)
(* and a call was made when its proposal was not marked yet.               *)
OnceInv ==
  /\ Settled(state, frames, Len(frames))
  /\ \A i \in 1 .. Len(frames) :
       /\ Settled(frames[i].base, frames, i - 1)
       /\ Settled(frames[i].checkpoint, frames, i)
       /\ ~frames[i].base.proposals[frames[i].proposalId].executed

(* Whether a state is settled depends on the stack up to that depth only. *)
LEMMA SettledPrefix ==
  ASSUME NEW s, NEW fs, NEW gs, NEW depth,
         Settled(s, fs, depth),
         \A k \in 1 .. depth : gs[k].proposalId = fs[k].proposalId
  PROVE  Settled(s, gs, depth)
<1>1. Running(fs, depth) = Running(gs, depth)
  BY DEF Running
<1> QED
  BY <1>1 DEF Settled

(* Whether it is settled depends on the marks and completed executions. *)
LEMMA SettledSame ==
  ASSUME NEW s, NEW t, NEW fs, NEW depth, Settled(s, fs, depth),
         \A k \in 1 .. depth : fs[k].proposalId \in Pids,
         \A p \in Pids : /\ t.proposals[p].executed = s.proposals[p].executed
                         /\ t.executions[p] = s.executions[p]
  PROVE  Settled(t, fs, depth)
BY DEF Settled, ExecutedOnce

(* The calls on the stack have their types. *)
LEMMA StackTypes ==
  ASSUME SoundInv, NEW k \in 1 .. Len(frames)
  PROVE  frames[k] \in Frames /\ frames[k].proposalId \in Pids
<1>1. frames \in Seq(Frames)
  BY DEF SoundInv
<1>2. frames[k] \in Frames
  BY <1>1
<1> QED
  BY <1>2 DEF Frames

(* No proposal is in progress twice. *)
LEMMA StackDistinct ==
  ASSUME SoundInv, OnceInv,
         NEW i \in 1 .. Len(frames), NEW k \in 1 .. Len(frames), i < k
  PROVE  frames[i].proposalId # frames[k].proposalId
<1>1. i \in 1 .. k - 1
  BY SMTT(60) DEF SoundInv
<1>2. frames[k].base.proposals[frames[i].proposalId].executed
  BY <1>1 DEF OnceInv, Settled
<1>3. ~frames[k].base.proposals[frames[k].proposalId].executed
  BY DEF OnceInv
<1> QED
  BY <1>2, <1>3

(* A call that marks and completes nothing keeps everything settled. *)
LEMMA CallSettled ==
  ASSUME SoundInv, OnceInv, frames' = frames,
         \A p \in Pids : /\ state'.proposals[p].executed = state.proposals[p].executed
                         /\ state'.executions[p] = state.executions[p]
  PROVE  OnceInv'
<1>1. \A k \in 1 .. Len(frames) : frames[k].proposalId \in Pids
  BY StackTypes
<1>2. Settled(state', frames, Len(frames))
  BY <1>1, SettledSame DEF OnceInv
<1> QED
  BY <1>2 DEF OnceInv

(* Marking the proposal of a new call, and calling the DAO for it. *)
LEMMA ExecuteSettled ==
  ASSUME SoundInv, OnceInv, NEW j \in Journals, Execute(j)
  PROVE  OnceInv'
<1> DEFINE p == j.proposalId
           n == Len(frames)
           f == NewFrame(p, state, state')
<1>1. p \in Pids /\ n \in Nat /\ frames \in Seq(Frames) /\ state \in States
  BY ConstantTypes, SMTT(60) DEF SoundInv, Sound
<1>2. state' = MarkExecuted(state, p) /\ frames' = Append(frames, f)
  BY DEF Execute
<1>3. state' \in States
  BY <1>1, <1>2, MarkExecutedType
<1>4. f \in Frames /\ f.base = state /\ f.checkpoint = state' /\ f.proposalId = p
  BY <1>1, <1>3, NewFrameFacts
<1> HIDE DEF f
<1>5. /\ Len(frames') = n + 1 /\ frames'[n + 1] = f
      /\ \A k \in 1 .. n : frames'[k] = frames[k]
  BY <1>1, <1>2, <1>4, PushFacts
<1>6. ~state.proposals[p].executed
  BY DEF Execute, ExecuteAccepted, _canExecute
<1>7. /\ state'.proposals[p].executed
      /\ \A q \in Pids : q # p => state'.proposals[q].executed = state.proposals[q].executed
      /\ \A q \in Pids : state'.executions[q] = state.executions[q]
  <2>1. state.proposals[p] \in Proposals
    BY <1>1, StoredTypes
  <2>2. [state.proposals[p] EXCEPT !.executed = TRUE].executed = TRUE
    BY <2>1, Zenon DEF Proposals
  <2>3. state'.proposals[p] = [state.proposals[p] EXCEPT !.executed = TRUE]
    BY <1>1, <1>2, Zenon DEF MarkExecuted, States
  <2> QED
    BY <1>1, <1>2, <2>2, <2>3 DEF MarkExecuted, States
<1>8. Settled(state, frames', n)
  BY <1>5, SettledPrefix DEF OnceInv
<1>9. Running(frames', n + 1) = Running(frames', n) \cup {p}
  <2>1. 1 .. n + 1 = (1 .. n) \cup {n + 1}
    BY <1>1
  <2> QED
    BY <1>4, <1>5, <2>1 DEF Running
<1>10. ExecutedOnce(state', Running(frames', n + 1))
  BY <1>6, <1>7, <1>8, <1>9 DEF Settled, ExecutedOnce
<1>11. \A k \in 1 .. n + 1 : state'.proposals[frames'[k].proposalId].executed
  <2>1. ASSUME NEW k \in 1 .. n PROVE state'.proposals[frames'[k].proposalId].executed
    <3>1. frames'[k].proposalId \in Pids /\ state.proposals[frames'[k].proposalId].executed
      BY <1>5, <1>8, <2>1, StackTypes DEF Settled
    <3> QED
      BY <1>7, <3>1
  <2>2. state'.proposals[frames'[n + 1].proposalId].executed
    BY <1>4, <1>5, <1>7
  <2> QED
    BY <1>1, <2>1, <2>2
<1>12. Settled(state', frames', n + 1)
  BY <1>10, <1>11 DEF Settled
<1>13. ASSUME NEW i \in 1 .. n
       PROVE  /\ Settled(frames'[i].base, frames', i - 1)
              /\ Settled(frames'[i].checkpoint, frames', i)
              /\ ~frames'[i].base.proposals[frames'[i].proposalId].executed
  <2>1. (\A k \in 1 .. i : frames'[k] = frames[k]) /\ (\A k \in 1 .. i - 1 : frames'[k] = frames[k])
    BY <1>1, <1>5, <1>13
  <2> QED
    BY <1>5, <1>13, <2>1, SettledPrefix, Zenon DEF OnceInv
<1>14. /\ Settled(f.base, frames', (n + 1) - 1)
       /\ Settled(f.checkpoint, frames', n + 1)
       /\ ~f.base.proposals[f.proposalId].executed
  BY <1>1, <1>4, <1>6, <1>8, <1>12
<1>15. \A i \in 1 .. n + 1 : i \in 1 .. n \/ i = n + 1
  BY <1>1
<1> QED
  BY <1>5, <1>12, <1>13, <1>14, <1>15 DEF OnceInv

(* A call that starts when a state is settled at some depth restores that  *)
(* state when it reverts, and the stack below it is what it was.           *)
LEMMA PopSettled ==
  ASSUME SoundInv, OnceInv, frames # <<>>, frames' = Below,
         Settled(state', Below, Len(frames) - 1)
  PROVE  OnceInv'
<1> DEFINE n == Len(frames)
<1>1. /\ n \in Nat \ {0} /\ Len(frames') = n - 1
      /\ \A k \in 1 .. n - 1 : frames'[k] = frames[k]
  BY StackFacts DEF SoundInv
<1>2. ASSUME NEW i \in 1 .. n - 1
      PROVE  /\ Settled(frames'[i].base, frames', i - 1)
             /\ Settled(frames'[i].checkpoint, frames', i)
             /\ ~frames'[i].base.proposals[frames'[i].proposalId].executed
  <2>1. /\ i \in 1 .. n
        /\ \A k \in 1 .. i : frames'[k] = frames[k]
        /\ \A k \in 1 .. i - 1 : frames'[k] = frames[k]
    BY <1>1, <1>2, SMTT(60)
  <2> QED
    BY <1>1, <1>2, <2>1, SettledPrefix, Zenon DEF OnceInv
<1> QED
  BY <1>1, <1>2 DEF OnceInv

(* Moving the innermost call to its next action. *)
LEMMA AdvanceSettled ==
  ASSUME SoundInv, OnceInv, frames # <<>>, NEW f \in Frames, frames' = Append(Below, f),
         f.base = Top.base, f.proposalId = Top.proposalId,
         Settled(state', frames, Len(frames)),
         Settled(f.checkpoint, frames, Len(frames))
  PROVE  OnceInv'
<1> DEFINE n == Len(frames)
<1>1. /\ n \in Nat \ {0} /\ Len(frames') = n /\ frames'[n] = f /\ Top = frames[n]
      /\ \A k \in 1 .. n - 1 : frames'[k] = frames[k]
  BY StackFacts, PushFacts DEF SoundInv
<1>2. \A k \in 1 .. n : frames'[k].proposalId = frames[k].proposalId
  BY <1>1
<1>3. ASSUME NEW i \in 1 .. n
      PROVE  /\ Settled(frames'[i].base, frames', i - 1)
             /\ Settled(frames'[i].checkpoint, frames', i)
             /\ ~frames'[i].base.proposals[frames'[i].proposalId].executed
  <2>1. /\ frames'[i].base = frames[i].base
        /\ \A k \in 1 .. i : frames'[k].proposalId = frames[k].proposalId
        /\ \A k \in 1 .. i - 1 : frames'[k].proposalId = frames[k].proposalId
    BY <1>1, <1>2, <1>3
  <2>2. Settled(frames'[i].checkpoint, frames, i)
    BY <1>1, <1>3, SMTT(60) DEF OnceInv
  <2> QED
    BY <1>2, <1>3, <2>1, <2>2, SettledPrefix, ZenonT(30) DEF OnceInv
<1>4. Settled(state', frames', n)
  BY <1>2, SettledPrefix, Zenon
<1> QED
  BY <1>1, <1>3, <1>4 DEF OnceInv

(* Completing the innermost call: its proposal is marked, was not          *)
(* completed before, and is not in progress any more.                      *)
LEMMA ReturnSettled ==
  ASSUME SoundInv, OnceInv, ExecuteReturns
  PROVE  OnceInv'
<1> DEFINE n == Len(frames)
           p == Top.proposalId
<1>1. /\ n \in Nat \ {0} /\ Top = frames[n] /\ n \in 1 .. n
      /\ \A k \in 1 .. n - 1 : Below[k] = frames[k]
      /\ frames # <<>> /\ frames' = Below
  BY StackFacts DEF SoundInv, ExecuteReturns
<1>2. p \in Pids /\ state \in States
  BY <1>1, StackTypes DEF SoundInv, Sound
<1>3. state' = [state EXCEPT !.executions[p] = @ + 1]
  BY DEF ExecuteReturns
<1>4. /\ state'.proposals = state.proposals
      /\ state'.executions[p] = state.executions[p] + 1
      /\ \A q \in Pids : q # p => state'.executions[q] = state.executions[q]
  BY <1>2, <1>3 DEF States
<1>5. Running(frames, n) = Running(Below, n - 1) \cup {p}
  <2>1. 1 .. n = (1 .. n - 1) \cup {n}
    BY <1>1
  <2> QED
    BY <1>1, <2>1 DEF Running
<1>6. p \notin Running(Below, n - 1)
  BY <1>1, StackDistinct, SMTT(60) DEF Running
<1>7. state.proposals[p].executed
  BY <1>1, Zenon DEF OnceInv, Settled
<1>8. ExecutedOnce(state', Running(Below, n - 1))
  BY <1>2, <1>4, <1>5, <1>6, <1>7, SMTT(60) DEF OnceInv, Settled, ExecutedOnce
<1>9. \A k \in 1 .. n - 1 : state'.proposals[Below[k].proposalId].executed
  BY <1>1, <1>4, SMTT(60) DEF OnceInv, Settled
<1> QED
  BY <1>1, <1>8, <1>9, PopSettled DEF Settled

(* Nothing has been executed when the plugin is deployed. *)
LEMMA OnceInvInit == Init => OnceInv
<1> SUFFICES ASSUME Init PROVE OnceInv
  OBVIOUS
<1>1. PICK settings \in SettingsArgs : state = InitialState(settings)
  BY DEF Init
<1>2. Len(frames) = 0
  BY DEF Init
<1>3. \A p \in Pids : state.executions[p] = 0 /\ ~state.proposals[p].executed
  BY <1>1 DEF InitialState, EmptyProposal
<1>4. Settled(state, frames, 0)
  BY <1>3 DEF Settled, ExecutedOnce
<1> QED
  BY <1>2, <1>4 DEF OnceInv

(* Every step keeps the state and what a revert restores settled. *)
LEMMA OnceInvStep == SoundInv /\ OnceInv /\ [Next]_vars => OnceInv'
<1> SUFFICES ASSUME SoundInv, OnceInv, [Next]_vars PROVE OnceInv'
  OBVIOUS
<1>s. state \in States /\ UnknownEmpty(state)
  BY DEF SoundInv, Sound
<1>1. ASSUME NEW settings \in SettingsArgs, UpdateVotingSettings(settings) PROVE OnceInv'
  BY <1>1, <1>s, CallSettled DEF UpdateVotingSettings, States
<1>2. ASSUME NEW args \in ActionArgs, NEW start \in DateArgs, NEW end \in DateArgs,
             CreateProposal(args, start, end)
      PROVE  OnceInv'
  <2> DEFINE p   == state.proposalCount
             new == NewProposal(state.votingSettings, args, start, end)
  <2>1. ~new.executed
    BY DEF NewProposal, EmptyProposal
  <2> HIDE DEF new
  <2>2. state' = [state EXCEPT !.proposalCount = @ + 1, !.proposals[p] = new] /\ frames' = frames
    BY <1>2 DEF CreateProposal, new
  <2>3. p \in Pids /\ p \in Nat
    BY <1>s, NumberTypes DEF States, Pids
  <2>4. ~state.proposals[p].executed
    BY <1>s, <2>3 DEF UnknownEmpty, Exists, EmptyProposal
  <2>5. /\ state'.executions = state.executions
        /\ state'.proposals[p] = new
        /\ \A q \in Pids : q # p => state'.proposals[q] = state.proposals[q]
    BY <1>s, <2>2, <2>3 DEF States
  <2>6. state'.proposals[p].executed = state.proposals[p].executed
    <3>1. state'.proposals[p] \in Proposals /\ state.proposals[p] \in Proposals
      BY <1>s, <1>2, <2>3, <2>5, NewProposalType, NumberTypes, StoredTypes
         DEF SoundInv, States, new
    <3>2. state'.proposals[p].executed \in BOOLEAN /\ state.proposals[p].executed \in BOOLEAN
      BY <3>1 DEF Proposals
    <3> QED
      BY <2>1, <2>4, <2>5, <3>2
  <2> QED
    BY <2>2, <2>5, <2>6, CallSettled
<1>3. ASSUME NEW j \in Journals, Vote(j) PROVE OnceInv'
  <2> DEFINE p == j.proposalId
  <2>1. state' = AfterVote(state, j) /\ frames' = frames /\ VoteAccepted(state, j)
    BY <1>3 DEF Vote
  <2>2. p \in Pids
    BY ConstantTypes
  <2>3. /\ state'.executions = state.executions
        /\ state'.proposals[p] = WithVote(state.proposals[p], j)
        /\ \A q \in Pids : q # p => state'.proposals[q] = state.proposals[q]
    BY <1>s, <2>1, <2>2 DEF AfterVote, States
  <2>4. state'.proposals[p].executed = state.proposals[p].executed
    BY <1>s, <2>2, <2>3, StoredTypes DEF WithVote, Proposals
  <2> QED
    BY <2>1, <2>3, <2>4, CallSettled
<1>4. ASSUME NEW j \in Journals, Execute(j) PROVE OnceInv'
  BY <1>4, ExecuteSettled, Zenon
<1>5. CASE ActionSucceeds
  <2> DEFINE f == [Top EXCEPT !.next = @ + 1, !.checkpoint = state]
  <2>1. frames # <<>> /\ frames' = Append(Below, f) /\ state' = state
    BY <1>5, Zenon DEF ActionSucceeds, AtAction
  <2>2. f \in Frames /\ f.base = Top.base /\ f.checkpoint = state /\ f.proposalId = Top.proposalId
    BY <1>s, <2>1, StackFacts, CheckpointedFrame, Zenon DEF SoundInv
  <2> HIDE DEF f
  <2> QED
    BY <2>1, <2>2, AdvanceSettled, Zenon DEF OnceInv
<1>6. CASE ActionFailureAllowed
  <2> DEFINE f == [Top EXCEPT !.next = @ + 1]
  <2>1. frames # <<>> /\ frames' = Append(Below, f) /\ state' = Top.checkpoint
    BY <1>6 DEF ActionFailureAllowed, AtAction
  <2>2. /\ f \in Frames /\ f.base = Top.base /\ f.checkpoint = Top.checkpoint
        /\ f.proposalId = Top.proposalId
    BY <2>1, StackFacts, AdvancedFrame DEF SoundInv
  <2>3. Settled(Top.checkpoint, frames, Len(frames))
    BY <2>1, StackFacts DEF OnceInv, SoundInv
  <2> HIDE DEF f
  <2> QED
    BY <2>1, <2>2, <2>3, AdvanceSettled
<1>7. CASE ActionFailureReverts
  <2>1. frames # <<>> /\ frames' = Below /\ state' = Top.base
    BY <1>7 DEF ActionFailureReverts, AtAction
  <2>2. Settled(Top.base, frames, Len(frames) - 1)
    BY <2>1, StackFacts DEF OnceInv, SoundInv
  <2>3. Settled(Top.base, Below, Len(frames) - 1)
    BY <2>1, <2>2, StackFacts, SettledPrefix DEF SoundInv
  <2> QED
    BY <2>1, <2>3, PopSettled
<1>8. CASE ExecuteReturns
  BY <1>8, ReturnSettled
<1>9. CASE OutOfGas
  <2>1. state' = frames[1].base /\ frames' = <<>> /\ 1 \in 1 .. Len(frames)
    BY <1>9, StackFacts DEF OutOfGas, SoundInv
  <2>2. Settled(state', frames, 1 - 1)
    BY <2>1 DEF OnceInv
  <2>3. Settled(state', frames', 0)
    BY <2>2, SettledPrefix
  <2> QED
    BY <2>1, <2>3 DEF OnceInv
<1>10. CASE Mine
  BY <1>10 DEF Mine, OnceInv
<1>11. CASE UNCHANGED vars
  BY <1>11 DEF vars, OnceInv
<1> QED
  BY <1>1, <1>2, <1>3, <1>4, <1>5, <1>6, <1>7, <1>8, <1>9, <1>10, <1>11 DEF Next, DaoStep

(* Whatever the actions of proposals do, and however execute calls nest    *)
(* and revert, the DAO carries out every proposal at most once, because    *)
(* _execute marks a proposal before it calls the DAO.                      *)
THEOREM AlwaysExecutedAtMostOnce == Spec => []ExecutedAtMostOnce
<1>1. SoundInv /\ OnceInv => ExecutedAtMostOnce
  <2> SUFFICES ASSUME SoundInv, OnceInv PROVE ExecutedAtMostOnce
    OBVIOUS
  <2>1. InProgress = Running(frames, Len(frames))
    BY DEF InProgress, Running
  <2>2. Len(frames) \in Nat
    BY DEF SoundInv
  <2>3. \A i, k \in 1 .. Len(frames) : frames[i].proposalId = frames[k].proposalId => i = k
    BY <2>2, StackDistinct
  <2> QED
    BY <2>1, <2>3 DEF ExecutedAtMostOnce, OnceInv, Settled
<1> QED
  BY <1>1, OnceInvInit, OnceInvStep, SoundInvariant, PTL DEF Spec

-----------------------------------------------------------------------------
(***************************************************************************)
(* Proposals keep their parameters.                                        *)
(***************************************************************************)

(* t has all the proposals of s, with the same parameters. *)
Grown(s, t) ==
  /\ s.proposalCount <= t.proposalCount
  /\ \A p \in Pids : Exists(s, p) => SameProposal(s, t, p)

Saved(f) == {f.base, f.checkpoint}

(* The states a revert restores form a chain: what was saved earlier has   *)
(* grown into what was saved later, and into the current state.            *)
ChainInv ==
  /\ \A i \in 1 .. Len(frames) : \A s \in Saved(frames[i]) : Grown(s, state)
  /\ \A i \in 1 .. Len(frames) : Grown(frames[i].base, frames[i].checkpoint)
  /\ \A k \in 1 .. Len(frames) : \A i \in 1 .. k - 1 :
       \A s \in Saved(frames[i]), t \in Saved(frames[k]) : Grown(s, t)

(* Growing is transitive. *)
LEMMA GrownTransitive ==
  ASSUME NEW s \in States, NEW t \in States, NEW u \in States, Grown(s, t), Grown(t, u)
  PROVE  Grown(s, u)
<1>1. s.proposalCount \in Int /\ t.proposalCount \in Int /\ u.proposalCount \in Int
  BY DEF States
<1>2. \A p \in Pids : p \in Int
  BY DEF Pids
<1>3. \A p \in Pids : Exists(s, p) => Exists(t, p)
  BY <1>1, <1>2 DEF Grown, Exists
<1> QED
  BY <1>1, <1>3 DEF Grown, SameProposal

(* A call that returns lets the state grow. *)
LEMMA CallGrows ==
  ASSUME SoundInv, \/ \E settings \in SettingsArgs : UpdateVotingSettings(settings)
                   \/ \E args \in ActionArgs, start, end \in DateArgs :
                        CreateProposal(args, start, end)
                   \/ \E j \in Journals : Vote(j)
                   \/ \E j \in Journals : Execute(j)
                   \/ ExecuteReturns
  PROVE  Grown(state, state')
<1>s. state \in States /\ state.proposalCount \in Nat
  BY NumberTypes DEF SoundInv, Sound, States
<1>1. ASSUME NEW settings \in SettingsArgs, UpdateVotingSettings(settings)
      PROVE  Grown(state, state')
  BY <1>s, <1>1 DEF UpdateVotingSettings, States, Grown, SameProposal
<1>2. ASSUME NEW args \in ActionArgs, NEW start \in DateArgs, NEW end \in DateArgs,
             CreateProposal(args, start, end)
      PROVE  Grown(state, state')
  <2> DEFINE new == NewProposal(state.votingSettings, args, start, end)
  <2> HIDE DEF new
  <2>1. state' = [state EXCEPT !.proposalCount = @ + 1, !.proposals[state.proposalCount] = new]
    BY <1>2, Zenon DEF CreateProposal, new
  <2>2. /\ state'.proposalCount = state.proposalCount + 1
        /\ \A q \in Pids : q # state.proposalCount => state'.proposals[q] = state.proposals[q]
    BY <1>s, <2>1, Zenon DEF States
  <2> QED
    BY <1>s, <2>2, SMTT(60) DEF Grown, SameProposal, Exists, Pids
<1>3. ASSUME NEW j \in Journals, Vote(j) PROVE Grown(state, state')
  <2> DEFINE p == j.proposalId
  <2>1. state' = AfterVote(state, j) /\ p \in Pids
    BY <1>3, ConstantTypes DEF Vote
  <2>2. /\ state'.proposalCount = state.proposalCount
        /\ state'.proposals[p] = WithVote(state.proposals[p], j)
        /\ \A q \in Pids : q # p => state'.proposals[q] = state.proposals[q]
    BY <1>s, <2>1 DEF AfterVote, States
  <2>3. SameProposal(state, state', p)
    BY <1>s, <2>1, <2>2, StoredTypes DEF WithVote, Proposals, SameProposal
  <2> QED
    BY <1>s, <2>2, <2>3 DEF Grown, SameProposal
<1>4. ASSUME NEW j \in Journals, Execute(j) PROVE Grown(state, state')
  <2> DEFINE p == j.proposalId
  <2>1. state' = MarkExecuted(state, p) /\ p \in Pids
    BY <1>4, ConstantTypes DEF Execute
  <2>2. /\ state'.proposalCount = state.proposalCount
        /\ state'.proposals[p] = [state.proposals[p] EXCEPT !.executed = TRUE]
        /\ \A q \in Pids : q # p => state'.proposals[q] = state.proposals[q]
    BY <1>s, <2>1, Zenon DEF MarkExecuted, States
  <2>3. SameProposal(state, state', p)
    <3>1. state.proposals[p] \in Proposals
      BY <1>s, <2>1, StoredTypes
    <3> DEFINE new == [state.proposals[p] EXCEPT !.executed = TRUE]
    <3>2. /\ new.parameters = state.proposals[p].parameters
          /\ new.actions = state.proposals[p].actions
          /\ new.allowFailureMap = state.proposals[p].allowFailureMap
      BY <3>1 DEF Proposals
    <3> QED
      BY <2>2, <3>2 DEF SameProposal
  <2>4. \A q \in Pids : q # p => SameProposal(state, state', q)
    BY <2>2 DEF SameProposal
  <2>5. state.proposalCount <= state'.proposalCount
    BY <1>s, <2>2
  <2> QED
    BY <2>3, <2>4, <2>5, Zenon DEF Grown
<1>5. CASE ExecuteReturns
  BY <1>s, <1>5 DEF ExecuteReturns, States, Grown, SameProposal
<1> QED
  BY <1>1, <1>2, <1>3, <1>4, <1>5, ZenonT(30)

(* The states saved on the stack have their types. *)
LEMMA SavedTypes ==
  ASSUME SoundInv, NEW i \in 1 .. Len(frames)
  PROVE  frames[i].base \in States /\ frames[i].checkpoint \in States
BY DEF SoundInv, Sound

(* What was saved has grown into the state, so into what it grows into. *)
LEMMA ChainGrows ==
  ASSUME SoundInv, ChainInv, state' \in States, Grown(state, state')
  PROVE  \A i \in 1 .. Len(frames) : \A s \in Saved(frames[i]) : Grown(s, state')
<1> SUFFICES ASSUME NEW i \in 1 .. Len(frames), NEW s \in Saved(frames[i])
             PROVE  Grown(s, state')
  OBVIOUS
<1>1. s \in States /\ state \in States
  BY SavedTypes DEF Saved, SoundInv, Sound
<1>2. Grown(s, state)
  BY Zenon DEF ChainInv
<1> QED
  BY <1>1, <1>2, GrownTransitive

(* Replacing the innermost call by one that saved other states, both grown *)
(* from the old ones below it.                                             *)
LEMMA AdvanceChain ==
  ASSUME SoundInv, ChainInv, frames # <<>>, NEW f \in Frames, frames' = Append(Below, f),
         f.base = Top.base, f.checkpoint \in {Top.checkpoint, state},
         state' \in {Top.checkpoint, state}, Grown(f.checkpoint, state')
  PROVE  ChainInv'
<1> DEFINE n == Len(frames)
<1>1. /\ n \in Nat \ {0} /\ n \in 1 .. n /\ Len(frames') = n /\ frames'[n] = f
      /\ Top = frames[n] /\ \A k \in 1 .. n - 1 : frames'[k] = frames[k]
  BY StackFacts, PushFacts DEF SoundInv
<1>2. Grown(Top.base, Top.checkpoint) /\ Grown(Top.base, state) /\ Grown(Top.checkpoint, state)
  BY <1>1 DEF ChainInv, Saved
<1>3. ASSUME NEW i \in 1 .. n - 1, NEW s \in Saved(frames[i])
      PROVE  Grown(s, Top.base) /\ Grown(s, Top.checkpoint) /\ Grown(s, state)
  BY <1>1, <1>3 DEF ChainInv, Saved
<1>4. \A i \in 1 .. n : \A s \in Saved(frames'[i]) : Grown(s, state')
  <2> SUFFICES ASSUME NEW i \in 1 .. n, NEW s \in Saved(frames'[i]) PROVE Grown(s, state')
    OBVIOUS
  <2>1. CASE i = n
    BY <1>1, <1>2, <2>1 DEF Saved
  <2>2. CASE i # n
    <3>1. i \in 1 .. n - 1 /\ frames'[i] = frames[i]
      BY <1>1, <2>2
    <3> QED
      BY <1>3, <3>1
  <2> QED
    BY <2>1, <2>2
<1>5. \A i \in 1 .. n : Grown(frames'[i].base, frames'[i].checkpoint)
  <2> SUFFICES ASSUME NEW i \in 1 .. n PROVE Grown(frames'[i].base, frames'[i].checkpoint)
    OBVIOUS
  <2>1. CASE i = n
    BY <1>1, <1>2, <2>1
  <2>2. CASE i # n
    <3>1. i \in 1 .. n - 1 /\ frames'[i] = frames[i]
      BY <1>1, <2>2
    <3> QED
      BY <3>1 DEF ChainInv
  <2> QED
    BY <2>1, <2>2, Zenon
<1>6. \A k \in 1 .. n : k = n \/ k \in 1 .. n - 1
  BY <1>1
<1>7. ASSUME NEW k \in 1 .. n, NEW i \in 1 .. k - 1,
             NEW s \in Saved(frames'[i]), NEW t \in Saved(frames'[k])
      PROVE  Grown(s, t)
  <2>1. i \in 1 .. n - 1 /\ frames'[i] = frames[i]
    BY <1>1, <1>7
  <2>2. CASE k = n
    BY <1>1, <1>3, <1>7, <2>1, <2>2 DEF Saved
  <2>3. CASE k # n
    <3>1. k \in 1 .. n - 1
      BY <1>6, <2>3
    <3>2. frames'[k] = frames[k]
      BY <1>1, <3>1
    <3> QED
      BY <1>7, <2>1, <3>2 DEF ChainInv
  <2> QED
    BY <2>2, <2>3
<1> QED
  BY <1>1, <1>4, <1>5, <1>7 DEF ChainInv

(* Every step keeps the chain. *)
LEMMA ChainInvStep == SoundInv /\ SoundInv' /\ ChainInv /\ [Next]_vars => ChainInv'
<1> SUFFICES ASSUME SoundInv, SoundInv', ChainInv, [Next]_vars PROVE ChainInv'
  OBVIOUS
<1>s. state \in States /\ state' \in States
  BY Zenon DEF SoundInv, Sound
<1>1. ASSUME frames' = frames, Grown(state, state') PROVE ChainInv'
  BY <1>s, <1>1, ChainGrows, Zenon DEF ChainInv
<1>2. CASE \/ \E settings \in SettingsArgs : UpdateVotingSettings(settings)
           \/ \E args \in ActionArgs, start, end \in DateArgs : CreateProposal(args, start, end)
           \/ \E j \in Journals : Vote(j)
  BY <1>1, <1>2, CallGrows, ZenonT(30) DEF UpdateVotingSettings, CreateProposal, Vote
<1>3. ASSUME NEW j \in Journals, Execute(j) PROVE ChainInv'
  <2> DEFINE n == Len(frames)
             f == NewFrame(j.proposalId, state, state')
  <2>1. Grown(state, state')
    BY <1>3, CallGrows
  <2>2. frames' = Append(frames, f) /\ frames \in Seq(Frames) /\ n \in Nat
    BY <1>3 DEF Execute, SoundInv
  <2>3. f \in Frames /\ f.base = state /\ f.checkpoint = state'
    BY <1>s, ConstantTypes, NewFrameFacts
  <2> HIDE DEF f
  <2>4. /\ Len(frames') = n + 1 /\ frames'[n + 1] = f
        /\ \A k \in 1 .. n : frames'[k] = frames[k]
    BY <2>2, <2>3, PushFacts, ZenonT(30)
  <2>5. \A i \in 1 .. n : \A s \in Saved(frames[i]) : Grown(s, state) /\ Grown(s, state')
    BY <1>s, <2>1, ChainGrows DEF ChainInv
  <2>6. Grown(state', state')
    BY <1>s DEF Grown, SameProposal, States
  <2>7. \A i \in 1 .. n + 1 : i \in 1 .. n \/ i = n + 1
    BY <2>2
  <2>8. \A i \in 1 .. n + 1 : \A s \in Saved(frames'[i]) : Grown(s, state')
    BY <2>1, <2>3, <2>4, <2>5, <2>6, <2>7, ZenonT(30) DEF Saved
  <2>9. \A i \in 1 .. n + 1 : Grown(frames'[i].base, frames'[i].checkpoint)
    BY <2>1, <2>3, <2>4, <2>7 DEF ChainInv
  <2>10. ASSUME NEW k \in 1 .. n + 1, NEW i \in 1 .. k - 1,
                NEW s \in Saved(frames'[i]), NEW t \in Saved(frames'[k])
         PROVE  Grown(s, t)
    <3>1. i \in 1 .. n /\ frames'[i] = frames[i]
      BY <2>2, <2>4, <2>10, SMTT(60)
    <3>2. CASE k = n + 1
      BY <2>3, <2>4, <2>5, <2>10, <3>1, <3>2, Zenon DEF Saved
    <3>3. CASE k \in 1 .. n
      BY <2>4, <2>10, <3>1, <3>3, Zenon DEF ChainInv
    <3> QED
      BY <2>7, <3>2, <3>3
  <2> QED
    BY <2>4, <2>8, <2>9, <2>10 DEF ChainInv
<1>4. ASSUME frames # <<>>, frames' = Below,
             \/ state' = Top.base
             \/ Grown(state, state')
      PROVE  ChainInv'
  <2> DEFINE n == Len(frames)
  <2>1. /\ n \in Nat \ {0} /\ n \in 1 .. n /\ Len(frames') = n - 1 /\ Top = frames[n]
        /\ \A k \in 1 .. n - 1 : frames'[k] = frames[k] /\ k \in 1 .. n
    BY <1>4, StackFacts, SMTT(60) DEF SoundInv
  <2>2. \A i \in 1 .. n - 1 : \A s \in Saved(frames[i]) : Grown(s, Top.base)
    BY <2>1 DEF ChainInv, Saved
  <2>3. \A i \in 1 .. n - 1 : \A s \in Saved(frames[i]) : Grown(s, state')
    BY <1>s, <1>4, <2>1, <2>2, ChainGrows
  <2>4. ASSUME NEW k \in 1 .. n - 1, NEW i \in 1 .. k - 1
        PROVE  i \in 1 .. n - 1
    BY <2>1, <2>4
  <2> QED
    BY <2>1, <2>3, <2>4, ZenonT(30) DEF ChainInv
<1>5. CASE ActionSucceeds
  <2> DEFINE f == [Top EXCEPT !.next = @ + 1, !.checkpoint = state]
  <2>1. frames # <<>> /\ frames' = Append(Below, f) /\ state' = state
    BY <1>5, Zenon DEF ActionSucceeds, AtAction
  <2>2. f \in Frames /\ f.base = Top.base /\ f.checkpoint = state
    BY <1>s, <2>1, StackFacts, CheckpointedFrame, ZenonT(30) DEF SoundInv
  <2>3. Grown(state, state)
    BY <1>s DEF Grown, SameProposal, States
  <2> HIDE DEF f
  <2> QED
    BY <2>1, <2>2, <2>3, AdvanceChain
<1>6. CASE ActionFailureAllowed
  <2> DEFINE f == [Top EXCEPT !.next = @ + 1]
  <2>1. frames # <<>> /\ frames' = Append(Below, f) /\ state' = Top.checkpoint
    BY <1>6 DEF ActionFailureAllowed, AtAction
  <2>2. f \in Frames /\ f.base = Top.base /\ f.checkpoint = Top.checkpoint
    BY <2>1, StackFacts, AdvancedFrame DEF SoundInv
  <2>3. Grown(state', state')
    BY <1>s DEF Grown, SameProposal, States
  <2> HIDE DEF f
  <2> QED
    BY <2>1, <2>2, <2>3, AdvanceChain
<1>7. CASE ActionFailureReverts
  BY <1>4, <1>7 DEF ActionFailureReverts, AtAction
<1>8. CASE ExecuteReturns
  BY <1>4, <1>8, CallGrows, Zenon DEF ExecuteReturns
<1>9. CASE OutOfGas
  BY <1>9, SMTT(60) DEF OutOfGas, ChainInv
<1>10. CASE Mine
  BY <1>10, ZenonT(30) DEF Mine, ChainInv
<1>11. CASE UNCHANGED vars
  BY <1>11 DEF vars, ChainInv
<1> QED
  BY <1>2, <1>3, <1>5, <1>6, <1>7, <1>8, <1>9, <1>10, <1>11 DEF Next, DaoStep

(* As long as a proposal exists it keeps the parameters, actions and       *)
(* failure map it was created with, whatever calls are made and reverted.  *)
THEOREM ParametersAlwaysFrozen == Spec => ParametersFrozen
<1> DEFINE Frozen == \A p \in Pids :
                       Exists(state, p) /\ Exists(state', p) => SameProposal(state, state', p)
<1>1. Init => ChainInv
  BY DEF Init, ChainInv
<1>2. SoundInv /\ ChainInv /\ [Next]_vars => [Frozen]_vars
  <2> SUFFICES ASSUME SoundInv, ChainInv, Next PROVE Frozen
    BY DEF vars
  <2>1. Grown(state, state') => Frozen
    BY DEF Grown
  <2>2. Grown(state', state) => Frozen
    BY DEF Grown, SameProposal
  <2>3. \A i \in 1 .. Len(frames) : Grown(frames[i].base, state) /\ Grown(frames[i].checkpoint, state)
    BY DEF ChainInv, Saved
  <2>4. frames # <<>> => /\ Len(frames) \in 1 .. Len(frames) /\ 1 \in 1 .. Len(frames)
                         /\ Top = frames[Len(frames)]
    BY StackFacts, SMTT(60) DEF SoundInv
  <2>5. CASE ActionFailureAllowed \/ ActionFailureReverts \/ OutOfGas
    BY <2>2, <2>3, <2>4, <2>5 DEF ActionFailureAllowed, ActionFailureReverts, OutOfGas, AtAction
  <2>6. CASE ActionSucceeds \/ Mine
    BY <2>6 DEF ActionSucceeds, Mine, SameProposal
  <2> QED
    BY <2>1, <2>5, <2>6, CallGrows DEF Next, DaoStep
<1> QED
  BY <1>1, <1>2, ChainInvStep, SoundInvariant, PTL DEF Spec, ParametersFrozen
=============================================================================

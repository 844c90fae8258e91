--------------------------- MODULE MCVotingPlugin ---------------------------
(***************************************************************************)
(* Small instances of VotingPlugin: a token whose balances move from block *)
(* to block, the journals that can be proved about it, and the settings,   *)
(* dates and action lists the callers pass.                                *)
(***************************************************************************)
EXTENDS VotingPlugin

(* The token balances at a block: in block 1 alice sends a token to bob,   *)
(* and in block 2 bob burns one.                                           *)
Balance(v, b) ==
  LET sent  == IF b = 0 THEN 0 ELSE 1
      burnt == IF b < 2 THEN 0 ELSE 1
  IN IF v = "alice" THEN 2 - sent ELSE 1 + sent - burnt

SupplyAt(b) == IF b < 2 THEN 3 ELSE 2

(* The powers the voting guest proves for a voter at a block: the balance, *)
(* or, where tokens can be delegated, the balance alone or together with a *)
(* token delegated to the voter, as the voter chooses to list it or not.   *)
Held(v, b) == {Balance(v, b)}

Listed(v, b) == {Balance(v, b), Balance(v, b) + 1}

Commit(b) == [id |-> CLAIM_ID_RANGE + b, digest |-> BlockHash(b)]

Journal(contract, p, commitment, v, power, direction) ==
  [configContract |-> contract, proposalId |-> p, commitment |-> commitment,
   voter |-> v, balance |-> power, direction |-> direction]

VoteProofs(Powers(_, _)) ==
  UNION {{Journal(Self, p, Commit(b), v, power, d) :
            p \in Pids, power \in Powers(v, b), d \in 1 .. 3} :
         v \in Voters, b \in 0 .. MaxBlock - 1}

(* Proofs about a proposal with the same id of another plugin.             *)
OtherPluginProofs ==
  {Journal("otherPlugin", p, Commit(b), v, 3, 2) :
     p \in Pids, v \in Voters, b \in 0 .. MaxBlock - 1}

(* Journals that nothing proves: too much power, or the commitment that an *)
(* empty proposal record holds.                                            *)
Unproved ==
  {Journal(Self, p, c, "alice", 6, 2) :
     p \in Pids, c \in {Commit(0), Commit(1), [id |-> 0, digest |-> 0]}}

(* Proofs that a proposal passes.  Proposal 1 passes at block 0 only.      *)
ExecutionProofs ==
  {Journal(Self, p, Commit(b), "alice", 0, 0) : p \in Pids \ {1}, b \in 0 .. MaxBlock - 1}
  \cup {Journal(Self, 1, Commit(0), "alice", 0, 0)}

HeldVotes == VoteProofs(Held)

ListedVotes == VoteProofs(Listed)

HeldJournals == HeldVotes \cup OtherPluginProofs \cup Unproved \cup ExecutionProofs

ListedJournals == ListedVotes \cup OtherPluginProofs \cup Unproved \cup ExecutionProofs

(* The images "voting" and "execution" are those of the guests; under the  *)
(* image "revised" a later voting guest doubles the power of its proofs.   *)
AttestedHeld(image, j) ==
  \/ image = "voting" /\ j \in HeldVotes \cup OtherPluginProofs
  \/ image = "revised" /\ j \in Unproved /\ j.commitment.digest # 0
  \/ image = "execution" /\ j \in ExecutionProofs

(* What the held votes prove is one power for each voter and block, and    *)
(* the powers of a block are within the supply.                            *)
ASSUME HeldPowersFixed ==
  \A b \in 0 .. MaxBlock :
    /\ \A j \in HeldJournals :
         AttestedHeld("voting", j) /\ j.configContract = Self
           /\ j.commitment.digest = BlockHash(b)
         => j.balance = Balance(j.voter, b)
    /\ SumFunction([v \in Voters |-> Balance(v, b)]) <= SupplyAt(b)

AttestedListed(image, j) ==
  \/ image = "voting" /\ j \in ListedVotes \cup OtherPluginProofs
  \/ image = "revised" /\ j \in Unproved /\ j.commitment.digest # 0
  \/ image = "execution" /\ j \in ExecutionProofs

-----------------------------------------------------------------------------
SettingsOf(mode, duration, verifier, image) ==
  [votingMode |-> mode, supportThreshold |-> RATIO_BASE - 1,
   minParticipation |-> RATIO_BASE, minDuration |-> duration,
   votingProtocolConfig |-> "config", verifier |-> verifier,
   votingProtocolImageId |-> image, executionProtocolImageId |-> "execution"]

Replacing == {SettingsOf("VoteReplacement", MIN_DURATION, "verifier", "voting")}

Early == {SettingsOf("EarlyExecution", MIN_DURATION, "verifier", "voting")}

Standard == {SettingsOf("Standard", MIN_DURATION, "verifier", "voting")}

(* A verifier that is not deployed, a revised guest, and values that       *)
(* _updateVotingSettings rejects.                                          *)
Undeployed == {SettingsOf("Standard", MIN_DURATION, ZeroAddress, "voting")}

Revised == {SettingsOf("VoteReplacement", MAX_DURATION, "verifier", "revised")}

Invalid ==
  {SettingsOf("Standard", d, "verifier", "voting") :
     d \in {MIN_DURATION - 1, MAX_DURATION + 1}}
  \cup {[s EXCEPT !.supportThreshold = RATIO_BASE] : s \in Standard}
  \cup {[s EXCEPT !.minParticipation = RATIO_BASE + 1] : s \in Standard}

VoteSettings == Replacing \cup Undeployed

ChangingSettings == Standard \cup Revised \cup Undeployed \cup Invalid

NoActions == {[actions |-> 0, allowFailureMap |-> {}]}

OneOrTwoActions ==
  {[actions |-> 1, allowFailureMap |-> {}], [actions |-> 2, allowFailureMap |-> {0}]}
=============================================================================

----------------------------- MODULE Publisher ------------------------------
(***************************************************************************)
(* The publishers: programs that compute a result on the host, have a      *)
(* guest compute it again in the zkVM to get a proof, and send the proof   *)
(* to the plugin; and the guests, which commit to a journal.               *)
(*                                                                         *)
(* `config' is what votingProtocolConfig(proposal_id) answers at the block *)
(* the environment is built for.  It does not parse if the proposal did    *)
(* not exist at that block.  Both sides read the chain at that one block,  *)
(* so nothing the chain does meanwhile reaches the computation.            *)
(***************************************************************************)
EXTENDS Strategies

CONSTANTS
  Accounts,          \* addresses of voters and holders
  Configs,           \* configurations with their assets
  Requests,          \* command line arguments
  NoJournal          \* no journal has been committed

(* Balances, tallies, ratios and supplies are unsigned words. *)
ASSUME RequestTypes ==
  \A r \in Requests :
    /\ r.kind \in {"vote", "execution"}
    /\ r.kind = "vote" => r.balance \in Nat
    /\ r.kind = "execution" => r.tally \in [1 .. 3 -> Nat]

IsList(s) == Len(s) \in Nat /\ DOMAIN s = 1 .. Len(s)

ASSUME ConfigTypes ==
  \A c \in Configs :
    /\ IsList(c.assets)
    /\ \A k \in DOMAIN c.assets :
         /\ GetSupply("host", c.assets[k]) \in Nat \cup {Failed}
         /\ \A holder \in Accounts :
              LET delegations == c.assets[k].registry[holder]
              IN /\ BalanceOf(c.assets[k], holder) \in Nat \cup {Failed}
                 /\ IsList(delegations)
                 /\ \A i \in DOMAIN delegations : delegations[i].ratio \in Nat

VARIABLES
  config,            \* the configuration read at the block
  request,           \* the arguments of this run
  phase,             \* how far the publisher has come
  journal            \* the journal of the receipt

vars == <<config, request, phase, journal>>

-----------------------------------------------------------------------------
(***************************************************************************)
(* The computations of the host and of the guests.                         *)
(***************************************************************************)

(* The argument block_number is optional and then unwrapped. *)
HasBlock(r) == r.block # Failed

(* The assertions of the voting publisher before it starts proving. *)
HostAcceptsVote(c, r) ==
  /\ HasBlock(r)
  /\ c.parses
  /\ TotalVotingPower("host", c.assets, r.voter, r.data) = r.balance

HostAcceptsExecution(c, r) ==
  /\ HasBlock(r)
  /\ c.parses
  /\ ExecutionPasses("host", c.executionStrategy, TotalSupply("host", c.assets), r.tally)

HostAccepts(c, r) ==
  \/ r.kind = "vote" /\ HostAcceptsVote(c, r)
  \/ r.kind = "execution" /\ HostAcceptsExecution(c, r)

(* The recovery identifiers that ecrecover knows. *)
IntoRecoveryId(v) == v \in {0, 1, 27, 28} \/ v >= 35

(* The 65th byte of the signature is v; the 64 before it may fail to be a  *)
(* signature.  The address that comes out is compared with nothing.        *)
SignerRecovered(signature) ==
  /\ signature.hex
  /\ signature.bytes >= 65
  /\ IntoRecoveryId(signature.v)
  /\ signature.valid

(* The assertions of the voting guest.  The one that compares the voter    *)
(* with the signer is commented out in the code.                           *)
GuestAcceptsVote(c, r) ==
  /\ SignerRecovered(r.signature)
  /\ c.parses
  /\ r.direction \in 1 .. 3
  /\ r.balance > 0
  /\ TotalVotingPower("guest", c.assets, r.voter, r.data) = r.balance

GuestAcceptsExecution(c, r) ==
  /\ c.parses
  /\ ExecutionPasses("guest", c.executionStrategy, TotalSupply("guest", c.assets), r.tally)

(* The values that a publisher writes and its guest reads, by type and     *)
(* order.  The encoding of one type does not read as another.              *)
VoteInput ==
  <<"EthEvmInput", "String", "Address", "Address", "U256", "u8", "U256", "Address", "String">>

VoteInputRead ==
  <<"EthEvmInput", "String", "Address", "Address", "U256", "u8", "U256", "Address", "String">>

(* The guest's order. *)
ExecutionInputInOrder == <<"EthEvmInput", "Address", "U256", "[U256; 3]", "Address">>

ExecutionInput == <<"EthEvmInput", "Address", "U256", "Address", "[U256; 3]">>

ExecutionInputRead == <<"EthEvmInput", "Address", "U256", "[U256; 3]", "Address">>

GuestAccepts(c, r) ==
  \/ r.kind = "vote" /\ VoteInput = VoteInputRead /\ GuestAcceptsVote(c, r)
  \/ /\ r.kind = "execution"
     /\ ExecutionInput = ExecutionInputRead
     /\ GuestAcceptsExecution(c, r)

-----------------------------------------------------------------------------
(***************************************************************************)
(* Journals: words, each with the kind of value it holds.  The hash of a   *)
(* block is represented by the block's number.                             *)
(***************************************************************************)

Number(n) == [kind |-> "number", value |-> n]

Address(a) == [kind |-> "address", value |-> a]

Digest(d) == [kind |-> "digest", value |-> d]

(* The two addresses change places. *)
VotingJournalSwapped(r) ==
  <<Number(r.block), Digest(r.block), Digest(0), Address(r.voter),
    Number(r.proposalId), Address(r.configContract), Number(r.balance), Number(r.direction)>>

(* What the voting guest commits, beginning with the commitment to the     *)
(* block: its identifier, its hash and the chain.                          *)
VotingJournal(r) ==
  <<Number(r.block), Digest(r.block), Digest(0), Address(r.configContract),
    Number(r.proposalId), Address(r.voter), Number(r.balance), Number(r.direction)>>

(* What the execution guest commits: the array makes the structure one     *)
(* with an offset in front and the array, with its length, behind.         *)
ExecutionJournal(r) ==
  <<Number(32), Number(r.block), Digest(r.block), Digest(0), Address(r.configContract),
    Number(r.proposalId), Number(192), Number(3),
    Number(r.tally[1]), Number(r.tally[2]), Number(r.tally[3])>>

Commits(r) == IF r.kind = "vote" THEN VotingJournal(r) ELSE ExecutionJournal(r)

(* Both publishers decode the journal as a VotingJournal, to the last word. *)
HostDecodes(words) ==
  /\ Len(words) = 8
  /\ \A i \in {4, 6} : words[i].kind = "address"

(* What the plugin reads in a journal. *)
PluginDecoded(words) ==
  [block |-> words[1].value, digest |-> words[2].value,
   configContract |-> words[4].value, proposalId |-> words[5].value,
   voter |-> words[6].value, balance |-> words[7].value, direction |-> words[8].value]

-----------------------------------------------------------------------------
(***************************************************************************)
(* A run of a publisher.                                                   *)
(***************************************************************************)

Preflight ==
  /\ phase = "started"
  /\ HostAccepts(config, request)
  /\ phase' = IF request.testing = 1 THEN "tested" ELSE "preflighted"
  /\ UNCHANGED <<config, request, journal>>

PreflightFails ==
  /\ phase = "started"
  /\ ~HostAccepts(config, request)
  /\ phase' = "failed"
  /\ UNCHANGED <<config, request, journal>>

Prove ==
  /\ phase = "preflighted"
  /\ GuestAccepts(config, request)
  /\ phase' = "proved"
  /\ journal' = Commits(request)
  /\ UNCHANGED <<config, request>>

ProveFails ==
  /\ phase = "preflighted"
  /\ ~GuestAccepts(config, request)
  /\ phase' = "rejected"
  /\ UNCHANGED <<config, request, journal>>

(* The transaction is sent and confirmed, or the chain refuses it. *)
Send ==
  /\ phase = "proved"
  /\ phase' \in IF HostDecodes(journal) THEN {"sent", "reverted"} ELSE {"undecodable"}
  /\ UNCHANGED <<config, request, journal>>

(* A call of the node fails: while the chain is read, while the input is   *)
(* gathered, or while the transaction is sent.                             *)
RpcFails ==
  /\ phase \in {"started", "preflighted", "proved"}
  /\ phase' = "disconnected"
  /\ UNCHANGED <<config, request, journal>>

Init ==
  /\ config \in Configs
  /\ request \in Requests
  /\ phase = "started"
  /\ journal = NoJournal

Next == Preflight \/ PreflightFails \/ Prove \/ ProveFails \/ Send \/ RpcFails

Spec == Init /\ [][Next]_vars

-----------------------------------------------------------------------------
(***************************************************************************)
(* Properties.                                                             *)
(***************************************************************************)

(* What the host has computed the guest computes again: once the preflight *)
(* of a vote has passed, no proof is attempted in vain, except for a       *)
(* direction, a zero balance or a signature that only the guest checks     *)
(* (publisher.rs and voting_protocol.rs with their two copies of the       *)
(* strategies).                                                            *)
PreflightPredictsGuest ==
  phase = "rejected" /\ request.kind = "vote" =>
    \/ request.direction \notin 1 .. 3
    \/ request.balance = 0
    \/ ~SignerRecovered(request.signature)

(* The power in a journal that the publisher sends was delegated to the    *)
(* voter: every listed account gave a delegation that names the voter, for *)
(* every asset (process of SplitDelegation).                               *)
PublishedPowerIsDelegated ==
  phase = "sent" /\ request.kind = "vote" =>
    \A k \in DOMAIN config.assets, i \in DOMAIN request.data.listed :
      Naming(config.assets[k].registry[request.data.listed[i]],
             PluginDecoded(journal).voter) # {}

(* The plugin reads in the journal of a confirmed transaction what the     *)
(* publisher was asked for, at the block it was asked for: guest, publisher *)
(* and plugin each declare the structure, and nothing compares the three   *)
(* (Journal of voting_protocol.rs, VotingJournal of publisher.rs and of    *)
(* RiscVotingProtocolPlugin.sol).                                          *)
SentJournalIsRequest ==
  phase = "sent" =>
    LET read == PluginDecoded(journal)
    IN /\ read.block = request.block /\ read.digest = request.block
       /\ read.configContract = request.configContract
       /\ read.proposalId = request.proposalId
       /\ read.voter = request.voter
       /\ read.balance = request.balance
       /\ read.direction = request.direction

(* No execution is ever proved, whatever its preflight said: the publisher *)
(* writes the configuration contract before the tally, and the guest reads *)
(* them the other way round (execution_publisher.rs and                    *)
(* execution_protocol.rs).                                                 *)
NoExecutionProved ==
  request.kind = "execution" => journal = NoJournal /\ phase \notin {"proved", "sent"}

(* The power the voting guest attests to was delegated to the voter or is  *)
(* the voter's own (process of SplitDelegation in the guest).              *)
AttestedPowerIsDelegated ==
  request.kind = "vote" /\ GuestAcceptsVote(config, request) =>
    \A k \in DOMAIN config.assets, i \in DOMAIN request.data.listed :
      LET listed == request.data.listed[i]
      IN \/ listed = request.voter
         \/ Naming(config.assets[k].registry[listed], request.voter) # {}

Votes(tally) == tally[1] + tally[2] + tally[3]

(* The integer divisions of MajorityVoting decide exactly: the preflight   *)
(* of an execution passes if and only if more than half of the supply has  *)
(* voted and there are more votes for the proposal than against it, as     *)
(* long as the tallies do not add up to 2**256 (proof_execution).          *)
MajorityExact ==
  request.kind = "execution" /\ phase \notin {"started", "disconnected"}
  /\ HasBlock(request) /\ Votes(request.tally) < WORD
  /\ config.parses /\ config.executionStrategy = "MajorityVoting"
  /\ TotalSupply("host", config.assets) # Failed
    => ( phase # "failed" <=>
           /\ 2 * Votes(request.tally) > TotalSupply("host", config.assets)
           /\ request.tally[1] > request.tally[2] )

Ratios(delegations) == [i \in DOMAIN delegations |-> delegations[i].ratio]

(* The delegations name every delegate once, and each ratio divides their  *)
(* sum, so that the divisors are exact.                                    *)
EvenSplit(delegations) ==
  /\ \A i, k \in DOMAIN delegations :
       delegations[i].delegate = delegations[k].delegate => i = k
  /\ \A i \in DOMAIN delegations :
       /\ delegations[i].ratio > 0
       /\ SumFunction(Ratios(delegations)) % delegations[i].ratio = 0
  /\ SumFunction(Ratios(delegations)) < WORD

SharedOut(asset, holder) ==
  LET delegates == {asset.registry[holder][i].delegate :
                      i \in DOMAIN asset.registry[holder]}
  IN SumFunction([v \in delegates |-> Share("guest", asset, holder, v)])

(* An account whose ratios divide their sum cannot have more power counted *)
(* by its delegates together than it holds (the nested divisions           *)
(* total_ratios / d.ratio and power / ratio).                              *)
EvenSplitsConserve ==
  \A k \in DOMAIN config.assets, holder \in Accounts :
    LET asset == config.assets[k]
    IN asset.votingPowerStrategy = "BalanceOf" /\ BalanceOf(asset, holder) # Failed
       /\ EvenSplit(asset.registry[holder])
         => SharedOut(asset, holder) <= BalanceOf(asset, holder)

(* Participation is at most 1: what the delegates of an account can have   *)
(* counted is at most the power it holds, whatever the ratios.             *)
SplitsConserve ==
  \A k \in DOMAIN config.assets, holder \in Accounts :
    LET asset == config.assets[k]
    IN \/ \E v \in Accounts : Naming(asset.registry[holder], v) # {}
                              /\ Share("guest", asset, holder, v) = Failed
       \/ SharedOut(asset, holder) <= BalanceOf(asset, holder)
=============================================================================

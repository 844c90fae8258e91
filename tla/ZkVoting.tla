------------------------------ MODULE ZkVoting ------------------------------
(***************************************************************************)
(* From the chain to a publisher and back.  The chain is the token, the    *)
(* registry of delegations and the proposals of the plugin, and it keeps   *)
(* the state after every block.  A publisher reads the state of the block  *)
(* it was asked for, proves a vote, and sends it to the plugin, which      *)
(* takes it only if it was made for the snapshot block of the proposal.    *)
(*                                                                         *)
(* The rest of the plugin is modelled in VotingPlugin: here it may refuse  *)
(* a vote for any reason.  The configuration of a proposal has one asset,  *)
(* the token.                                                              *)
(*                                                                         *)
(* A definition that nothing uses is a variant of the one that follows it, *)
(* with a plausible mistake in the code.                                   *)
(***************************************************************************)
EXTENDS Publisher, FiniteSets

CONSTANTS
  Plugin,            \* the address of the plugin
  Pids,              \* identifiers of proposals
  Amounts,           \* amounts of token that are minted, moved and burnt
  InitialBalances,   \* what the accounts hold at the beginning
  MaxBlock,          \* bound: the last block
  MaxCalls,          \* bound: calls of the token and the registry
  MaxProved          \* bound: journals proved

(* Every identifier has a proposal, which may not exist. *)
ASSUME ProposalIds == \A r \in Requests : r.proposalId \in Pids

(* There are finitely many addresses, and amounts are unsigned. *)
ASSUME TokenTypes ==
  /\ IsFiniteSet(Accounts)
  /\ InitialBalances \in [Accounts -> Nat]
  /\ Amounts \subseteq Nat

VARIABLES
  block,             \* the number of the block that is being built
  chain,             \* the state after every earlier block
  proposals,         \* for every proposal: does it exist, and its snapshot block
  totalSupply,
  balanceOf,
  allowance,
  registry,          \* the delegations every account has given
  calls,             \* calls of the token and the registry so far
  proved,            \* the votes that have been proved
  counted            \* the votes that the plugin has counted

tokenVars == <<totalSupply, balanceOf, allowance>>

chainVars == <<block, chain, proposals, tokenVars, registry, calls>>

allVars == <<vars, chainVars, proved, counted>>

ERC20 == INSTANCE Token WITH Holders <- Accounts, MAX <- WORD - 1

-----------------------------------------------------------------------------
(***************************************************************************)
(* The chain.                                                              *)
(***************************************************************************)

State ==
  [proposals |-> proposals, balanceOf |-> balanceOf, totalSupply |-> totalSupply,
   registry |-> registry]

MineBlock ==
  /\ block < MaxBlock
  /\ chain' = [n \in 0 .. block |-> IF n = block THEN State ELSE chain[n]]
  /\ block' = block + 1
  /\ UNCHANGED <<proposals, tokenVars, registry, calls, vars, proved, counted>>

(* The snapshot is the block with the proposal in it. *)
CreateProposalInSnapshot(p) ==
  /\ ~proposals[p].exists
  /\ proposals' = [proposals EXCEPT ![p] = [exists |-> TRUE, snapshot |-> block]]
  /\ UNCHANGED <<block, chain, tokenVars, registry, calls, vars, proved, counted>>

CreateProposal(p) ==
  /\ ~proposals[p].exists
  /\ proposals' = [proposals EXCEPT ![p] = [exists |-> TRUE, snapshot |-> block - 1]]
  /\ UNCHANGED <<block, chain, tokenVars, registry, calls, vars, proved, counted>>

UseToken ==
  /\ calls < MaxCalls /\ calls' = calls + 1
  /\ ERC20!Next(Amounts)
  /\ UNCHANGED <<block, chain, proposals, registry, vars, proved, counted>>

(* An account gives all its power to one delegate. *)
Delegate(a, d) ==
  /\ calls < MaxCalls /\ calls' = calls + 1
  /\ registry' = [registry EXCEPT ![a] = <<[delegate |-> d, ratio |-> 1]>>]
  /\ UNCHANGED <<block, chain, proposals, tokenVars, vars, proved, counted>>

-----------------------------------------------------------------------------
(***************************************************************************)
(* The publisher.                                                          *)
(***************************************************************************)

Asset(state, n) ==
  [votingPowerStrategy |-> "BalanceOf", delegationStrategy |-> "SplitDelegation",
   block |-> n, functions |-> {"balanceOf"}, balanceOf |-> state.balanceOf,
   registry |-> state.registry]

Config(state, exists, n) ==
  [parses |-> exists, executionStrategy |-> "MajorityVoting",
   assets |-> <<Asset(state, n)>>]

(* The token is read as it is when the publisher runs. *)
ConfigAtLatest(r) ==
  Config(State, r.configContract = Plugin /\ chain[r.block].proposals[r.proposalId].exists,
         r.block)

(* votingProtocolConfig(proposal_id) and the assets in it at a block.  The *)
(* configuration of a proposal that does not exist is the empty string.    *)
ConfigAt(r) ==
  Config(chain[r.block],
         r.configContract = Plugin /\ chain[r.block].proposals[r.proposalId].exists, r.block)

Running == {"started", "preflighted", "proved"}

Start(r) ==
  /\ phase \notin Running
  /\ Cardinality(proved) < MaxProved
  /\ r.block \in 0 .. block - 1
  /\ request' = r
  /\ config' = ConfigAt(r)
  /\ phase' = "started"
  /\ journal' = NoJournal
  /\ UNCHANGED <<chainVars, proved, counted>>

(* The steps of a publisher that do not reach the plugin. *)
Compute ==
  /\ Preflight \/ PreflightFails \/ ProveFails \/ RpcFails
  /\ UNCHANGED <<chainVars, proved, counted>>

ProveVote ==
  /\ Prove
  /\ proved' = proved \cup {request}
  /\ UNCHANGED <<chainVars, counted>>

(* vote takes a journal for this plugin that commits to the snapshot block *)
(* of its proposal.  An unknown proposal has the zero hash for its block.  *)
Accepts(j) ==
  /\ j.configContract = Plugin
  /\ proposals[j.proposalId].exists
  /\ j.digest = proposals[j.proposalId].snapshot
  /\ j.block = proposals[j.proposalId].snapshot

SendVote ==
  /\ Send
  /\ phase' = "sent" => Accepts(PluginDecoded(journal))
  /\ counted' = IF phase' = "sent" THEN counted \cup {PluginDecoded(journal)} ELSE counted
  /\ UNCHANGED <<chainVars, proved>>

ChainInit ==
  /\ block = 1
  /\ proposals = [p \in Pids |-> [exists |-> FALSE, snapshot |-> 0]]
  /\ balanceOf = InitialBalances
  /\ totalSupply = SumFunctionOnSet(InitialBalances, Accounts)
  /\ allowance = [a \in Accounts |-> [b \in Accounts |-> 0]]
  /\ registry = [a \in Accounts |-> <<[delegate |-> a, ratio |-> 1]>>]
  /\ chain = [n \in {0} |-> State]
  /\ calls = 0

ZkInit ==
  /\ ChainInit
  /\ proved = {} /\ counted = {}
  /\ phase = "idle" /\ journal = NoJournal
  /\ request = CHOOSE r \in Requests : TRUE
  /\ config = CHOOSE c \in Configs : TRUE

ZkNext ==
  \/ MineBlock \/ UseToken
  \/ \E p \in Pids : CreateProposal(p)
  \/ \E a, d \in Accounts : Delegate(a, d)
  \/ \E r \in Requests : Start(r)
  \/ Compute \/ ProveVote \/ SendVote

ZkSpec == ZkInit /\ [][ZkNext]_allVars

-----------------------------------------------------------------------------
(***************************************************************************)
(* Properties.                                                             *)
(***************************************************************************)

(* No vote is counted: a vote is proved with the configuration that its    *)
(* proposal had at the block of the proof, the plugin takes only proofs    *)
(* for the snapshot block, and that is the block before the one in which   *)
(* the proposal, and its configuration, were created (createProposal,      *)
(* votingProtocolConfig and voting_protocol.rs).                           *)
NoVoteCounted == counted = {}

(* A list of accounts that names none of them twice. *)
NamesOnce(listed) ==
  /\ IsList(listed)
  /\ \A i \in DOMAIN listed : listed[i] \in Accounts
  /\ \A i, k \in DOMAIN listed : listed[i] = listed[k] => i = k

ListsNameOnce == \A r \in Requests : r.kind = "vote" => NamesOnce(r.data.listed)

(* The most a voter has proved for a block. *)
ProvedPower(voter, n) ==
  Max({0} \cup {r.balance : r \in {q \in proved : q.voter = voter /\ q.block = n}})

(* Tokens do not vote twice: what all voters together can prove for one    *)
(* block is at most what was held at that block, however tokens and        *)
(* delegations move while the publishers run.  No list names an account    *)
(* twice here (the environment of publisher.rs at a fixed block).          *)
NoPowerTwice ==
  \A n \in DOMAIN chain :
    SumFunction([v \in Accounts |-> ProvedPower(v, n)]) <= chain[n].totalSupply

(* The balances of the token add up to its total supply (ERC20.sol).       *)
TokenSupplyIsSum == ERC20!SupplyIsSum
=============================================================================

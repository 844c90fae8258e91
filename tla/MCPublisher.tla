---------------------------- MODULE MCPublisher -----------------------------
(***************************************************************************)
(* Small instances of Publisher: two accounts that hold tokens, the        *)
(* delegations they can have given, and the requests made for them.        *)
(***************************************************************************)
EXTENDS Publisher

Balances == [a \in Accounts |-> IF a = "alice" THEN 5 ELSE 2]

Block == 2

Given(d, r) == [delegate |-> d, ratio |-> r]

(* Nothing, all to one account, or split in equal, in dividing and in      *)
(* other parts; with a zero ratio, a delegate named twice, and ratios that *)
(* add up to more than a word.                                             *)
Delegations ==
  {<<>>}
  \cup {<<Given(d, 1)>> : d \in Accounts}
  \cup {<<Given("alice", r), Given("bob", q)>> : r \in {1, 2, 3, 5}, q \in {0, 1, 3}}
  \cup {<<Given("bob", 1), Given("bob", 3)>>, <<Given("alice", 12), Given("bob", 6)>>}

(* As Delegations, without an account that gave none. *)
SomeDelegations == Delegations \ {<<>>}

Registries(ofAlice, ofBob) ==
  {[a \in Accounts |-> IF a = "alice" THEN d ELSE e] : d \in ofAlice, e \in ofBob}

Asset(strategy, functions, registry) ==
  [votingPowerStrategy |-> strategy, delegationStrategy |-> "SplitDelegation",
   block |-> Block,
   functions |-> functions, balanceOf |-> Balances,
   pastVotes |-> [b \in 0 .. Block |-> Balances],
   supply |-> [b \in 0 .. Block |-> 7], registry |-> registry]

ERC20 == {"balanceOf", "getTotalSupply"}

ERC20Votes == {"getPastVotes", "getPastTotalSupply"}

Config(assets) ==
  [parses |-> TRUE, assets |-> assets, executionStrategy |-> "MajorityVoting"]

Single(strategy, functions, registries) ==
  {Config(<<Asset(strategy, functions, r)>>) : r \in registries}

Plain == [a \in Accounts |-> <<Given("bob", 1)>>]

(* A proposal that did not exist at the block, strategies nobody knows, a  *)
(* token without the function asked for, no asset and two assets.          *)
OddConfigs ==
  {[Config(<<>>) EXCEPT !.parses = FALSE],
   [Config(<<Asset("BalanceOf", ERC20, Plain)>>) EXCEPT !.executionStrategy = "Other"],
   Config(<<[Asset("BalanceOf", ERC20, Plain) EXCEPT !.delegationStrategy = "Other"]>>),
   Config(<<Asset("Other", ERC20, Plain)>>),
   Config(<<Asset("BalanceOf", {"balanceOf"}, Plain)>>),
   Config(<<Asset("BalanceOf", {}, Plain)>>),
   Config(<<>>),
   Config(<<Asset("BalanceOf", ERC20, Plain), Asset("BalanceOf", ERC20, Plain)>>)}

(* Supplies that are even and odd. *)
Supplies ==
  {Config(<<[Asset("BalanceOf", ERC20, Plain) EXCEPT !.supply = [b \in 0 .. Block |-> s]]>>) :
     s \in 0 .. 8}

BalanceConfigs ==
  OddConfigs \cup Supplies
  \cup Single("BalanceOf", ERC20, Registries(Delegations, Delegations))

PastVotesConfigs == Single("GetPastVotes", ERC20Votes, {Plain})

SplitConfigs == Single("BalanceOf", ERC20, Registries(SomeDelegations, {<<Given("bob", 1)>>}))

UndelegatedConfigs == Single("BalanceOf", ERC20, Registries({<<>>}, {<<>>}))

-----------------------------------------------------------------------------
Lists == {<<>>, <<"alice">>, <<"bob">>, <<"alice", "bob">>}

Signature == [hex |-> TRUE, bytes |-> 65, v |-> 27, valid |-> TRUE]

(* Not hexadecimal, too short, an unknown recovery identifier or one with  *)
(* a chain identifier in it, and no signature.                             *)
Signatures ==
  {Signature, [Signature EXCEPT !.hex = FALSE], [Signature EXCEPT !.bytes = 64],
   [Signature EXCEPT !.v = 34], [Signature EXCEPT !.v = 35], [Signature EXCEPT !.valid = FALSE]}

VoteRequests ==
  [kind : {"vote"}, voter : {"bob"}, balance : 0 .. 7, direction : {0, 2}, testing : {0},
   data : [listed : Lists, rest : {0}], signature : {Signature},
   block : {Block}, configContract : {"plugin"}, proposalId : {1}]

TestRequests ==
  [kind : {"vote"}, voter : Accounts, balance : {0, 2, 7}, direction : {2, 4}, testing : {0, 1},
   data : [listed : Lists, rest : {0, 7}], signature : {Signature},
   block : {Block}, configContract : {"plugin"}, proposalId : {1}]

SignedRequests ==
  [kind : {"vote"}, voter : {"bob"}, balance : {2, 7}, direction : {2}, testing : {0},
   data : [listed : {<<"bob">>, <<"alice", "bob">>}, rest : {0}], signature : Signatures,
   block : {Failed, Block}, configContract : {"plugin", "other"}, proposalId : {0, 1}]

ExecutionRequests ==
  [kind : {"execution"}, tally : [1 .. 3 -> 0 .. 4], testing : {0, 1},
   block : {Block}, configContract : {"plugin"}, proposalId : {1}]

SomeVotes == VoteRequests \cup TestRequests \cup SignedRequests

SomeRequests == SomeVotes \cup ExecutionRequests
=============================================================================

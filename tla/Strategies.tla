----------------------------- MODULE Strategies -----------------------------
(***************************************************************************)
(* How voting power and the outcome of a vote are computed.  The guests    *)
(* compute them in the zkVM (crate strategies) and the publishers compute  *)
(* them beforehand on the host (crate apps), from two copies of the code.  *)
(* The operators that differ take the side, "guest" or "host".             *)
(*                                                                         *)
(* An asset is what a configuration says of it together with what the      *)
(* chain answers about it at the block the environment was built for:      *)
(*   block         the number of that block                                *)
(*   functions     the functions its token contract has                    *)
(*   balanceOf     the balances at that block                              *)
(*   pastVotes     the votes at that block and at the blocks before        *)
(*   supply        its total supply, at that block and before              *)
(*   registry      for every account the delegations it has given          *)
(*                                                                         *)
(* A panic, an error and a failed assertion all end the program without a  *)
(* result: they are the value Failed.                                      *)
(*                                                                         *)
(* A definition that nothing uses is a variant of the one that follows it, *)
(* with a plausible mistake in the code.                                   *)
(***************************************************************************)
EXTENDS Integers, Sequences, FiniteSetsExt

CONSTANT
  WORD       \* 2**256, the arithmetic of U256 wraps around

ASSUME WordAssumption == WORD \in Nat \ {0}

Failed == -1

(* Division of U256, which panics on zero. *)
Quotient(a, b) == IF a < 0 \/ b < 1 THEN Failed ELSE a \div b

(* The sum of a sequence of U256, or Failed if an element is. *)
SumWords(s) ==
  IF \E i \in DOMAIN s : s[i] = Failed THEN Failed
  ELSE FoldFunction(LAMBDA x, sum : (sum + x) % WORD, 0, s)

-----------------------------------------------------------------------------
(***************************************************************************)
(* Voting power strategies.                                                *)
(***************************************************************************)

(* A call of the token contract that it has no function for fails. *)
BalanceOf(asset, account) ==
  IF "balanceOf" \in asset.functions THEN asset.balanceOf[account] ELSE Failed

BalanceOfSupply(asset) ==
  IF "getTotalSupply" \in asset.functions THEN asset.supply[asset.block] ELSE Failed

(* The guest asks for the votes at the block itself, the host at its       *)
(* parent.  A token of the ERC20Votes kind answers for past blocks only.   *)
GuestTimepoint(asset) == asset.block

HostTimepoint(asset) == asset.block - 1

Timepoint(side, asset) ==
  IF side = "guest" THEN GuestTimepoint(asset) ELSE HostTimepoint(asset)

GetPastVotes(side, asset, account) ==
  IF "getPastVotes" \in asset.functions /\ Timepoint(side, asset) < asset.block
  THEN asset.pastVotes[Timepoint(side, asset)][account]
  ELSE Failed

PastSupply(side, asset) ==
  IF "getPastTotalSupply" \in asset.functions /\ Timepoint(side, asset) < asset.block
  THEN asset.supply[Timepoint(side, asset)]
  ELSE Failed

-----------------------------------------------------------------------------
(***************************************************************************)
(* The strategies each side knows by name; any other name fails.           *)
(***************************************************************************)

GuestStrategies ==
  [votingPower |-> {"BalanceOf", "GetPastVotes"},
   delegation  |-> {"SplitDelegation"},
   execution   |-> {"MajorityVoting"}]

HostStrategies ==
  [votingPower |-> {"BalanceOf", "GetPastVotes"},
   delegation  |-> {"SplitDelegation"},
   execution   |-> {"MajorityVoting"}]

Known(side) == IF side = "guest" THEN GuestStrategies ELSE HostStrategies

VotingPower(side, asset, account) ==
  CASE asset.votingPowerStrategy \notin Known(side).votingPower -> Failed
    [] asset.votingPowerStrategy = "BalanceOf" -> BalanceOf(asset, account)
    [] asset.votingPowerStrategy = "GetPastVotes" -> GetPastVotes(side, asset, account)

GetSupply(side, asset) ==
  CASE asset.votingPowerStrategy \notin Known(side).votingPower -> Failed
    [] asset.votingPowerStrategy = "BalanceOf" -> BalanceOfSupply(asset)
    [] asset.votingPowerStrategy = "GetPastVotes" -> PastSupply(side, asset)

-----------------------------------------------------------------------------
(***************************************************************************)
(* SplitDelegation.                                                        *)
(***************************************************************************)

(* The delegations an account gave that name `account' as the delegate. *)
Naming(delegations, account) ==
  {i \in DOMAIN delegations : delegations[i].delegate = account}

(* The sum of the ratios over the ratio of the first delegation that names *)
(* `account'.                                                              *)
Divisor(delegations, account) ==
  IF Naming(delegations, account) = {} THEN Failed
  ELSE LET d == delegations[Min(Naming(delegations, account))]
       IN Quotient(SumWords([i \in DOMAIN delegations |-> delegations[i].ratio]), d.ratio)

(* The divisor that `account' gets for a listed account.  For one that     *)
(* gave no delegations the guest takes 1; the host does not get that far,  *)
(* since it prints the first delegation before it looks whether there is   *)
(* one.                                                                    *)
GuestRatio(delegations, account) ==
  IF delegations = <<>> THEN 1 ELSE Divisor(delegations, account)

(* The host treats an account that gave no delegations as the guest does. *)
HostRatioAlike(delegations, account) ==
  IF delegations = <<>> THEN 1 ELSE Divisor(delegations, account)

(* The host takes the delegations of an account to be equal parts. *)
HostRatioEqual(delegations, account) ==
  IF delegations = <<>> \/ Naming(delegations, account) = {} THEN Failed
  ELSE Len(delegations)

HostRatio(delegations, account) ==
  IF delegations = <<>> THEN Failed ELSE Divisor(delegations, account)

Ratio(side, delegations, account) ==
  IF side = "guest" THEN GuestRatio(delegations, account) ELSE HostRatio(delegations, account)

(* The division rounds up. *)
ShareRoundedUp(side, asset, listed, account) ==
  LET power == VotingPower(side, asset, listed)
      ratio == Ratio(side, asset.registry[listed], account)
  IN IF ratio < 1 \/ power < 0 THEN Failed ELSE (power + ratio - 1) \div ratio

(* What `account' gets of the power of a listed account. *)
Share(side, asset, listed, account) ==
  Quotient(VotingPower(side, asset, listed), Ratio(side, asset.registry[listed], account))

(* The additional delegation data is a number of addresses and, if it was  *)
(* cut off, a rest of fewer than 20 bytes.                                 *)
AssetPower(side, asset, account, data) ==
  IF data.rest # 0 \/ asset.delegationStrategy \notin Known(side).delegation THEN Failed
  ELSE SumWords([i \in DOMAIN data.listed |->
                   Share(side, asset, data.listed[i], account)])

TotalVotingPower(side, assets, account, data) ==
  SumWords([k \in DOMAIN assets |-> AssetPower(side, assets[k], account, data)])

TotalSupply(side, assets) ==
  SumWords([k \in DOMAIN assets |-> GetSupply(side, assets[k])])

-----------------------------------------------------------------------------
(***************************************************************************)
(* MajorityVoting, whose tallies are in the order yes, no, abstain.        *)
(***************************************************************************)

PassesOnTie(supply, tally) ==
  LET votes     == (tally[1] + tally[2] + tally[3]) % WORD
      threshold == ((tally[1] + tally[2]) % WORD) \div 2
  IN votes > supply \div 2 /\ tally[1] >= threshold

ProofExecution(supply, tally) ==
  LET votes     == (tally[1] + tally[2] + tally[3]) % WORD
      threshold == ((tally[1] + tally[2]) % WORD) \div 2
  IN votes > supply \div 2 /\ tally[1] > threshold

ExecutionPasses(side, name, supply, tally) ==
  /\ name \in Known(side).execution
  /\ supply # Failed
  /\ ProofExecution(supply, tally)
=============================================================================

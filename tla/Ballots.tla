------------------------------- MODULE Ballots -------------------------------
(***************************************************************************)
(* What the voting plugin promises to somebody who looks at the chain      *)
(* between two transactions, with nothing said of proofs, settings, dates  *)
(* or of calls that re-enter the plugin: every transaction is one step.    *)
(*                                                                         *)
(* VotingPlugin implements this specification.                             *)
(***************************************************************************)
EXTENDS Integers

CONSTANTS
  Pids,          \* ids of proposals
  Voters         \* addresses that vote

VARIABLES
  proposals,     \* how many proposals have been created
  ballots,       \* the option each voter has chosen on a proposal, or "None"
  power,         \* the power that has taken part in the vote on a proposal
  marked,        \* whether a proposal is marked as executed
  carriedOut     \* how often the DAO has carried a proposal out

vars == <<proposals, ballots, power, marked, carriedOut>>

NewVoters(p) == {v \in Voters : ballots[p][v] = "None" /\ ballots'[p][v] # "None"}

(* Nobody who has voted stops having voted, and the power that takes part  *)
(* grows only with voters who had not voted before.                        *)
KeepsBallots(p) ==
  /\ \A v \in Voters : ballots[p][v] # "None" => ballots'[p][v] # "None"
  /\ power[p] <= power'[p]
  /\ power[p] < power'[p] => NewVoters(p) # {}

(* A proposal is carried out once or not at all, for good, and is marked   *)
(* exactly if it was.                                                      *)
CarriesOutOnce(p) ==
  /\ carriedOut'[p] \in {carriedOut[p], 1}
  /\ marked'[p] <=> carriedOut'[p] = 1

(* Nothing happens to a proposal before it is created. *)
UntouchedUntilCreated(p) ==
  proposals' <= p =>
    /\ \A v \in Voters : ballots'[p][v] = "None"
    /\ power'[p] = 0
    /\ carriedOut'[p] = 0

Init ==
  /\ proposals = 0
  /\ \A p \in Pids :
       /\ \A v \in Voters : ballots[p][v] = "None"
       /\ power[p] = 0
       /\ ~marked[p]
       /\ carriedOut[p] = 0

Transaction ==
  /\ proposals <= proposals'
  /\ \A p \in Pids : KeepsBallots(p) /\ CarriesOutOnce(p) /\ UntouchedUntilCreated(p)

Spec == Init /\ [][Transaction]_vars
=============================================================================

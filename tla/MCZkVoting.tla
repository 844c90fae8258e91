----------------------------- MODULE MCZkVoting -----------------------------
(***************************************************************************)
(* A small instance of ZkVoting: two accounts, one proposal, a few blocks. *)
(***************************************************************************)
EXTENDS ZkVoting

Signature == [hex |-> TRUE, bytes |-> 65, v |-> 27, valid |-> TRUE]

SomeRequests ==
  [kind : {"vote"}, voter : Accounts, balance : {2, 3}, direction : {2}, testing : {0},
   data : [listed : {<<"alice">>, <<"bob">>, <<"alice", "bob">>}, rest : {0}],
   signature : {Signature}, block : 0 .. MaxBlock - 1, configContract : {Plugin},
   proposalId : Pids]

NoConfigs == {[parses |-> FALSE, assets |-> <<>>, executionStrategy |-> "MajorityVoting"]}

Holdings == [a \in Accounts |-> IF a = "alice" THEN 2 ELSE 1]

(* These requests list no account twice. *)
ASSUME SomeListsNameOnce == ListsNameOnce
=============================================================================

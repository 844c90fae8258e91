---------------------------- MODULE MCVoteServer ----------------------------
(***************************************************************************)
(* A small instance of VoteServer: three requests on two workers.          *)
(***************************************************************************)
EXTENDS VoteServer

On(handler) == [handler |-> handler, row |-> 1, length |-> 132]

Load(a, b, c, n, deployed) ==
  [requests |-> [r \in Requests |-> CASE r = 1 -> a [] r = 2 -> b [] r = 3 -> c],
   calls |-> n, deployed |-> deployed]

Nothing == [s \in Selectors |-> UNSET]

Deployed == [Nothing EXCEPT ![ProverSelector] = CHOOSE v \in Implementations : TRUE]

Short == [On("proof_vote") EXCEPT !.length = 1]

(* Rows are added, read and deleted, and added after a deletion; publishers *)
(* run side by side and in front of a query; a signature is too short; the *)
(* owner registers, removes and stops verifiers meanwhile.                 *)
SomeWorkloads ==
  {Load(On("add_vote"), On("delete_vote"), On("add_vote"), 0, Nothing),
   Load(On("add_vote"), On("delete_vote"), On("retrieve_vote"), 0, Nothing),
   Load(On("proof_vote"), Short, On("delete_vote"), 0, Deployed),
   Load(On("proof_vote"), On("proof_vote"), On("retrieve_all_votes"), 1, Deployed),
   Load(On("proof_vote"), On("proof_vote"), On("none"), 3, Nothing)}
=============================================================================

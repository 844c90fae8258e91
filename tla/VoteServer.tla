----------------------------- MODULE VoteServer -----------------------------
(***************************************************************************)
(* The vote server: handlers that run on a few worker threads, the table   *)
(* of votes they keep, and the publishers that proof_vote starts, which    *)
(* all send from one account.                                              *)
(*                                                                         *)
(* A handler gives its thread back while it waits for the database, but    *)
(* proof_vote waits for its publisher with the thread held: until the      *)
(* publisher exits, the other requests of the worker stand still.          *)
(*                                                                         *)
(* What a publisher computes is modelled in Publisher; here it ends with a *)
(* proof or without.  The node's pool of transactions, which is external,  *)
(* keeps a transaction until it is mined or replaced by another one with   *)
(* the same nonce.                                                         *)
(*                                                                         *)
(* A definition that nothing uses is a variant of the one that follows it, *)
(* with a plausible mistake in the code.                                   *)
(***************************************************************************)
EXTENDS Naturals, VerifierRouter

CONSTANTS
  Requests,          \* the requests that clients send
  Workers,           \* the worker threads of the server
  NoWorker,          \* a request has not been given to a worker
  Workloads,         \* what the clients and the owner of the router do
  ZeroSelector,      \* the selector of a receipt made without a proof
  ProverSelector,    \* the selector of the prover's Groth16 parameters
  Unsupported        \* the receipt is of no kind that has a seal

ASSUME SelectorTypes ==
  ZeroSelector \in Selectors /\ ProverSelector \in Selectors /\ Unsupported \notin Selectors

ASSUME WorkerTypes == NoWorker \notin Workers

(* A workload is the handler and the arguments of every request, the       *)
(* router at the beginning, and a bound on the calls that its owner makes. *)
ASSUME WorkloadTypes ==
  \A load \in Workloads :
    load.calls \in Nat
    /\ load.deployed \in [Selectors -> Implementations \cup {UNSET, TOMBSTONE}]

VARIABLES
  work,              \* handler, row and length of signature of every request
  status,            \* how far a request has come
  worker,            \* the worker of a request
  result,            \* what the database said, then what the client is told
  rows,              \* the identifiers in the table of votes
  nextId,            \* the sequence the identifiers come from
  gone,              \* the rows that have been deleted
  seal,              \* the selector of a publisher's seal
  nonce,             \* the nonce of a publisher's transaction
  pool,              \* the requests whose transactions are in the pool
  lost,              \* the requests whose publisher lost the node
  mined,             \* the requests whose transactions are in the chain
  base,              \* the nonce of the account in the chain
  pending,           \* the nonce of the account after the pool
  calls,             \* the calls of its owner that the router may still get
  served             \* which verifier has verified under which selector

serverVars == <<work, status, worker, result, rows, nextId, gone>>

senderVars == <<seal, nonce, pool, lost, mined, base, pending, served, calls>>

vars == <<serverVars, senderVars, routerVars>>

(* The states of a request while its publisher runs or waits to be         *)
(* collected: the worker is held.                                          *)
Publishing == {"proving", "proved", "filled", "sent", "exited"}

Held(w) == \E r \in Requests : worker[r] = w /\ status[r] \in Publishing

Becomes(r, s) == status' = [status EXCEPT ![r] = s]

-----------------------------------------------------------------------------
(***************************************************************************)
(* The server.                                                             *)
(***************************************************************************)

(* A connection is given to any worker, whether it is held or not. *)
Dispatch(r, w) ==
  /\ status[r] = "waiting"
  /\ Becomes(r, "assigned")
  /\ worker' = [worker EXCEPT ![r] = w]
  /\ UNCHANGED <<work, result, rows, nextId, gone, senderVars, routerVars>>

(* The worker polls other handlers while a publisher runs. *)
HandleWhileHeld(r) ==
  /\ status[r] = "assigned"
  /\ Becomes(r, IF work[r].handler = "proof_vote" THEN "proving" ELSE "querying")
  /\ UNCHANGED <<work, worker, result, rows, nextId, gone, senderVars, routerVars>>

(* The worker starts a handler.  proof_vote drops the first two characters *)
(* of the signature, and aborts when there are fewer.                      *)
Handle(r) ==
  /\ status[r] = "assigned"
  /\ ~Held(worker[r])
  /\ IF work[r].handler # "proof_vote" THEN Becomes(r, "querying") /\ UNCHANGED result
     ELSE IF work[r].length >= 2 THEN Becomes(r, "proving") /\ UNCHANGED result
     ELSE Becomes(r, "answered") /\ result' = [result EXCEPT ![r] = "aborted"]
  /\ UNCHANGED <<work, worker, rows, nextId, gone, senderVars, routerVars>>

Queried(r, res) ==
  /\ status[r] = "querying"
  /\ Becomes(r, "queried")
  /\ result' = [result EXCEPT ![r] = res]
  /\ UNCHANGED <<work, worker, senderVars, routerVars>>

RetrieveVote(r) ==
  /\ work[r].handler = "retrieve_vote"
  /\ Queried(r, IF work[r].row \in rows THEN "ok" ELSE "error")
  /\ UNCHANGED <<rows, nextId, gone>>

RetrieveAllVotes(r) ==
  /\ work[r].handler = "retrieve_all_votes"
  /\ Queried(r, "ok")
  /\ UNCHANGED <<rows, nextId, gone>>

(* The identifier is one more than those in the table. *)
AddVoteAfterLast(r) ==
  /\ work[r].handler = "add_vote"
  /\ Queried(r, "ok")
  /\ rows' = rows \cup {CHOOSE n \in 1 .. nextId : \A k \in rows : k < n}
  /\ nextId' = nextId + 1
  /\ UNCHANGED gone

(* The identifiers are serial: one that was used does not come back. *)
AddVote(r) ==
  /\ work[r].handler = "add_vote"
  /\ Queried(r, "ok")
  /\ rows' = rows \cup {nextId}
  /\ nextId' = nextId + 1
  /\ UNCHANGED gone

DeleteVote(r) ==
  /\ work[r].handler = "delete_vote"
  /\ Queried(r, "ok")
  /\ rows' = rows \ {work[r].row}
  /\ gone' = gone \cup (rows \cap {work[r].row})
  /\ UNCHANGED nextId

(* The database refuses, or its answer is lost after it has done the work. *)
QueryFails(r) ==
  /\ status[r] \in {"querying", "queried"}
  /\ Becomes(r, "queried")
  /\ result' = [result EXCEPT ![r] = "error"]
  /\ UNCHANGED <<work, worker, rows, nextId, gone, senderVars, routerVars>>

(* The handler goes on once its worker is free.  An error is a bad request, *)
(* except that delete_vote unwraps it and aborts.                          *)
Respond(r) ==
  /\ status[r] = "queried"
  /\ ~Held(worker[r])
  /\ Becomes(r, "answered")
  /\ result' = [result EXCEPT ![r] =
                  IF result[r] = "ok" THEN "ok"
                  ELSE IF work[r].handler = "delete_vote" THEN "aborted" ELSE "bad request"]
  /\ UNCHANGED <<work, worker, rows, nextId, gone, senderVars, routerVars>>

(* The handler answers as soon as the publisher has sent. *)
CollectEarly(r) ==
  /\ status[r] \in {"sent", "exited"}
  /\ Becomes(r, "answered")
  /\ result' = [result EXCEPT ![r] = "ok"]
  /\ UNCHANGED <<work, worker, rows, nextId, gone, senderVars, routerVars>>

(* The publisher's exit status is read and dropped: the answer is Ok. *)
Collect(r) ==
  /\ status[r] = "exited"
  /\ Becomes(r, "answered")
  /\ result' = [result EXCEPT ![r] = "ok"]
  /\ UNCHANGED <<work, worker, rows, nextId, gone, senderVars, routerVars>>

-----------------------------------------------------------------------------
(***************************************************************************)
(* The publishers.                                                         *)
(***************************************************************************)

EncodeSeal(receipt) ==
  CASE receipt = "Fake" -> ZeroSelector
    [] receipt = "Groth16" -> ProverSelector
    [] OTHER -> Unsupported

(* The proof is made, and its receipt encoded. *)
Prove(r, receipt) ==
  /\ status[r] = "proving"
  /\ Becomes(r, IF EncodeSeal(receipt) = Unsupported THEN "exited" ELSE "proved")
  /\ seal' = [seal EXCEPT ![r] = EncodeSeal(receipt)]
  /\ UNCHANGED <<work, worker, result, rows, nextId, gone,
                 nonce, pool, lost, mined, base, pending, served, calls, routerVars>>

(* The publisher exits without having sent: an argument does not parse, a  *)
(* check or the proof fails, or the node does not answer.                  *)
PublisherFails(r) ==
  /\ status[r] \in {"proving", "proved", "filled"}
  /\ Becomes(r, "exited")
  /\ UNCHANGED <<work, worker, result, rows, nextId, gone, senderVars, routerVars>>

(* The nonce is one past that of the node's answer. *)
FillNext(r, n) ==
  /\ status[r] = "proved"
  /\ Verifies(seal[r])
  /\ Becomes(r, "filled")
  /\ nonce' = [nonce EXCEPT ![r] = n + 1]
  /\ UNCHANGED <<work, worker, result, rows, nextId, gone,
                 seal, pool, lost, mined, base, pending, served, calls, routerVars>>

(* The transaction's gas is estimated, which runs the verification, and    *)
(* its nonce is asked for: the node answers with or without its pool.      *)
Fill(r, n) ==
  /\ status[r] = "proved"
  /\ Verifies(seal[r])
  /\ Becomes(r, "filled")
  /\ nonce' = [nonce EXCEPT ![r] = n]
  /\ UNCHANGED <<work, worker, result, rows, nextId, gone,
                 seal, pool, lost, mined, base, pending, served, calls, routerVars>>

(* The estimate fails as the verification does, before anything is sent. *)
EstimateReverts(r) ==
  /\ status[r] = "proved"
  /\ ~Verifies(seal[r])
  /\ Becomes(r, "exited")
  /\ UNCHANGED <<work, worker, result, rows, nextId, gone, senderVars, routerVars>>

Conflicting(r) == {q \in pool : nonce[q] = nonce[r]}

(* The node takes the transaction, in the place of one with the same nonce *)
(* that pays less.                                                         *)
Broadcast(r) ==
  /\ status[r] = "filled"
  /\ nonce[r] >= base
  /\ Becomes(r, "sent")
  /\ pool' = (pool \ Conflicting(r)) \cup {r}
  /\ pending' = IF nonce[r] = pending THEN pending + 1 ELSE pending
  /\ UNCHANGED <<work, worker, result, rows, nextId, gone,
                 seal, nonce, lost, mined, base, served, calls, routerVars>>

(* The nonce is used up, or the one who has it pays as much. *)
BroadcastRefused(r) ==
  /\ status[r] = "filled"
  /\ nonce[r] < base \/ Conflicting(r) # {}
  /\ Becomes(r, "exited")
  /\ UNCHANGED <<work, worker, result, rows, nextId, gone, senderVars, routerVars>>

(* The transaction is mined, and verified against the router as it is now. *)
Mine(r) ==
  /\ r \in pool
  /\ nonce[r] = base
  /\ base' = base + 1
  /\ pool' = pool \ {r}
  /\ mined' = mined \cup {r}
  /\ served' = IF Verifies(seal[r]) THEN served \cup {<<seal[r], verifiers[seal[r]]>>}
               ELSE served
  /\ UNCHANGED <<serverVars, seal, nonce, lost, pending, calls, routerVars>>

(* The receipt is awaited only until the transaction has succeeded. *)
GetReceiptOfSuccess(r) ==
  /\ status[r] = "sent"
  /\ r \in mined /\ Verifies(seal[r])
  /\ Becomes(r, "exited")
  /\ UNCHANGED <<work, worker, result, rows, nextId, gone, senderVars, routerVars>>

(* The receipt arrives, and the publisher exits with its status. *)
GetReceipt(r) ==
  /\ status[r] = "sent"
  /\ r \in mined
  /\ Becomes(r, "exited")
  /\ UNCHANGED <<work, worker, result, rows, nextId, gone, senderVars, routerVars>>

(* The node does not answer while the receipt is awaited. *)
ReceiptLost(r) ==
  /\ status[r] = "sent"
  /\ Becomes(r, "exited")
  /\ lost' = lost \cup {r}
  /\ UNCHANGED <<work, worker, result, rows, nextId, gone,
                 seal, nonce, pool, mined, base, pending, served, calls, routerVars>>

-----------------------------------------------------------------------------
(* A request of the handler "none" is not made. *)
Init ==
  /\ \E load \in Workloads :
       work = load.requests /\ calls = load.calls /\ verifiers = load.deployed
  /\ status = [r \in Requests |-> IF work[r].handler = "none" THEN "answered" ELSE "waiting"]
  /\ worker = [r \in Requests |-> NoWorker]
  /\ result = [r \in Requests |-> "none"]
  /\ rows = {} /\ nextId = 1 /\ gone = {}
  /\ seal = [r \in Requests |-> Unsupported]
  /\ nonce = [r \in Requests |-> 0]
  /\ pool = {} /\ lost = {} /\ mined = {}
  /\ base = 0 /\ pending = 0
  /\ served = {}
  /\ paused = {}

(* A step of a request, of the database or of its publisher. *)
Progress(r) ==
  \/ \E w \in Workers : Dispatch(r, w)
  \/ Handle(r) \/ Respond(r) \/ Collect(r)
  \/ RetrieveVote(r) \/ RetrieveAllVotes(r) \/ AddVote(r) \/ DeleteVote(r) \/ QueryFails(r)
  \/ \E receipt \in {"Fake", "Groth16", "Succinct"} : Prove(r, receipt)
  \/ \E n \in {base, pending} : Fill(r, n)
  \/ EstimateReverts(r) \/ Broadcast(r) \/ BroadcastRefused(r)
  \/ GetReceipt(r) \/ PublisherFails(r)

OwnerCalls ==
  /\ calls > 0 /\ calls' = calls - 1
  /\ RouterNext
  /\ UNCHANGED <<serverVars, seal, nonce, pool, lost, mined, base, pending, served>>

Next ==
  \/ \E r \in Requests : Progress(r) \/ Mine(r) \/ ReceiptLost(r)
  \/ OwnerCalls

Spec == Init /\ [][Next]_vars

(* Threads, database and publishers go on, and the chain mines what is in  *)
(* the pool.  Nothing makes a connection fail.                             *)
FairSpec ==
  Spec /\ \A r \in Requests : WF_vars(Progress(r)) /\ WF_vars(Mine(r))

-----------------------------------------------------------------------------
(***************************************************************************)
(* Properties.                                                             *)
(***************************************************************************)

(* The publisher of q waits for a transaction that is no longer there.     *)
Displaced(q) == status[q] = "sent" /\ q \notin pool \cup mined

(* Every request is answered in the end, however long the publishers on    *)
(* its worker take, unless the worker waits without end: get_receipt has   *)
(* no timeout, and a publisher whose transaction was replaced by that of   *)
(* another one waits for a receipt that does not come (proof_vote and its  *)
(* blocking Command::output, publisher.rs).                                *)
EveryRequestAnswered ==
  \A r \in Requests :
    <>[](\/ status[r] = "answered"
         \/ \E q \in Requests : worker[q] = worker[r] /\ Displaced(q))

(* Once proof_vote has answered, the vote is settled: its transaction is   *)
(* no longer under way, unless the publisher lost the node while it waited *)
(* (Command::output waits for the exit, the publisher for its receipt).    *)
AnsweredIsSettled ==
  \A r \in pool : status[r] = "answered" => r \in lost

(* A worker runs at most one publisher, so that there are never more       *)
(* provers at work than workers (Command::output in proof_vote).           *)
OnePublisherPerWorker ==
  \A r, q \in Requests :
    status[r] \in Publishing /\ status[q] \in Publishing /\ worker[r] = worker[q] => r = q

(* The publishers share an account and take their nonces long before they  *)
(* are used; still no transaction is ever sent ahead of a nonce nobody has *)
(* taken, which would keep it and all later ones from being mined (the     *)
(* recommended fillers of the provider in publisher.rs).                   *)
NoNonceGap == {nonce[r] : r \in pool} = base .. pending - 1

(* Each selector maps to at most one implementation across time: all       *)
(* transactions that were verified under a selector were verified by the   *)
(* same verifier (removeVerifier and its tombstone).                       *)
OneVerifierPerSelector ==
  \A x, y \in served : x[1] = y[1] => x = y

(* A vote that was deleted does not come back, nor another one under its   *)
(* identifier, which clients may still hold (delete_vote, add_vote and the *)
(* serial key of the table).                                               *)
DeletedStaysDeleted == gone \cap rows = {}
=============================================================================

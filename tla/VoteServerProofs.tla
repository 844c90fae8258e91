-------------------------- MODULE VoteServerProofs --------------------------
(***************************************************************************)
(* Proofs about the vote server, its publishers' account and the verifier  *)
(* router, for any number of requests, workers, selectors and verifiers.   *)
(***************************************************************************)
EXTENDS VoteServer, TLAPS

Statuses ==
  {"waiting", "assigned", "querying", "queried", "answered"} \cup Publishing

(* The types that the proofs need.                                         *)
TypeInv ==
  /\ status \in [Requests -> Statuses]
  /\ worker \in [Requests -> Workers \cup {NoWorker}]
  /\ nonce \in [Requests -> Nat]
  /\ base \in Nat /\ pending \in Nat
  /\ pool \subseteq Requests
  /\ paused \subseteq Implementations
  /\ verifiers \in [Selectors -> Implementations \cup {UNSET, TOMBSTONE}]

(* The types are kept.                                                     *)
LEMMA TypesKept == Spec => []TypeInv
<1>1. Init => TypeInv
  BY WorkloadTypes DEF Init, TypeInv, Statuses, Publishing
<1>2. TypeInv /\ [Next]_vars => TypeInv'
  <2> SUFFICES ASSUME TypeInv, [Next]_vars PROVE TypeInv'
    OBVIOUS
  <2> USE DEF TypeInv
  <2>1. CASE UNCHANGED vars
    BY <2>1 DEF vars, serverVars, senderVars, routerVars
  <2>2. CASE OwnerCalls
    BY <2>2 DEF OwnerCalls, RouterNext, AddVerifier, RemoveVerifier, Estop, serverVars
  <2>3. ASSUME NEW r \in Requests, Progress(r) PROVE TypeInv'
    <3> USE DEF senderVars, routerVars, Becomes, Statuses, Publishing
    <3>1. CASE \E w \in Workers : Dispatch(r, w)
      BY <3>1 DEF Dispatch
    <3>2. CASE Handle(r)
      BY <3>2 DEF Handle
    <3>3. CASE Respond(r) \/ Collect(r)
      BY <3>3 DEF Respond, Collect
    <3>4. CASE RetrieveVote(r) \/ RetrieveAllVotes(r) \/ AddVote(r) \/ DeleteVote(r)
      BY <3>4 DEF RetrieveVote, RetrieveAllVotes, AddVote, DeleteVote, Queried
    <3>5. CASE QueryFails(r) \/ PublisherFails(r) \/ EstimateReverts(r)
      BY <3>5 DEF QueryFails, PublisherFails, EstimateReverts
    <3>6. CASE \E receipt \in {"Fake", "Groth16", "Succinct"} : Prove(r, receipt)
      BY <3>6 DEF Prove
    <3>7. CASE \E n \in {base, pending} : Fill(r, n)
      BY <3>7 DEF Fill
    <3>8. CASE Broadcast(r)
      BY <3>8 DEF Broadcast, Conflicting
    <3>9. CASE BroadcastRefused(r) \/ GetReceipt(r)
      BY <3>9 DEF BroadcastRefused, GetReceipt
    <3> QED
      BY <2>3, <3>1, <3>2, <3>3, <3>4, <3>5, <3>6, <3>7, <3>8, <3>9 DEF Progress
  <2>4. ASSUME NEW r \in Requests, Mine(r) PROVE TypeInv'
    BY <2>4 DEF Mine, serverVars, routerVars
  <2>5. ASSUME NEW r \in Requests, ReceiptLost(r) PROVE TypeInv'
    BY <2>5 DEF ReceiptLost, Becomes, routerVars, Statuses, Publishing
  <2> QED
    BY <2>1, <2>2, <2>3, <2>4, <2>5 DEF Next
<1> QED
  BY <1>1, <1>2, PTL DEF Spec

-----------------------------------------------------------------------------
(***************************************************************************)
(* The table of votes.                                                     *)
(***************************************************************************)

(* All identifiers that were ever used are below the next one.             *)
RowsInv ==
  /\ nextId \in Nat
  /\ rows \cup gone \subseteq Nat
  /\ \A n \in rows \cup gone : n < nextId
  /\ gone \cap rows = {}

(* A deleted vote never comes back, since the key of the table is serial   *)
(* (delete_vote and add_vote).                                             *)
THEOREM DeletedAlwaysDeleted == Spec => []DeletedStaysDeleted
<1>1. Init => RowsInv
  BY DEF Init, RowsInv
<1>2. RowsInv /\ [Next]_vars => RowsInv'
  <2> SUFFICES ASSUME RowsInv, [Next]_vars PROVE RowsInv'
    OBVIOUS
  <2>1. CASE \E r \in Requests : AddVote(r)
    BY <2>1 DEF AddVote, RowsInv
  <2>2. CASE \E r \in Requests : DeleteVote(r)
    BY <2>2 DEF DeleteVote, RowsInv
  <2>3. CASE UNCHANGED <<rows, nextId, gone>>
    BY <2>3, ZenonT(30) DEF RowsInv
  <2>4. ASSUME NEW r \in Requests, Progress(r), ~AddVote(r), ~DeleteVote(r)
        PROVE  UNCHANGED <<rows, nextId, gone>>
    <3>1. CASE (\E w \in Workers : Dispatch(r, w)) \/ Handle(r) \/ Respond(r) \/ Collect(r)
      BY <3>1 DEF Dispatch, Handle, Respond, Collect
    <3>2. CASE RetrieveVote(r) \/ RetrieveAllVotes(r) \/ QueryFails(r)
      BY <3>2 DEF RetrieveVote, RetrieveAllVotes, QueryFails
    <3>3. CASE (\E receipt \in {"Fake", "Groth16", "Succinct"} : Prove(r, receipt))
               \/ (\E n \in {base, pending} : Fill(r, n))
      BY <3>3 DEF Prove, Fill
    <3>4. CASE EstimateReverts(r) \/ PublisherFails(r) \/ GetReceipt(r)
      BY <3>4 DEF EstimateReverts, PublisherFails, GetReceipt
    <3>5. CASE Broadcast(r) \/ BroadcastRefused(r)
      BY <3>5 DEF Broadcast, BroadcastRefused
    <3> QED
      BY <2>4, <3>1, <3>2, <3>3, <3>4, <3>5 DEF Progress
  <2>5. CASE OwnerCalls \/ \E r \in Requests : Mine(r) \/ ReceiptLost(r)
    <3>1. UNCHANGED <<rows, nextId, gone>>
      BY <2>5 DEF OwnerCalls, Mine, ReceiptLost, serverVars
    <3> QED
      BY <2>3, <3>1
  <2>6. CASE UNCHANGED vars
    BY <2>3, <2>6 DEF vars, serverVars
  <2> QED
    BY <2>1, <2>2, <2>3, <2>4, <2>5, <2>6 DEF Next
<1>3. RowsInv => DeletedStaysDeleted
  BY DEF RowsInv, DeletedStaysDeleted
<1> QED
  BY <1>1, <1>2, <1>3, PTL DEF Spec

-----------------------------------------------------------------------------
(***************************************************************************)
(* The workers.                                                            *)
(***************************************************************************)

(* Only Handle makes a request hold its worker.                            *)
LEMMA OnlyHandleHolds ==
  ASSUME TypeInv, [Next]_vars, ~ \E r \in Requests : Handle(r), NEW q \in Requests,
         status'[q] \in Publishing
  PROVE  status[q] \in Publishing /\ worker'[q] = worker[q]
<1> USE DEF Publishing, TypeInv
<1>1. CASE UNCHANGED vars
  BY <1>1 DEF vars, serverVars
<1>2. CASE OwnerCalls \/ \E r \in Requests : Mine(r)
  BY <1>2, ZenonT(30) DEF OwnerCalls, Mine, serverVars
<1>3. ASSUME NEW r \in Requests, Progress(r) \/ ReceiptLost(r)
      PROVE  status[q] \in Publishing /\ worker'[q] = worker[q]
  <2> USE DEF Becomes
  <2>1. CASE \E w \in Workers : Dispatch(r, w)
    BY <2>1 DEF Dispatch
  <2>2. CASE Respond(r) \/ Collect(r) \/ QueryFails(r)
    BY <2>2 DEF Respond, Collect, QueryFails
  <2>3. CASE RetrieveVote(r) \/ RetrieveAllVotes(r) \/ AddVote(r) \/ DeleteVote(r)
    BY <2>3 DEF RetrieveVote, RetrieveAllVotes, AddVote, DeleteVote, Queried
  <2>4. CASE \E receipt \in {"Fake", "Groth16", "Succinct"} : Prove(r, receipt)
    BY <2>4 DEF Prove
  <2>5. CASE \E n \in {base, pending} : Fill(r, n)
    BY <2>5 DEF Fill
  <2>6. CASE EstimateReverts(r) \/ PublisherFails(r) \/ GetReceipt(r)
    BY <2>6 DEF EstimateReverts, PublisherFails, GetReceipt
  <2>7. CASE Broadcast(r) \/ BroadcastRefused(r) \/ ReceiptLost(r)
    BY <2>7 DEF Broadcast, BroadcastRefused, ReceiptLost
  <2> QED
    BY <1>3, <2>1, <2>2, <2>3, <2>4, <2>5, <2>6, <2>7 DEF Progress
<1> QED
  BY <1>1, <1>2, <1>3 DEF Next

(* A worker never runs two publishers at a time: proof_vote waits for its  *)
(* publisher with the thread held (Command::output).                       *)
THEOREM AlwaysOnePublisherPerWorker == Spec => []OnePublisherPerWorker
<1>1. Init => OnePublisherPerWorker
  BY DEF Init, OnePublisherPerWorker, Publishing
<1>2. TypeInv /\ OnePublisherPerWorker /\ [Next]_vars => OnePublisherPerWorker'
  <2> SUFFICES ASSUME TypeInv, OnePublisherPerWorker, [Next]_vars
               PROVE  OnePublisherPerWorker'
    OBVIOUS
  <2>1. CASE ~ \E r \in Requests : Handle(r)
    BY <2>1, OnlyHandleHolds DEF OnePublisherPerWorker
  <2>2. ASSUME NEW r \in Requests, Handle(r) PROVE OnePublisherPerWorker'
    <3>1. /\ ~Held(worker[r]) /\ worker' = worker
          /\ \A q \in Requests \ {r} : status'[q] = status[q]
      BY <2>2 DEF Handle, Becomes, TypeInv
    <3>2. \A q \in Requests \ {r} : status'[q] \in Publishing => worker'[q] # worker'[r]
      BY <3>1 DEF Held
    <3> QED
      BY <3>1, <3>2 DEF OnePublisherPerWorker
  <2> QED
    BY <2>1, <2>2
<1> QED
  BY <1>1, <1>2, TypesKept, PTL DEF Spec

-----------------------------------------------------------------------------
(***************************************************************************)
(* The account that the publishers share.                                  *)
(***************************************************************************)

(* A transaction in the pool has a publisher that waits for it or has lost *)
(* the node, and one in the chain has left the pool.                       *)
SettleInv ==
  /\ \A r \in pool :
       status[r] = "sent" \/ (r \in lost /\ status[r] \in {"exited", "answered"})
  /\ \A r \in mined : r \notin pool /\ status[r] \in {"sent", "exited", "answered"}
  /\ mined \subseteq Requests

(* Every step keeps the pool and the statuses in step.                     *)
LEMMA SettleStep ==
  ASSUME TypeInv, SettleInv, [Next]_vars
  PROVE  SettleInv'
<1> USE DEF TypeInv, SettleInv
<1>1. CASE UNCHANGED vars
  BY <1>1 DEF vars, serverVars, senderVars
<1>2. CASE OwnerCalls
  BY <1>2 DEF OwnerCalls, serverVars
<1>3. ASSUME NEW r \in Requests, Mine(r) PROVE SettleInv'
  BY <1>3 DEF Mine, serverVars
<1>4. ASSUME NEW r \in Requests, ReceiptLost(r) PROVE SettleInv'
  BY <1>4 DEF ReceiptLost, Becomes
<1>5. ASSUME NEW r \in Requests, Progress(r) PROVE SettleInv'
  <2> USE DEF Becomes, senderVars
  <2>1. CASE \E w \in Workers : Dispatch(r, w)
    BY <2>1 DEF Dispatch
  <2>2. CASE Handle(r)
    BY <2>2 DEF Handle
  <2>3. CASE Respond(r) \/ Collect(r) \/ QueryFails(r)
    BY <2>3 DEF Respond, Collect, QueryFails
  <2>4. CASE RetrieveVote(r) \/ RetrieveAllVotes(r) \/ AddVote(r) \/ DeleteVote(r)
    BY <2>4 DEF RetrieveVote, RetrieveAllVotes, AddVote, DeleteVote, Queried
  <2>5. CASE \E receipt \in {"Fake", "Groth16", "Succinct"} : Prove(r, receipt)
    BY <2>5 DEF Prove
  <2>6. CASE \E n \in {base, pending} : Fill(r, n)
    BY <2>6 DEF Fill
  <2>7. CASE EstimateReverts(r) \/ PublisherFails(r) \/ GetReceipt(r) \/ BroadcastRefused(r)
    BY <2>7 DEF EstimateReverts, PublisherFails, GetReceipt, BroadcastRefused
  <2>8. CASE Broadcast(r)
    BY <2>8 DEF Broadcast
  <2> QED
    BY <1>5, <2>1, <2>2, <2>3, <2>4, <2>5, <2>6, <2>7, <2>8 DEF Progress
<1> QED
  BY <1>1, <1>2, <1>3, <1>4, <1>5 DEF Next

(* An answered proof_vote has no transaction under way, unless its         *)
(* publisher lost the node (Command::output and get_receipt).              *)
THEOREM AnsweredAlwaysSettled == Spec => []AnsweredIsSettled
<1>1. Init => SettleInv
  BY DEF Init, SettleInv
<1>2. SettleInv => AnsweredIsSettled
  BY DEF SettleInv, AnsweredIsSettled
<1> QED
  BY <1>1, <1>2, SettleStep, TypesKept, PTL DEF Spec

(* The nonces in the pool are those between the chain's and the pool's,    *)
(* each taken once; a nonce that a publisher has been given, however long  *)
(* ago, is at most the pool's.                                             *)
NonceInv ==
  /\ \A r \in pool : status[r] \in {"sent", "exited", "answered"}
  /\ base <= pending
  /\ \A r \in pool : base <= nonce[r] /\ nonce[r] < pending
  /\ \A n \in base .. pending - 1 : \E r \in pool : nonce[r] = n
  /\ \A r, q \in pool : nonce[r] = nonce[q] => r = q
  /\ \A r \in Requests : status[r] = "filled" => nonce[r] <= pending

(* A step that leaves nonces and pool alone and fills no transaction       *)
(* changes nothing about the nonces.                                       *)
LEMMA NoncesAlone ==
  ASSUME TypeInv, NonceInv, UNCHANGED <<nonce, pool, base, pending>>,
         \A r \in pool : status'[r] \in {"sent", "exited", "answered"},
         \A r \in Requests : status'[r] = "filled" => status[r] = "filled"
  PROVE  NonceInv'
BY DEF NonceInv, TypeInv

(* Every step keeps the nonces in order.                                   *)
LEMMA NonceStep ==
  ASSUME TypeInv, NonceInv, SettleInv, [Next]_vars
  PROVE  NonceInv'
<1> USE DEF TypeInv
<1>1. CASE UNCHANGED vars
  BY <1>1 DEF NonceInv, vars, serverVars, senderVars
<1>2. CASE OwnerCalls
  BY <1>2 DEF NonceInv, OwnerCalls, serverVars
<1>3. ASSUME NEW r \in Requests, Mine(r) PROVE NonceInv'
  <2>1. /\ r \in pool /\ nonce[r] = base /\ base' = base + 1 /\ pool' = pool \ {r}
        /\ nonce' = nonce /\ pending' = pending /\ status' = status
    BY <1>3 DEF Mine, serverVars
  <2>2. \A q \in pool' : base' <= nonce[q]
    BY <2>1 DEF NonceInv
  <2>3. \A n \in base' .. pending' - 1 : \E q \in pool' : nonce[q] = n
    BY <2>1 DEF NonceInv
  <2> QED
    BY <2>1, <2>2, <2>3 DEF NonceInv
<1>4. ASSUME NEW r \in Requests, ReceiptLost(r) PROVE NonceInv'
  BY <1>4, NoncesAlone DEF NonceInv, ReceiptLost, Becomes
<1>5. ASSUME NEW r \in Requests, Progress(r) PROVE NonceInv'
  <2> USE DEF Becomes, senderVars
  <2>1. CASE \E w \in Workers : Dispatch(r, w)
    BY <2>1, NoncesAlone, ZenonT(30) DEF NonceInv, Dispatch
  <2>2. CASE Handle(r)
    BY <2>2, NoncesAlone, SMTT(60) DEF NonceInv, Handle
  <2>3. CASE Respond(r) \/ Collect(r) \/ QueryFails(r)
    BY <2>3, NoncesAlone DEF NonceInv, Respond, Collect, QueryFails
  <2>4. CASE RetrieveVote(r) \/ RetrieveAllVotes(r) \/ AddVote(r) \/ DeleteVote(r)
    BY <2>4, NoncesAlone
       DEF NonceInv, RetrieveVote, RetrieveAllVotes, AddVote, DeleteVote, Queried
  <2>5. CASE \E receipt \in {"Fake", "Groth16", "Succinct"} : Prove(r, receipt)
    BY <2>5, NoncesAlone DEF NonceInv, Prove
  <2>6. CASE \E n \in {base, pending} : Fill(r, n)
    <3>1. r \notin pool
      BY <2>6, ZenonT(30) DEF NonceInv, Fill
    <3> QED
      BY <2>6, <3>1 DEF NonceInv, Fill
  <2>7. CASE EstimateReverts(r) \/ PublisherFails(r) \/ GetReceipt(r) \/ BroadcastRefused(r)
    BY <2>7, NoncesAlone
       DEF NonceInv, EstimateReverts, PublisherFails, GetReceipt, BroadcastRefused
  <2>8. CASE Broadcast(r)
    <3>1. /\ r \notin pool /\ base <= nonce[r] /\ nonce[r] <= pending
          /\ pool' = {q \in pool : nonce[q] # nonce[r]} \cup {r}
          /\ pending' = IF nonce[r] = pending THEN pending + 1 ELSE pending
          /\ nonce' = nonce /\ base' = base
      BY <2>8 DEF Broadcast, NonceInv, Conflicting
    <3>2. /\ \A q \in pool' : status'[q] \in {"sent", "exited", "answered"}
          /\ \A q \in Requests : status'[q] = "filled" => status[q] = "filled"
      BY <2>8, <3>1 DEF Broadcast, NonceInv
    <3>3. \A q \in pool' : base' <= nonce[q] /\ nonce[q] < pending'
      BY <3>1 DEF NonceInv
    <3>4. \A n \in base' .. pending' - 1 : \E q \in pool' : nonce[q] = n
      BY <3>1 DEF NonceInv
    <3>5. \A p, q \in pool' : nonce[p] = nonce[q] => p = q
      BY <3>1 DEF NonceInv
    <3> QED
      BY <3>1, <3>2, <3>3, <3>4, <3>5 DEF NonceInv
  <2> QED
    BY <1>5, <2>1, <2>2, <2>3, <2>4, <2>5, <2>6, <2>7, <2>8 DEF Progress
<1> QED
  BY <1>1, <1>2, <1>3, <1>4, <1>5 DEF Next

(* However the publishers that share the account interleave, their         *)
(* transactions leave no nonce out (the fillers of publisher.rs).          *)
THEOREM NeverNonceGap == Spec => []NoNonceGap
<1>1. Init => SettleInv /\ NonceInv
  BY DEF Init, SettleInv, NonceInv
<1>2. TypeInv /\ NonceInv => NoNonceGap
  BY SMTT(60) DEF TypeInv, NonceInv, NoNonceGap
<1> QED
  BY <1>1, <1>2, SettleStep, NonceStep, TypesKept, PTL DEF Spec

-----------------------------------------------------------------------------
(***************************************************************************)
(* The router.                                                             *)
(***************************************************************************)

(* A request's own steps leave the router and its history alone.           *)
LEMMA RouterAlone ==
  ASSUME NEW r \in Requests, Progress(r) \/ ReceiptLost(r)
  PROVE  UNCHANGED <<served, verifiers, paused>>
<1> USE DEF senderVars, routerVars
<1>1. CASE ReceiptLost(r) \/ \E w \in Workers : Dispatch(r, w)
  BY <1>1, SMTT(60) DEF ReceiptLost, Dispatch
<1>2. CASE Handle(r) \/ Respond(r) \/ Collect(r) \/ QueryFails(r)
  BY <1>2 DEF Handle, Respond, Collect, QueryFails
<1>3. CASE RetrieveVote(r) \/ RetrieveAllVotes(r) \/ AddVote(r) \/ DeleteVote(r)
  BY <1>3 DEF RetrieveVote, RetrieveAllVotes, AddVote, DeleteVote, Queried
<1>4. CASE (\E receipt \in {"Fake", "Groth16", "Succinct"} : Prove(r, receipt))
           \/ (\E n \in {base, pending} : Fill(r, n))
  BY <1>4 DEF Prove, Fill
<1>5. CASE EstimateReverts(r) \/ PublisherFails(r) \/ GetReceipt(r)
  BY <1>5, ZenonT(30) DEF EstimateReverts, PublisherFails, GetReceipt
<1>6. CASE Broadcast(r) \/ BroadcastRefused(r)
  BY <1>6 DEF Broadcast, BroadcastRefused
<1> QED
  BY <1>1, <1>2, <1>3, <1>4, <1>5, <1>6 DEF Progress

(* Only the owners' calls change the router.                               *)
LEMMA OnlyOwnerCalls ==
  ASSUME [Next]_vars, ~ UNCHANGED routerVars
  PROVE  RouterNext
<1>1. CASE OwnerCalls
  BY <1>1 DEF OwnerCalls
<1>2. ASSUME NEW r \in Requests, Progress(r) \/ ReceiptLost(r) PROVE FALSE
  BY <1>2, RouterAlone DEF routerVars
<1>3. ASSUME NEW r \in Requests, Mine(r) PROVE FALSE
  BY <1>3 DEF Mine
<1>4. CASE UNCHANGED vars
  BY <1>4 DEF vars
<1> QED
  BY <1>1, <1>2, <1>3, <1>4 DEF Next

(* A removed or stopped selector stays so under every call of the owners   *)
(* (addVerifier, removeVerifier, estop).                                   *)
THEOREM DeadAlwaysDead == Spec => DeadStaysDead
<1>1. TypeInv /\ [Next]_vars => [\A s \in Selectors : Dead(s) => Dead(s)']_routerVars
  <2> SUFFICES ASSUME TypeInv, [Next]_vars, ~ UNCHANGED routerVars,
                      NEW s \in Selectors, Dead(s)
               PROVE  Dead(s)'
    OBVIOUS
  <2>1. RouterNext
    BY OnlyOwnerCalls
  <2>2. verifiers[s] # UNSET
    BY EntriesDiffer DEF Dead, TypeInv
  <2> QED
    BY <2>1, <2>2 DEF Dead, RouterNext, AddVerifier, RemoveVerifier, Estop, TypeInv
<1> QED
  BY <1>1, TypesKept, PTL DEF Spec, DeadStaysDead

(* A publisher that has got past the encoding of its receipt has a seal    *)
(* with a selector.                                                        *)
SealInv ==
  /\ seal \in [Requests -> Selectors \cup {Unsupported}]
  /\ \A r \in Requests : status[r] \in {"proved", "filled"} => seal[r] \in Selectors
  /\ \A r \in pool : seal[r] \in Selectors

(* Every step keeps the seals.                                             *)
LEMMA SealStep ==
  ASSUME TypeInv, SettleInv, SealInv, [Next]_vars
  PROVE  SealInv'
<1> USE DEF TypeInv, SealInv
<1>1. CASE UNCHANGED vars
  BY <1>1 DEF vars, serverVars, senderVars
<1>2. CASE OwnerCalls
  BY <1>2 DEF OwnerCalls, serverVars
<1>3. ASSUME NEW r \in Requests, Mine(r) \/ ReceiptLost(r) PROVE SealInv'
  BY <1>3, Zenon DEF Mine, ReceiptLost, serverVars, Becomes
<1>4. ASSUME NEW r \in Requests, Progress(r) PROVE SealInv'
  <2> USE DEF Becomes, senderVars
  <2>1. CASE \E w \in Workers : Dispatch(r, w)
    BY <2>1, ZenonT(30) DEF Dispatch
  <2>2. CASE Handle(r)
    BY <2>2, ZenonT(30) DEF Handle
  <2>3. CASE Respond(r) \/ Collect(r) \/ QueryFails(r)
    BY <2>3 DEF Respond, Collect, QueryFails
  <2>4. CASE RetrieveVote(r) \/ RetrieveAllVotes(r) \/ AddVote(r) \/ DeleteVote(r)
    BY <2>4 DEF RetrieveVote, RetrieveAllVotes, AddVote, DeleteVote, Queried
  <2>5. ASSUME NEW receipt \in {"Fake", "Groth16", "Succinct"}, Prove(r, receipt)
        PROVE  SealInv'
    <3>1. EncodeSeal(receipt) \in Selectors \cup {Unsupported}
      BY SelectorTypes DEF EncodeSeal
    <3>2. r \notin pool
      BY <2>5 DEF SettleInv, Prove
    <3> QED
      BY <2>5, <3>1, <3>2 DEF Prove
  <2>6. CASE \E n \in {base, pending} : Fill(r, n)
    BY <2>6, ZenonT(30) DEF Fill
  <2>7. CASE EstimateReverts(r) \/ PublisherFails(r) \/ GetReceipt(r) \/ BroadcastRefused(r)
    BY <2>7 DEF EstimateReverts, PublisherFails, GetReceipt, BroadcastRefused
  <2>8. CASE Broadcast(r)
    BY <2>8 DEF Broadcast
  <2> QED
    BY <1>4, <2>1, <2>2, <2>3, <2>4, <2>5, <2>6, <2>7, <2>8 DEF Progress
<1> QED
  BY <1>1, <1>2, <1>3, <1>4 DEF Next

(* What has verified under a selector is its entry, or the entry has been  *)
(* removed since.                                                          *)
ServedInv ==
  /\ served \subseteq Selectors \X Implementations
  /\ \A x \in served : verifiers[x[1]] = x[2] \/ verifiers[x[1]] = TOMBSTONE
  /\ \A x, y \in served : x[1] = y[1] => x[2] = y[2]

(* Every step keeps what has verified.                                     *)
LEMMA ServedStep ==
  ASSUME TypeInv, SealInv, ServedInv, [Next]_vars
  PROVE  ServedInv'
<1>1. CASE UNCHANGED <<served, verifiers, paused>>
  BY <1>1 DEF ServedInv
<1>2. ASSUME NEW r \in Requests, Mine(r) PROVE ServedInv'
  <2>1. verifiers' = verifiers /\ seal[r] \in Selectors
    BY <1>2 DEF Mine, SealInv, routerVars
  <2>2. CASE Verifies(seal[r])
    <3>1. verifiers[seal[r]] \in Implementations
      BY <2>2 DEF Verifies
    <3>2. served' = served \cup {<<seal[r], verifiers[seal[r]]>>}
      BY <1>2, <2>2 DEF Mine
    <3>3. \A y \in served : y[1] = seal[r] => y[2] = verifiers[seal[r]]
      BY <3>1, EntriesDiffer, Zenon DEF ServedInv
    <3> QED
      BY <2>1, <3>1, <3>2, <3>3 DEF ServedInv
  <2>3. CASE ~Verifies(seal[r])
    BY <1>2, <2>1, <2>3 DEF Mine, ServedInv
  <2> QED
    BY <2>2, <2>3
<1>3. CASE OwnerCalls
  <2>1. served' = served
    BY <1>3 DEF OwnerCalls
  <2>2. \A x \in served : x[1] \in Selectors /\ x[2] \in Implementations
    BY ZenonT(30) DEF ServedInv
  <2>3. ASSUME NEW x \in served
        PROVE  verifiers'[x[1]] = x[2] \/ verifiers'[x[1]] = TOMBSTONE
    <3>1. verifiers[x[1]] # UNSET /\ (verifiers[x[1]] = x[2] \/ verifiers[x[1]] = TOMBSTONE)
      BY <2>2, EntriesDiffer DEF ServedInv
    <3> QED
      BY <1>3, <2>2, <3>1
         DEF OwnerCalls, RouterNext, AddVerifier, RemoveVerifier, Estop, TypeInv
  <2> QED
    BY <2>1, <2>3 DEF ServedInv
<1>4. ASSUME NEW r \in Requests, Progress(r) \/ ReceiptLost(r) PROVE ServedInv'
  BY <1>1, <1>4, RouterAlone
<1>5. CASE UNCHANGED vars
  BY <1>1, <1>5 DEF vars, senderVars, routerVars
<1> QED
  BY <1>1, <1>2, <1>3, <1>4, <1>5 DEF Next

(* Each selector maps to at most one implementation across time, as the    *)
(* comment on removeVerifier promises.                                     *)
THEOREM AlwaysOneVerifierPerSelector == Spec => []OneVerifierPerSelector
<1>1. Init => SettleInv /\ SealInv /\ ServedInv
  BY DEF Init, SettleInv, SealInv, ServedInv
<1>2. TypeInv /\ ServedInv => OneVerifierPerSelector
  <2> SUFFICES ASSUME TypeInv, ServedInv, NEW x \in served, NEW y \in served, x[1] = y[1]
               PROVE  x = y
    BY DEF OneVerifierPerSelector
  <2>1. x = <<x[1], x[2]>> /\ y = <<y[1], y[2]>> /\ x[2] = y[2]
    BY DEF ServedInv
  <2> QED
    BY <2>1
<1> QED
  BY <1>1, <1>2, SettleStep, SealStep, ServedStep, TypesKept, PTL DEF Spec
=============================================================================

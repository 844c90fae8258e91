# A TLA+ model of zkGovernance

zkGovernance lets the holders of a token vote in a DAO with zero-knowledge
proofs of their voting power. This directory models it in TLA+, model-checks
the model with TLC, and proves its main invariants with TLAPS.

## The system and its parts

| Part | Source | Module | State |
| --- | --- | --- | --- |
| Voting plugin | `contracts/RiscVotingProtocolPlugin.sol`, `contracts/MajorityVotingBase.sol`, `contracts/IMajorityVoting.sol` | `VotingPlugin`, abstractly `Ballots` | modelled |
| DAO (`DAO.execute`), blocks, gas, transaction pool | external | `VotingPlugin`, `ZkVoting`, `VoteServer` | as the code uses them |
| Steel commitment ids | `lib/risc0/steel/Steel.sol` | `VotingPlugin` | `decodeVersionedID` |
| Voting guest | `methods/guest/src/bin/voting_protocol.rs` | `Publisher` | modelled |
| Execution guest | `methods/guest/src/bin/execution_protocol.rs` | `Publisher` | modelled |
| Strategies, guest side | `strategies/src` | `Strategies` | modelled |
| Strategies, host side | `apps/src` | `Strategies` | modelled |
| Publishers | `apps/src/bin/*.rs` | `Publisher`, `ZkVoting`, `VoteServer` | modelled |
| Seal encoding | `lib/risc0/lib.rs` | `VoteServer` | selectors only |
| Vote server | `server/src/main.rs` | `VoteServer` | modelled |
| Verifier router, emergency stop | `lib/risc0/RiscZeroVerifier*.sol` | `VerifierRouter` | modelled |
| Test token | `contracts/ERC20.sol` | `Token` | modelled |
| Plugin setup | `contracts/RiscVotingProtocolPluginSetup.sol` | | not modelled |
| Groth16 verifier, mock verifier | `lib/risc0/groth16`, `contracts/mocks` | | not modelled |
| Deployment script, build glue, forge-std, tests | `script`, `methods/build.rs`, `lib/forge-std`, `tests` | | not modelled |

How they work together: a voter asks the server to vote. The server starts the
publisher, which reads the proposal's configuration and the voter's power at the
snapshot block through the host strategies, has the voting guest redo the same
computation in the RISC Zero zkVM with the guest strategies, and sends the
resulting journal and seal to `vote` of the plugin. The plugin compares the
journal with the proposal, has the verifier check the seal, and changes the
tally. Execution goes the same way through the execution publisher and the
execution guest to `execute`, which calls the DAO with the proposal's actions.

## VotingPlugin

`state` is the storage of the plugin (`votingSettings`, `proposals`,
`proposalCount`) together with what can be read off the events emitted so far:
`cast` (the power in each voter's latest `VoteCast`), `turnout` (the powers of
first votes added up) and `executions` (`Executed` events of the DAO). The last
three influence nothing; properties compare the storage with them. `block` and
`now` are `block.number` and `block.timestamp`.

A transaction runs alone, so a call that completes is one step and one that
reverts is none. `execute` is the exception. It marks the proposal and then
hands control to the DAO, which calls arbitrary contracts. `frames` is the stack
of `execute` calls in progress; each frame copies the actions it was started
with and keeps the state to restore if the call reverts (`base`) or if its
current action does (`checkpoint`).

| Action | Code |
| --- | --- |
| `Init` | `initialize` |
| `UpdateVotingSettings` | `updateVotingSettings`, `_updateVotingSettings` |
| `CreateProposal` | `createProposal`, `_validateProposalDates` |
| `Vote` | `vote` |
| `Execute` | `execute` and `_execute` up to the call of the DAO |
| `ActionSucceeds`, `ActionFailureAllowed`, `ActionFailureReverts`, `ExecuteReturns` | `DAO.execute` (external) |
| `OutOfGas`, `Mine` | the chain (external) |

A caller is a new transaction or the action an `execute` call is at, so every
entry point can be re-entered. The permission checks (`auth`) are code of OSx;
the model lets any call be one from a caller that has the permission.

The zero-knowledge proof is the relation `Attested(image, journal)`: whether a
seal exists that a verifier accepts. The proofs assume of it only that the
voting guest asserts its direction to be 1, 2 or 3 and its balance positive.
A journal is taken as `abi.decode` returns it; its words are modelled in
`Publisher`.
`minProposerVotingPower` is stored and never read, and is left out; so are
metadata, and the contents of actions, of which only their number matters.

Definitions that no action uses and that stand before another definition with
the same parameters (`MatchesAnyBlock` before `JournalMatches`, for instance)
are variants with a mistake put in. TLC finds the property that `PROJECT.json`
pairs them with violated when they take the place of the definition.

### Ballots: what the plugin promises

`Ballots` is the plugin as somebody sees it who looks only between transactions:
how many proposals there are, who has voted for what, how much power has taken
part, which proposals are marked, and how often each was carried out. A
transaction is one step. It loses nobody's ballot, adds power only with new
voters, carries a proposal out at most once, marks it exactly then, and touches
nothing that has not been created.

`VotingPlugin` implements it (`ImplementsBallots`). The refinement mapping reads
everything from `Committed`: the state the outermost `execute` started from while
a call is in progress, and `state` otherwise. The steps within a transaction are
therefore stutters, and the last one, at which the whole nest of calls takes
effect or is undone, is the step of `Ballots`.

## Strategies and Publisher

`Strategies` holds the computations that the guests and the publishers share, as
operators. The code exists twice, in `strategies/src` for the guests and in
`apps/src` for the host; operators take a `side`, and what differs has one
definition for each. An asset is the entry of the configuration together with
the answers of the chain at the block the environment is built for: the
functions its token has, balances, past votes, supply, and the delegations in
the registry. Token and registry are external here. Words wrap at `WORD`, and
every panic, error and failed assertion is the value `Failed`, since all of them
end the program without a result.

| Operator | Code |
| --- | --- |
| `BalanceOf`, `BalanceOfSupply`, `GetPastVotes`, `PastSupply` | the voting power strategies |
| `GuestTimepoint`, `HostTimepoint` | `header().number` in the guest, its parent on the host |
| `GuestStrategies`, `HostStrategies` | the tables of `Context` and `HostContext` |
| `VotingPower`, `GetSupply`, `ExecutionPasses` | the look-ups in them |
| `GuestRatio`, `HostRatio`, `Share`, `AssetPower` | `SplitDelegation.process`, and the division by the ratio in the mains |
| `TotalVotingPower`, `TotalSupply` | the sums over the assets |
| `ProofExecution` | `MajorityVoting.proof_execution` |

`Publisher` is one run of a publisher, of a vote or of an execution.

| Action | Code |
| --- | --- |
| `Init` | the arguments |
| `Preflight`, `PreflightFails` | `main` up to the computation and assertion on the host, and testing mode |
| `Prove`, `ProveFails` | writing the input, `prove_with_ctx`, the guest's `main` |
| `Send` | decoding the journal, sending, waiting for the receipt |
| `RpcFails` | any failing call of the node |

The guest's input is the sequence of the types written and read. A guest that
reads another type than was written fails. Journals are sequences of words with
their kind, as ABI encoding lays them out. What the guest commits
(`VotingJournal`, `ExecutionJournal`), what the publisher decodes
(`HostDecodes`) and what the plugin decodes (`PluginDecoded`) are separate
definitions, as they are in the code. The recovery of the signer is modelled as
far as it can fail (`SignerRecovered`). The comparison of the voter with the
signer is commented out in the guest and therefore not in the model. Host and
guest read the chain at the same fixed block, so no step of the chain comes
between them; `config.parses` is false where the proposal did not exist at the
block.

## ZkVoting: publisher, token and plugin together

`ZkVoting` extends `Publisher` with the chain it reads. `chain[n]` is the state
after block `n`: the token (`Token`, all functions of `ERC20.sol` that change
state), the registry of delegations, and which proposals exist. Several
publishers run one after another while tokens and delegations move (`UseToken`,
`Delegate`), proposals are created (`CreateProposal`) and blocks are mined
(`MineBlock`). `Start` reads the configuration at the requested block
(`ConfigAt`). `SendVote` is counted only if the plugin accepts the journal
(`Accepts`: plugin, digest and snapshot block), and may be refused all the same.
The asset of the configuration is the repository's own token, which has
`balanceOf` but not the function `getTotalSupply` that the strategy asks for.

Two passing properties state what follows from the code as it is, and would have
to be turned round if it is changed:

* `NoVoteCounted`. `createProposal` takes the block before its own as the
  snapshot. The guest reads `votingProtocolConfig(proposal_id)` at the block it
  commits to. At the snapshot block the proposal does not exist and the
  configuration is the empty string, which does not parse; at any later block
  the plugin refuses the commitment.
* `NoExecutionProved` (of `Publisher`). `execution_publisher.rs:165` writes
  `config_contract` before `tally`, and `execution_protocol.rs:38` reads them the
  other way round.

## VerifierRouter and VoteServer

`VerifierRouter` has the entry of every selector, with `UNSET` and `TOMBSTONE`,
and the set of stopped verifiers. `AddVerifier`, `RemoveVerifier` and `Estop` are
the functions of the same names; both overloads of `estop` pause what is not
paused. `Verifies` is `verify` as far as the router and the emergency stop
decide.

`VoteServer` extends it with the server, its table, and the publisher processes.
A request is waiting, assigned to a worker, and then either in a query or in
front of a publisher. A query gives the thread back at its `await`, so other
handlers of the worker run between the query and the answer. `proof_vote` calls
`Command::output`, which blocks the thread: `Held(w)`. Publishers run in
parallel on different workers but send from one account.

| Action | Code |
| --- | --- |
| `Handle` | the beginning of a handler; `proof_vote` slices the signature |
| `RetrieveVote`, `RetrieveAllVotes`, `AddVote`, `DeleteVote` | the queries |
| `QueryFails`, `Respond` | errors of the database; bad request, or the panic of `delete_vote` |
| `Collect` | `proof_vote` after the publisher has exited: `Ok`, whatever its status |
| `Prove`, `PublisherFails` | the publisher up to the seal (`EncodeSeal`) |
| `Fill`, `EstimateReverts` | `send`: gas estimate and nonce |
| `Broadcast`, `BroadcastRefused`, `Mine` | the node and the chain (external) |
| `GetReceipt`, `ReceiptLost` | `get_receipt` |
| `Dispatch`, `OwnerCalls` | actix-web; owner of the router and guardian (external) |

The node's answer to the question for the nonce may or may not count its pool;
both are allowed. A transaction stays in the pool until it is mined or replaced
by one with the same nonce.

## Runs

`MCVotingPlugin` supplies two voters with three tokens, one of which moves from
one voter to the other in block 1, the journals that can be proved of them, and
journals that should get nowhere: for another plugin, for another block, with
more power than anyone has, and with the zero commitment of an unused record.

| Run | Checks | Result |
| --- | --- | --- |
| `votes` | `TallyIsLatestVotes`, `TurnoutWithinSupply`, `UnknownProposalsEmpty`, `ProposalsClose` | hold |
| `reentrancy` | `ExecutedAtMostOnce`, `ExecutedOnProof`, `ParametersFrozen`, `ImplementsBallots` | hold |
| `settings` | `TypeOK`, `CountedVotesProved`, `WindowsRespectSettings`, `TurnoutIsFirstVotes` | hold |
| `balances` | `PreflightPredictsGuest`, `PublishedPowerIsDelegated`, `SentJournalIsRequest`, `NoExecutionProved`, `EvenSplitsConserve`, `MajorityExact` | hold |
| `server` | `AnsweredIsSettled`, `OnePublisherPerWorker`, `NoNonceGap`, `OneVerifierPerSelector`, `DeletedStaysDeleted`, `DeadStaysDead`, `EveryRequestAnswered` | hold |
| `round_trip` | `NoVoteCounted`, `NoPowerTwice`, `TokenSupplyIsSum` | hold |
| `latest_vote` | `TallyIsLatestVotes` | violated |
| `can_vote` | `VotesRespectCanVote` | violated |
| `execution_window` | `ExecutionAfterVote` | violated |
| `past_votes` | `PreflightPredictsGuest` | violated |
| `attested_power` | `AttestedPowerIsDelegated` | violated |
| `splits` | `SplitsConserve` | violated |

In `votes` a voter's power is the balance at the snapshot, so it is the same in
all proofs for one proposal. `TurnoutWithinSupply` is about the plugin under
that condition: it counts nobody at two blocks. What powers the guest really
proves is a question for `Strategies`. In `settings` and `latest_vote` a
voter can also be proved with one delegated token more, since the voter chooses
which delegations to list.

`server` shows that requests are answered, with one exception that the property
spells out: when two publishers take the same nonce and the node replaces the
transaction of the first, that publisher waits for a receipt that never comes,
and its worker with it. `NoNonceGap` shows that the shared account does not
stall all the same: no number is ever left out. `NoPowerTwice` is about lists that
name no account twice (`ListsNameOnce`; the code does not check for repetitions)
and about accounts that have one delegate each, at first themselves.

The violated properties are disagreements between the code and its
documentation:

* `latest_vote`: a revote subtracts the new power from the old option
  (`RiscVotingProtocolPlugin.sol:156-163`), so part of an earlier vote stays in
  the tally when the powers differ. `MajorityVotingBase.sol:69` says that only
  the latest vote option is tallied.
* `can_vote`: `vote` never consults `_canVote`. `IMajorityVoting.sol:43` and
  `MajorityVotingBase.sol:130` say when voting is possible.
* `execution_window`: `_canExecute` only refuses proposals that are open, and a
  proposal before its start is not. `MajorityVotingBase.sol:53` speaks of the
  time after the vote is closed.
* `past_votes`: the guest asks a token for the votes at the block itself, the
  host for those at its parent. A token that answers for past blocks only fails
  the guest after the host's preflight has passed. `README.md:19` of the
  repository says that the strategies must be replicated.
* `attested_power`: the guest takes ratio 1 for any listed account that gave no
  delegations (`strategies/src/delegation_strategies/split_delegation.rs:57`),
  where `voting_protocol.rs:165` speaks of accounts whose power is delegated to
  the voter. `PublishedPowerIsDelegated` holds for journals that come through
  the publisher, but only because the host panics for such an account: it prints
  `delegations[0]` before it tests for an empty list
  (`apps/src/delegation_strategies/split_delegation.rs:110`).
* `splits`: `power / (total_ratios / ratio)` rounds the divisor down. With ratios
  2 and 1 the delegates of one account are counted with more than it holds,
  where `MajorityVotingBase.sol:30` has participation at most 1.
  `EvenSplitsConserve` is the case in which the divisors are exact.

### Bounds

`MaxProposals` is 1 or 2. Two are needed for a nested execution of another
proposal and for snapshots at different blocks; properties relate a proposal to
itself, the stack or the settings, never three proposals. The id `MaxProposals`
is never created and stands for all unused ids. `MaxBlock` up to 5 and `MaxTime`
up to 6 leave room for a proposal before its start, while open and after its end.
`MaxCalls` bounds the calls made back into the plugin in one transaction (the
gas); two let the inner call be re-entered as well. `MAX_UINT64` is set close to
`MaxTime`, so that dates reach the largest one. Deadlock is checked in these
runs: no call in progress gets stuck.

In the publisher's runs two accounts hold 5 and 2 tokens. The delegations include
none, one, equal, dividing and other ratios, a zero ratio, a delegate named twice
and ratios that add up to more than `WORD`, 16. Tallies go up to 4 each and
supplies up to 8, so that both halves are rounded in both ways. A publisher ends,
so deadlock is not checked.

In `server` three requests run on two workers. Two publishers are needed for a
conflict of nonces, on one worker and on two, and a third request for one that
waits behind them. Each workload fixes the handlers and how many calls the owner
of the router makes: up to three, enough to add, remove and add again. A server
whose clients are served has nothing left to do, so deadlock is not checked.

In `round_trip` two accounts hold 2 and 1 tokens, `MaxCalls` transfers, mints or
delegations change that over `MaxBlock` blocks, and `MaxProved` votes are proved.
Two of each let a token be proved, move, and be tried again for the other
account. `WORD` is 6, so that the supply reaches its largest value. The model
stops when the bounds are used up, so deadlock is not checked.

### Fairness

`FairSpec` of `VotingPlugin` has strong fairness of `Mine` and weak fairness of the DAO's steps: a
transaction that has started ends, since it has finite gas, and blocks keep
coming however many transactions are submitted, since the gas limit closes a
block. `Mine` needs strong fairness because a transaction in progress disables
it. Nobody is assumed to vote, propose or execute.

`FairSpec` of `VoteServer` has weak fairness of the steps of each request and of
mining each transaction in the pool: threads, database and publisher processes
keep running, and a transaction that can be mined stays minable until it is
mined or replaced. Only the steps of one request taken together are fair, not
each way it can go on, so failures remain possible and are never forced. Losing
the connection while waiting for a receipt (`ReceiptLost`) has no fairness:
nothing makes it happen.

## Proofs

`VotingPluginProofs` proves, for any number of proposals, voters, blocks,
journals and nested calls:

* `TypeCorrect`, `CountedVotesAlwaysProved`, `ExecutedAlwaysOnProof`,
  `UnknownProposalsStayEmpty`, `WindowsAlwaysValid`, `TurnoutAlwaysKept`.

None of the invariants is inductive as it stands, because a failing action puts
an old state back. The inductive invariant `SoundInv` says that the current
state and both saved states of every frame are well typed and satisfy all five
conditions (`Sound`). Each entry point is then shown once to take a sound state
to a sound state, and each step of the DAO picks one of the saved states.
`WindowsValid` compares a snapshot with the current block, which only grows.

`VotingPluginReentrancyProofs` goes on to the two results about the stack:

* `AlwaysExecutedAtMostOnce`. What has to hold of a saved state is that
  executions match the marks *given the frames that will be in progress when it
  is restored*: the frames below for `base`, those and the frame itself for
  `checkpoint` (`Settled`, `OnceInv`). A proposal that is running is marked, so
  `_canExecute` refuses it, so no proposal is on the stack twice.
* `ParametersAlwaysFrozen`. The saved states form a chain: each later one agrees
  with the earlier ones about every proposal that exists in both (`Grown`,
  `ChainInv`). Restoring any of them therefore changes no existing proposal.

`VotingPluginRefinementProofs` proves `AlwaysImplementsBallots`, that is
`Spec => Public!Spec`. The initial state is one of `Ballots`. For a step, it is
shown of each saved state, relative to the state the transaction started from,
that it lies ahead of it: every ballot still there, power grown only with new
voters, executions at most one. A step within a transaction leaves `Committed`
alone; the one that ends it moves `Committed` to a state that lies ahead.

`VotingPluginTallyProofs` proves, for any number of voters and of replaced votes:

* `TallyAlwaysLatest`: every tally is the sum of the latest votes. The hypothesis
  `PowersFixed(power)` says that the guests in use prove one power for each voter
  and block; without it the run `latest_vote` refutes the property. The inductive
  invariant `CountInv` says it of the current and of all saved states, and that
  every proposal has the image of some settings. A vote moves one voter from one
  sum to another (`SumUpdate`); since the old vote was proved for the same block
  and so with the same power, what the plugin subtracts is what it had added.
* `TurnoutAlwaysWithinSupply`, with the further hypothesis that the powers of a
  block add up to at most the supply at it. The three tallies are sums over
  disjoint sets of voters, all at the snapshot block.

The instance of the runs satisfies the hypotheses: TLC evaluates this as the
assumption `HeldPowersFixed` of `MCVotingPlugin`.

`FiniteSums` has the lemmas about sums over finite sets that these and the
following proofs use: removing and changing an element, unions, bounds,
reindexing, and summing group by group. The induction theorems of the library
cannot be used here, so every one of these inductions takes a subset that
violates the claim and has no smaller one that does (`SmallestSubset`, from the
well-foundedness of strict inclusion), and removes an element from it.

`PublisherProofs` is about words of any width and any configurations, requests
and balances:

* `MajorityDecidesExactly`: `MajorityVoting` passes a proposal if and only if
  twice the votes exceed the supply and yes exceeds no, although it compares with
  halves that are rounded down; `MajorityAlwaysExact` carries this over to the
  preflight of an execution.
* `PreflightAlwaysPredicts`: if no asset counts past votes, a vote that passed the
  preflight is proved. A sum is a result only if all its terms are, so the host
  got every share; an account from which it got one gave delegations, and then
  the two copies of `SplitDelegation` agree; equal terms have equal sums.
* `PublishedPowerAlwaysDelegated`, along the same lines.
* `SentJournalAlwaysRequest`: the words the guest commits decode to the request.
* `NoExecutionEverProved`: the written and the read order differ, so the guest
  accepts no execution.
* `ExactDivisorsConserve`: a divisor that is exact gives one delegate at most its
  part. `EvenSplitsAlwaysConserve` adds this up over all delegates: the sum of
  shares times the sum of ratios is at most the power times the sum of ratios.
* `WordsWrapOnce`: adding words one after the other, wrapping around each time,
  gives the exact sum modulo the word.

The inductive invariant `PhaseInv` ties each phase to what host and guest
accepted. The assumptions are `WordAssumption`, `RequestTypes` and
`ConfigTypes`, which give balances, supplies, ratios and lists their types.

`ZkVotingProofs` proves `NeverVoteCounted` for any token amounts, proposals and
number of blocks. The inductive invariant has two parts. `ChainInv`: a proposal's
snapshot block is one at which it did not exist, in all recorded states of the
chain. `ReadInv`: a publisher past its preflight holds a configuration that
parsed, and then its proposal existed at the block of the request. The journal
repeats the request (from `PublisherProofs`), so `Accepts` is false.

Two more of its theorems are about the token:

* `TokenSupplyAlwaysSum`: a transfer changes two balances, or one when it goes to
  the sender itself, and leaves the sum alone (`MovedKeepsSum`).
* `PowerNeverTwice`, under `ListsNameOnce`. The inductive invariant `PowerInv`
  says that all recorded states are sound (`SoundState`: the supply is the sum of
  the balances, every account has one delegate), that a running publisher
  computes with the state recorded for its block, and that every proved power is
  at most what the accounts that had chosen the voter at that block held
  (`Entrusted`). Each account is in one voter's group, so the sum over the voters
  is at most the sum of the balances (`SumGroups`).

`TokenTypes` gives the initial balances and amounts their types, and
`SomeListsNameOnce` of `MCZkVoting` shows the requests of the run to be of the
kind the theorem is about.

`VoteServerProofs` is about any number of requests, workers, selectors and
verifiers:

* `AlwaysOnePublisherPerWorker`, `DeletedAlwaysDeleted` (identifiers in the table
  and deleted ones are all below the next one) and `AnsweredAlwaysSettled` (what
  is in the pool was sent, and is mined before the publisher exits).
* `NeverNonceGap`. The invariant adds that a nonce taken and not yet sent is at
  most `pending`, so sending it fills a place that is taken or the next one.
* `DeadAlwaysDead`, and `AlwaysOneVerifierPerSelector`, which needs that an entry
  that has verified is still there or is a tombstone.

The assumptions are those of the modules (`EntriesDiffer`, `SelectorTypes`,
`WorkerTypes`, `WorkloadTypes`, `ProposalIds`).

The assumptions about the plugin are `ConstantTypes`, `GuestAsserts` and
`VotersFinite` of `VotingPlugin`. TLC evaluates all assumptions in the runs.

### Only model-checked

`ProposalsClose` and `EveryRequestAnswered` are liveness under fairness, out of
the prover's reach. Every other property of a passing run is also a theorem; those
of the violation runs are false, and TLC's counterexamples are what is known.

## Not modelled

* The plugin setup deploys and initializes a proxy and returns fixed lists of
  permissions. It has no state; granting and revoking, and comparing the helpers
  of an installation with those of an uninstallation, is done by the setup
  processor of OSx, which is not in the repository.
* Permissions, proxies and upgrades are code of OSx. Any caller may have the
  permission.
* The Groth16 verifier and the mock: pairings and hashes, without state. They
  stand behind `Attested` and `Verifies`. The same holds for Keccak and the
  curve arithmetic of the guest.
* `validateCommitment` of Steel, which the plugin does not call.
* The columns of the table of votes other than the key, logging, CORS, and the
  parsing of arguments, which appear as failures.
* The deployment script, build scripts, generated code, forge-std and the tests.

# A TLA+ verification of the Tendermint node

This directory holds TLA+ specifications of the code under `src/`, the TLC
configurations that check them on small instances, and TLAPS proofs of the
results that matter most. `PROJECT.json` lists for every definition the source
lines it models, for every run its properties, and for every property a
mutation of the code that it catches.

## The system

A node runs these parts, mostly one goroutine or a few each:

- **Consensus** (`internal/consensus/state.go`) decides one block per height. One
  goroutine, `receiveRoutine`, takes votes, proposals and block parts from peers,
  its own messages from an internal queue, and timeouts from the ticker. It
  counts votes in a **height vote set** (one **vote set** per round and type) and
  signs with the **private validator**, which must never sign two different
  messages for one height, round and step.
- The **commit sequence** (`finalizeCommit`, `ApplyBlock`, `Commit`) writes the block
  to the **block store**, an end-height marker to the **write-ahead log**, the
  application's responses and the new state to the **state store**, and commits the
  application, in that order and not atomically. After a crash the **handshake**
  brings them together again. Pruning and rollback change the same stores.
- The **mempool** and the **evidence pool** feed the next block. Both are filled by
  peers and RPC requests while consensus commits.
- **Reactors** move votes, parts, transactions, evidence, blocks and snapshots
  between peers, over the **router**, the **peer manager** and multiplexed
  connections. **Block sync** and **state sync** bring a new node up to date.
- The **light client** verifies headers without running a node; state sync takes the
  app hash and the state of a snapshot from it. ABCI clients, the RPC server, the
  event bus and the indexer surround all this.

### Inventory

State, operations, interactions and hard behaviours of each part, and what makes
it correct. The list of all parts with sources is in `PROJECT.json`.

| Part | State | Operations | What is hard | What makes it correct |
|---|---|---|---|---|
| Private validator | last sign state in memory and file | sign vote, sign proposal, save, restart | crash between memory, file and answer; a failing save | one message per height/round/step, ever |
| Vote set | votes, per-block sums, majority, peer claims | `addVote`, `SetPeerMaj23` | conflicting votes and claims in any order | exact sums, a majority that its votes prove, bounded memory |
| Height vote set | vote sets per round, catchup rounds per peer | `AddVote`, `SetRound`, `SetPeerMaj23` | rounds opened by peers before they are entered | no counted vote is lost, two extra rounds per peer |
| Timeout ticker | one timer, ticks, tocks | schedule, fire | one timer for all steps, unordered delivery | a step that waits is woken |
| Consensus state | round state, locks, valid block, internal queue | every handler of `receiveRoutine` | own messages overtaken, stale rounds, nested state functions | locking rules, votes in order, commit with quorum, no panic, progress |
| Block and state store | heights held; validators and params by height, mostly as references | save, load, prune in batches, delete latest | crash in mid-pruning, references to pruned sets | what is offered can be loaded |
| Handshake | heights of application, state, store | replay decisions | every combination a crash leaves | heights meet, each block executed once |
| Rollback | state, block store | soft, hard | rewrites history records | history is as it was |
| Mempool | store, queue, lists, cache, notification | `CheckTx`, evict, reap, `Update`, remove | read-locked callers interleave inside insertion and removal | structures agree, no stale transaction, notification per height |
| Evidence pool | pending and committed store, list, size, buffer | add, check, report, update, start | added while committed, late votes, expiry | reports become evidence, once |
| Write-ahead log | records, group files | write, flush, rotate, search, replay | loss of unflushed records, torn tail | replay reproduces what was signed |
| Consensus reactor | what each peer has | gossip routines, vote claims | belief about a peer diverges from the peer | the peer gets what it lacks |
| Block sync | requesters, peers, heights | request, receive, redo, ban, switch | timeouts racing answers, peers that vanish | blocks applied in order, once, progress |
| State sync | snapshots, chunk queue, backfill queue | offer, fetch, retry, reject | late and duplicate chunks | chunks applied in order, a rejected snapshot stays rejected |
| Peer manager and router | peer store, dialing, connected, ready, evicting | dial, accept, ready, disconnected, evict, upgrade | concurrent dial and accept, capacity limits | limits hold, each connection is released |
| Light client | trusted store, primary, witnesses, blacklist | verify by skipping or backwards, detect, prune, replace and add providers | faulty primary, replacement in mid-verification, order of witnesses' answers | stored headers are verified from a trusted one, and one correct provider is enough |

## Modules

| Module | Code | Content |
|---|---|---|
| `FilePV` | `privval/file.go` | signing in three steps (check and sign, save, return), crash and reload |
| `RemoteSigner` | `privval/signer_*.go`, `retry_signer_client.go` | a node that signs with its own `FilePV` or over a connection: client, pings, endpoints, server |
| `TendermintVoting` | abstract | the voting rules of one height for all validators, faulty ones arbitrary |
| `VoteSet`, `HeightVoteSet` | `types/vote_set.go`, `consensus/types/height_vote_set.go` | vote sets as values, operators named as the methods |
| `HeightVoteSetMachine` | the same | votes and claims in any order, as a specification of its own |
| `TimeoutTicker` | `consensus/ticker.go` | the single timer and the elapsed timeouts on their way |
| `ConsensusState` | `consensus/state.go` | one validator against an open environment |
| `ValidatorSet` | `types/validator_set.go` | priorities, proposer election and changes of a set, with their integer arithmetic, as values |
| `ProposerSelection` | `state.go`, `internal/state` | the ways by which rounds, heights and the state store reach a set |
| `BlockStore`, `StateStore` | `internal/store/store.go`, `internal/state/store.go` | the stores as values |
| `WAL` | `consensus/wal.go`, `libs/autofile/group.go` | the write-ahead log as a value: buffer, files, markers, cut records, search and repair |
| `Recovery` | `consensus/replay.go`, `state/execution.go`, `state/rollback.go`, `state.go` | commit, crash, handshake, replay of the WAL, pruning, rollback |
| `Mempool` | `internal/mempool` | the mempool under concurrent callers |
| `EvidencePool` | `internal/evidence` | the evidence pool |
| `Pools` | `state/execution.go` | both pools under the block executor |
| `BlockSync` | `internal/blocksync` | the pool with its requesters and peers, `poolRoutine`, the switch to consensus and back |
| `StateSync` | `internal/statesync` | snapshots, chunk queue, fetchers, the answers of the application |
| `Backfill` | `statesync/reactor.go`, `block_queue.go`, `dispatcher.go` | headers below the snapshot: queue, workers, late answers, verifier |
| `LightClient` | `light/client.go`, `verifier.go`, `detector.go`, `store/db` | a light client and its providers on a chain, a fork of it and forged blocks |
| `NodeSync` | the reactors, `light/stateprovider.go` | light client, state sync, backfill and block sync of one node together |
| `ChainFollower` | abstract | what catching up promises |
| `Gossip` | `consensus/reactor.go`, `peer_state.go` | three gossip routines, what we believe of a peer, and the peer |
| `PeerManager` | `p2p/peermanager.go` | the life cycle of peers as a value |
| `Router` | `p2p/router.go` | dial, accept, evict and error loops and the goroutine of each connection, over `PeerManager` |
| `VoteSetInvariant` | | what a vote set keeps, and the laws of vote sets the other proofs use |
| `FilePVProofs` | | theorems about `FilePV` and `RemoteSigner` |
| `TendermintVotingProofs`, `VoteSetProofs`, `HeightVoteSetProofs` | | theorems about these parts |
| `ConsensusStateProofs`, `ConsensusTheorems` | | the invariant of `ConsensusState`: rounds, locks, commits and proposals; votes, timeouts, steps and theorems |
| `NodeSyncProofs` | | theorems about `StateSync`, `Backfill`, `BlockSync` and their composition |
| `RouterProofs` | | theorems about `PeerManager` and `Router` |
| `MC...` | | constants and loads for TLC |

A function of the Go code that runs to completion under a lock, or inside a step
of one goroutine, is an operator from a value to a value and calls the others as
the code does: `enterPropose`, `addVote`, `TryDialNext`, `SearchForEndHeight` keep
their names. An action is one message, timeout or call with everything it does.
Where other goroutines see intermediate states, or a crash may come in between,
the code is cut into several actions exactly there:

- `FilePV` at the file swap and the return; `RemoteSigner` at each read and write of a
  connection and where `instanceMtx` is released; `Recovery` at each durable write;
- `Mempool` at each change of a shared structure under the read lock (store, priority
  queue, expiry lists, gossip list, sender, size: one step each); `EvidencePool` at
  verify, save, count and push;
- `BlockSync` between looking at two blocks, and popping or requesting them again;
  a requester between picking a peer, sending, and reading a redo;
- `LightClient` at each call of a provider by the client itself, where the provider may
  be replaced; the loop of `verifySkipping` is one step, checked against `Reached`, the
  blocks to which any path of verified blocks leads;
- `Gossip` between picking what to send, sending it, and noting it as sent, since
  messages of the peer change the same `PeerState` in between;
- `Router` between `Accepted` or `Dialed`, `Ready`, registering the queue, closing it
  and `Disconnected`, since all of these take the locks anew, and between a reactor's
  judgement of a peer and the error loop's call of `Errored`.

A panic is a flag or a place in the code, not a missing transition.

Peers, the application and the operating system are the environment. In
`ConsensusState` any vote of another validator, proposal, block part or claim may
come at any time, so its properties hold whatever the others do. In `Gossip` the
peer follows the protocol, since the question is whether it gets what it lacks; in
`NodeSync` peers may be faulty, vanish, stall and answer late. Signatures and hashes
are perfect: a signature is the message it covers, a block is its name.

### How they fit together

`ConsensusState` is one node; agreement is about all of them. The link is
assume-guarantee: `consensus_rounds` and `consensus_heights` check, and the theorems of
`ConsensusTheorems` show for every instance, that one node, in an arbitrary environment, keeps four local rules (one vote per round and type,
precommits with a polka, justified prevotes, commits with a quorum), and the
theorem `LocalRulesSuffice` says that any votes and decisions which keep these
rules agree. That the rule "one vote" survives a crash is what `FilePV` is about, and
`RemoteSigner` that it survives lost and late answers.
That the lock survives it too, which the other rules need, is `SignedIsReplayed` of
`Recovery`: what a node had handled when it signed is what it handles again first.

`Recovery` is a composition of the two stores, the WAL, the application and the
commit sequence. What precedes a proposal is `Pools`, a composition of both pools
with the executor. `NodeSync` composes the light client and the three ways of catching
up, and implements `ChainFollower`: under the mapping `Follower`, every step is a restore, the
execution of the next block, a hand-over, or a stutter. `Router` composes the
manager with the loops that call it. `ProposerSelection` says when the counter that
`StateStore` keeps instead of priorities is exact: as long as priorities are never
rescaled between a stored set and the height that is loaded.

## Runs

| Run | Instance | Shows |
|---|---|---|
| `filepv` | 1 height, 2 rounds, 2 blocks, 2 timestamps, any number of crashes; and a remote signer with 2 calls of 2 attempts, a ping, 3 connections, 2 faults | no double sign, persist before release, a remote answer is for what was asked |
| `voting` | 4 validators, 1 faulty, 2 blocks, 2 rounds | agreement, a commit excludes later polkas |
| `vote_sets` | 3 validators of power 1, 1, 2; 2 blocks, 2 peers, one round with all votes and claims, and six rounds with one voter | provable majorities, bounded memory, no vote is lost, claimed ones count |
| `consensus_rounds` | 1 height, up to 3 rounds, five configurations | locking rules, votes once and in order, no check of a state function on its own state fails |
| `consensus_heights` | 2 heights; late precommits with failing `ApplyBlock`, and an equivocator with claims | commits with quorum, fetching the committed block, exact evidence |
| `consensus_live` | 1 and 2 heights under fairness | timed steps end, own votes are counted |
| `recovery` | 8 chains: 4 of 4 blocks with changes, pruning and rollback (soft and hard), 2 of 2 blocks with messages and up to 3 WAL files, one with an empty response, one that starts at height 3; 2 crashes, batches of one key, checkpoint every 3 heights | the handshake recovers except in three named places, each block is executed once and in order, history can be loaded, what led to a signature is replayed, the chain goes on |
| `pools` | 3 transactions, 3 conflicts, 3 blocks, six loads | no stale transaction, agreeing indexes, notification, no lost or uncounted report |
| `sync` | 2 peers, up to 4 heights, nine loads: faulty, vanishing and late peers, two snapshots, backfill with 2 workers, all three in turn; light clients with 3 providers on 6 heights: every triple of seven servers that forge, miss and refuse blocks, with the root at either end, forks with early and late times, expired headers, peers that come and go, calls that time out | refinement of `ChainFollower`, the restored chunks are the queue's, linked history, no lost or doubled height, trusted headers are verified |
| `gossip` | 2 validators, 2 parts, nine loads: peer two heights behind, equivocation, the same height, a commit, a round change or a change of the peer's block while sending; in three of them any one message is lost | a peer that lags catches up from us alone, and what we take it to have it has, except after named events |
| `peers` | 3 peers, 3 connections, eight loads: upgrades, inbound, crossing, a full store with jitter, persistent peers with four kinds of options and networks | slots match goroutines, overflow is paid by evictions, persistent peers are dialed again unless the options or the network have them deleted |
| `proposers` | 3 validators, 3 changes of powers from {0, 1, 2, 8, 29, 100} with up to 2 quiet heights after each, integers up to 255 | exact priorities, fair share, all paths lead to the same proposer |

**Bounds.** Every bound is a constant or a field of a configuration or load, used
in a guard: heights, rounds, votes of others per height (`PeerVotes`), own messages
that others may overtake (`Backlog`), crashes, wrapped transactions (`MaxWraps`),
messages in flight (`Cap`, `MaxInFlight`), and budgets of what goes wrong (`losses`,
`turmoil`, `upset`, `hiccups`, `failures`, `errors`, `MaxFaults`). Three rounds are the least in
which a lock is taken, another block gets a polka and a later proposal cites it. Two
crashes are the least in which a crash hits the recovery from a crash, here also
the repair of the WAL. Four heights with a checkpoint every three put a reference
below, on and above a checkpoint, and a batch of one key cuts pruning everywhere.
Two callers and three transactions over a space for two make evictions collide with
insertions and with each other. Two requesters over three heights are the least in
which a redo meets the request of the next height; two workers make answers to
backfill overtake each other. Six light blocks whose validators change so that none
vouches for one three heights above make skipping fall back to a pivot and to cached
blocks; `pruningSize = 3` (1000 in the code) makes the store drop a block, and `maxProviders` is the code's.
Three connections let two follow each other while a
third peer waits for the slot. `MaxInt64 = 255` makes the limit on the total power 31: powers
of 29, 1 and 1 meet it, 29 and 8 exceed it and are refused, 100 is refused by itself,
and a validator of 29 that takes the place of another counts before the other goes.
No priority comes near 255, which is what a limit of an eighth is for and what
`PrioritiesAreExact` says.  Two quiet heights make `LoadValidators` take two increments
at once where the chain took them one by one. Configurations
and loads chosen in `Init` keep the product of all options out of one state space;
each covers a combination in which options interact.

**Deadlock.** The `vote_sets` and `pools` runs check it. The others end when
a bound is used up, when the node has halted or caught up, or when no peer has
anything left to say; progress is checked by `WaitsEnd`, `OwnVotesCounted`,
`ChainGoesOn`, `PeerCatchesUp` and `PersistentRedialed`.

**Fairness.** `consensus_live` assumes weak fairness of the receive routine for own
messages and for elapsed timeouts, and that an armed timer fires. Go's `select`
picks among ready cases at random, so a case that stays ready is taken. Nothing
is assumed of peers. `ChainGoesOn` assumes that the node is restarted and that its
code goes on between crashes, which are bounded. `PeerCatchesUp` assumes that the
three gossip goroutines run, that the router delivers what it does not drop (`losses`
bounds what it drops, which may be any message of any channel), and, as the part to send is picked at random, that each part is picked
in the end (strong fairness). `PersistentRedialed` assumes that the dial loop and
connection goroutines run, that a dial ends and that a timer fires; not that a dial
succeeds. Some of these are written as `[]<>idle \/ []<><<step>>`, which is weak
fairness with the negation of ENABLED spelled out for TLC.

## Proofs

Every theorem holds for all values of the constants under the named assumptions of
the modules: validators are a finite set with positive powers, `None` and `Nil` are no
blocks, rounds go up to an arbitrary `MaxRound` and each peer may open `MaxCatchup`
rounds; requests to a signer are votes or proposals (`RequestsAssumption`); peers are a
finite set and connections are numbered (`PeersAssumption`, `SlotsAssumption`); the tip of
the chain and the bounds of catching up are natural numbers (`NodeSyncAssumption`).

- `FilePVProofs`: type correctness, `DoubleSignSafety`, `PersistBeforeRelease`,
  `FileMonotone`, from the assumption that heights and rounds are natural numbers.
  `NoDoubleSign` is not inductive: that a signature for a new step is harmless
  depends on the file covering all that was released, and on memory agreeing with
  the file except while a save is pending. `PVInv` adds `ReleasedIsPersisted` and
  `MemoryAgrees`; one lemma per action shows that it is kept.
- `FilePVProofs` also proves `AnswersAreToRequests`, `RemoteNoDoubleSign` and
  `RemoteReleasedPersisted` of `RemoteSigner`: any number of connections, retries, pings
  and losses. The protocol has no request identifiers, so that an answer belongs to its
  request rests on the state of the connection. `SignerInv` says what that is: a
  connection that the node may still use is quiet in both directions unless a call waits
  on it, and then there is at most one of the request on its way, the request in the
  hands of the server, and its answer. A call that fails or times out drops the
  connection, which keeps this true.
- `TendermintVotingProofs`: type correctness, `AgreementHolds`, `CommitIsFinal`, for
  every validator set and every quorum system in which two quorums share a correct
  validator, any number of rounds and blocks. Agreement is not inductive while a
  commit is still being assembled; `VInv` carries `PolkaExcludes`: a polka for a block
  in a later round means that every quorum has a correct member that has left the
  earlier round without precommitting another block.
- `LocalRulesSuffice` (same module): a state property, without steps. Votes and
  decisions that keep the four local rules satisfy agreement, however they came about.
  The proof takes the least round with a conflicting polka.
- `VoteSetProofs`: `QuorumsIntersect`, which is the assumption of `TendermintVoting` on
  quorums, for the sums that `VoteSet` really compares; and `VoteLaws`, all that the
  other proofs need to know of vote sets (below).
- `HeightVoteSetProofs`: type correctness, `MajorityProvable`, `NoVoteLost`,
  `BoundedMemory`. The invariant joins what each set counts (`SetOK`: sums are the power
  of the voters, a block has its majority exactly when its sum reached the quorum) with
  the history of what was reported as added, and with the rounds each peer opened.
- `ConsensusStateProofs`, `ConsensusTheorems`: the safety of the consensus state machine. Each function of `state.go` has a lemma, in the order of
  the calls; each handler has one that composes them; `NextAdvances` says what any
  step does.
- `NodeSyncProofs`: `AppliedAlwaysQueued`, `HistoryAlwaysLinked`, `HeightsAlwaysOwned` and
  `FollowsSoundChain`, for any number of peers, workers, heights, snapshots and chunks.
  `SyncerInv` keeps the chunk in hand apart from those returned before it: only the latter
  are in the application as they are in the queue. That no height of backfill is lost is not
  inductive while a thread has a height in hand: `OwnedBut(q, x)` says of a block queue that
  every height is in exactly one place but for `x`, and one lemma per operation of the queue
  shows that it takes `x` out of one place and puts it in another. `HistoryInv` says which
  headers and validators are stored at each verified height. For `FollowsSoundChain`,
  `FollowerMoves` maps each step to one of `ChainFollower` or to a stutter; its
  hypothesis `LightClientSound` is that the app hash given by the light client is that of the
  chain, which `TrustedIsVerified` and the run `sync` check.

- `RouterProofs`: `SlotsAlwaysMatch`, `OverflowAlwaysEvicted`, for any peers,
  connections, options (the two limits are natural numbers, `Limits`) and environment.
  `Good(m)` is kept by every method of the manager by itself, whoever calls it in
  whatever order; there is one lemma per method. That the peers above `MaxConnected` are
  to be evicted is not inductive: a peer that a dial has claimed may be evicted for
  a third one meanwhile, and when the dial ends the claim no longer frees a slot.
  `Held` therefore counts a claimed peer as holding its slot even while it is evicted, and
  the number of holders stays within `MaxConnected`. `Linked` says how the stage of each
  connection, the registered queue and the connected peers go together, which makes
  "one connection, and its own queue" inductive.

### The invariant of the state machine

None of the properties of `ConsensusState` is inductive. `IInv` (`ConsensusStateProofs`)
ties together:

- `RoundsOK`, `TicksOK`: the vote sets are opened for the round, and no timeout or
  commit round is ahead of it;
- `LockOK`, `ValidOK`: lock and valid block have their polka in the vote sets;
- `SignedOK`, `PrecommitsOK`, `PrevotesOK`: what was signed is not ahead of round and
  step, and each vote is justified by polkas that are still in the vote sets. This is
  where vote sets matter: `KeepsMajorities` of `VoteLaws` says that no vote, claim or
  new round takes a majority away;
- `PartsOK`, `ProposedOK`: block, parts and proposals belong together;
- `CommitOK`, `LastCommitOK`: a commit round has its majority, a stored block had one;
- `EvidenceOK`: two counted votes of one validator are in the evidence pool.

TLC checked `IInv` on the instances of `consensus_rounds` and `consensus_heights` before
it was proved. From it follow without further conditions `PrecommitsHavePolkas`,
`PrevotesAreJustified`, `LockIsLastPrecommit`, `EvidenceExact`, `VotesAreInOrder`,
`NeverPanics` and `StateTyped`. `NeverPanics` is about the checks that a state function
makes of its own state, such as the +2/3 prevotes of `enterPrevoteWait`; the panics that
other validators can bring about (+2/3 votes for an invalid block) are in the model as
places of their own, and are not excluded. Two properties are about what the other validators do as well, and their
theorems name it as a hypothesis, which the instance of `consensus_heights` satisfies:

- `CommitsHaveQuorums`: the commits of one height that the node counts agree, the one it
  leaves the height with included. Without it `finalizeCommit` may have stored a block
  and take up a commit of another round. `AgreementHolds` gives the hypothesis.
- `CommitIsFetched`: blocks travel as parts, and polkas from the commit round on are for
  the committed block, which `CommitIsFinal` gives. With transaction keys alone
  `tryCreateProposalBlock` replaces the part set in `Commit`, so the first half cannot be
  dropped (see Disagreements).

Together: the rules that `LocalRulesSuffice` asks of a correct validator are theorems
about the state machine (`VotesAreInOrder`, `PrecommitsHavePolkas`,
`PrevotesAreJustified`, `CommitOK`), its assumption on quorums is `QuorumsIntersect`, and
that votes stay in order across a crash is `DoubleSignSafety`.

### Induction over data

What a sum over a set of validators is, and how rounds are opened one by one, needs
induction. `VoteSetProofs` does without an induction theorem: it takes the set of
counterexamples and its least member (`SmallestNat`, `SmallestSet`), which exists
because `<` on the naturals, and the subset order of a finite set, are well founded.
`PowerAdd`, `PowerMonotone`, `PowerUnion` and `OpenedRounds` are proved in this way.

### Only model-checked

Liveness (`WaitsEnd`, `OwnVotesCounted` and the temporal properties of the other runs) and
anything with ENABLED is out of the prover's reach. `ProposerSelection` is recursive in a
way the provers cannot follow. The safety of `LightClient` (an assumption of `FollowsSoundChain`),
`Recovery`, `Pools` and `Gossip` is only model-checked.

## Disagreements between code and text

All met while modelling. The models do what the code does; where that breaks a
property, the property names the condition under which it holds, and removing the
condition shows the disagreement.

**Private validator and consensus**

- A failed save of the private validator leaves memory ahead of the file
  (`file.go:472`, against 185). `SPECIFICATION SpecSaveMayFail` of `FilePV` violates
  `NoDoubleSign`.
- The end of a stream is not a `timeoutError`, so the signer keeps a connection that
  the node has closed and reads its end for ever instead of dialing again
  (`signer_endpoint.go:104`, against "keeps the connection alive by dropping and
  reconnecting", `signer_listener_endpoint.go:27`), unless a reset or a failed write
  shows it; after ten failed dials its loop ends. `AnswersMatch` does not depend on
  it, but no progress is claimed of a remote signer.
- A proposer that waits for its clock in a later round is woken for round 0
  (`state.go:1190`, against 1392).
- A polka that is complete before its round is entered leaves `ValidRound` behind
  the lock (2732, against `round_state.go:382`); `Commit` is left for a later round
  (1284, against `spec/consensus/consensus.md:203`); a nil polka does not unlock
  (1893, against `consensus.md:177`); a proposal with transaction keys replaces the
  part set in `Commit` (2493, against 2374).
- A precommit of height 0 that comes before round 0 of the first height is added to a
  `LastCommit` that is nil, and the node panics (2633). +2/3 votes for an invalid block
  make `enterPrecommit` and `finalizeCommit` panic, as the code means to. The model has
  both (`panicked`), and `NoPanic` does not exclude them.
- A block and its part set header are one value here, so of the panic of
  `finalizeCommit` over a header that does not match nothing is claimed. A block that
  `tryCreateProposalBlock` puts together from other transactions is a value of its own
  (`mix`), which is valid when the application takes it, since the hash of the data
  is computed anew (2514).

**Proposer selection**

- `IncrementProposerPriority(k)` rescales and centres once, so it is not k times
  `IncrementProposerPriority(1)` (`validator_set.go:132`), and a node that skips a
  round may take another proposer than one that enters it (against R1 of
  `spec/consensus/proposer-selection.md`). Powers (2, 1, 1), then changes
  {1: 1, 2: 8}, {1: 8, 3: 8} and {1: 2, 3: 1} lead there. `PathsAgree` without
  `NeverRescaled` fails. `LoadValidators` uses the same single increment.
- After a change of the set a validator need not be elected as often as it has power
  in one cycle (R2); in two cycles it is (`FairShare`).
- `ValidatorSetFromExistingValidators` does not rebuild the same set: the proposer
  is guessed as the one of lowest priority.

**Commit and recovery**

- `HandshakeRecovers` and `ChainGoesOn` except three places (`Unrecoverable`) in which a node
  does not start again; each is reached in the run, and without its exception both
  properties fail:
  - the first block of a chain with an initial height above 1 was saved and its state
    was not, which the handshake refuses (`replay.go:382`, against `state.go:2163`);
  - the response of a block was empty, so that it is not stored (`state/store.go:480`, called
    at `execution.go:290`), and the application had committed the block when the node
    stopped; the handshake wants the response (`replay.go:429`);
  - a record cut within its first four bytes reads as the end of the log, is not
    repaired, and is written behind. Once it is rotated into an older file, the replay
    fails, the repair only rewrites the head, and the node refuses to start.
- A rollback across a validator change overwrites the record of the next height
  (`rollback.go:87`, "but both should be the same"). A chain with
  `MCChain({2}, {}, "state")` violates `HistoryLoadable`.
- A node that stops between saving a block and its marker, or that got a block by
  block sync, has no marker for that height; the next height is then not replayed
  ("proceeding to start state anyway"), and what follows is appended behind a cut
  record without repair. A hard rollback leaves the marker of the removed height in the WAL:
  `catchupReplay` then returns an error that `OnStart` only logs, and the node starts
  without replay. `HandshakeRecovers` excepts it.
- The repair empties the head before it writes it again, and a process that stops
  there never reads the copy again. `SignedIsReplayed` without `cs.whole` fails.
- An empty head after a rotation gets marker 0 again at a restart, and the replay of
  the first height then starts there.
- `SwitchToConsensus` clears `doWALCatchup` only after `Start` (`reactor.go:288`), so
  `skipWAL` has no effect. Own messages are written to the WAL without a sync
  (against `wal.go:201`); `signVote` flushes before it signs, which is what
  `SignedIsReplayed` rests on. A sync of a file that the ticker has closed does
  nothing (`autofile.go`, against `group.go`); this matters only when the machine
  fails, which the model leaves out.

**Pools**

- `IsTxRemoved` is false for every removed transaction, so two evictions of one
  transaction, an eviction of one whose insertion is not finished, and an eviction
  during a reap end in a recovered panic that leaves the indexes apart; a later
  `Update` may then panic, which stops consensus. `Pools` reaches this (`halted`), and
  `IndexesAgree` is stated for executions without such a panic. A small cache
  forgets a stored transaction, which is then inserted twice (`duplicated`). The
  configured size is exceeded by concurrent callers.
- An eviction that comes before the insertion of its transaction is over takes it from
  the expiry lists before `insertTx` puts it there (`overtaken`): the stale entry stays,
  and the purge that meets it panics. `IndexesAgree` then only claims that
  the lists hold every stored transaction.
- `ReapMaxBytesMaxGas` asks `NumTxs` and then pops (`mempool.go:387`); when an eviction empties
  the queue in between, it panics in the goroutine of consensus. Between the write to
  the store and the count `Size` is too small, and may be below zero.
- The height of the mempool is -1 until the first `Update`, so that transactions that
  came before it expire early.
- `Size` of the evidence pool counts a light client attack again for each block
  checked and corrected evidence again for each receipt. Expired evidence is pruned a
  block late, or later if an older one arrived after the last pruning (`pool.go:139`),
  and is proposed until then. Evidence can be both pending and committed when
  `AddEvidence` races with `Update`, or after a restart in mid-commit, since the
  handshake replays without the pool (against the comment of `CheckEvidence`).

**Catching up**

- `poolRoutine` returns after a block fails its verification (`blocksync/reactor.go:665`),
  and the node neither syncs nor switches to consensus. `SPECIFICATION StuckSpec` of
  `MCNodeSync` violates `LeavesBlockSync`; with honest peers that stall it holds.
- `numPending` may count too much; `goodPeers` is not used. `RetryAll` of the chunk
  queue keeps what was allocated, and chunks of a rejected sender that come later
  are accepted (against `spec/abci/abci.md:606`).
- Light client, `detector.go:204`: a witness with another header sends the conflict and
  then also `nil`, while `detectDivergence` reads as many messages as there are
  witnesses. A header can pass before the witness that would contradict it is heard
  (against "If we had at least one witness that returned the same header").
- `client.go:927`: `backwards` fetches the target height again and does not compare the
  block it verifies with the one that is saved; if the primary is replaced in between
  they may differ. Both kinds of heights are recorded in `loose`; the claims without
  `loose` fail.
- `verifier.go:57`: `VerifyNonAdjacent` and `VerifyAdjacent` check the expiry of the new
  header, against "trustedHeader can still be trusted".
- `client.go:1122`: with one witness left `findNewPrimary` makes it the primary, returns
  `ErrNoWitnesses` and keeps it as its own witness; a primary that goes down and comes
  up again is also added as a witness. A witness that does not respond is removed
  (`detector.go:197`, against `provider/errors.go:17`). A benign error of the primary at a
  pivot lets primary and witness take turns until the call times out.
- Backfill: `maxIntHeap` is a min-heap; a late light block is delivered to the next
  call of the dispatcher; a request that cannot be sent leaves its call behind, closed,
  and the answer to it counts as unsolicited; `Remove` drops one occurrence of a peer
  that `Append` has put on the list twice; a verifier may wait in `Pop` for ever after the
  workers left.

**Gossip**

- A part is marked for the height and round that the peer was in, not for the block
  it belongs to (`reactor.go:553`, against "record that the peer knows the
  corresponding block Part" in `docs/tendermint-core/consensus/reactor.md`): when
  the peer changes to another block within its round, because it learns of a commit of an
  earlier one, a part of the old block is taken for one of the new. What is marked as
  sent is not sent again in that round, though queues drop messages (`rqueue.go:76`).
  `budget.faults` records what was lost or noted for another block.
  `BeliefsHold` claims the votes unless a vote was lost, and the parts unless a noted
  part was lost or noted for another block.
- `PeerCatchesUp` excepts four events (`Misled`) after which nothing corrects our picture
  while the peer stays in its round: a noted part lost, a part noted for another block,
  the peer's `NewRoundStep` lost, its `NewValidBlock` lost. Each is reached, and without
  its exception the property fails. Lost votes, claims, answers, proposals and parts of
  catch-up are made good.
- `ApplyNewRoundStepMessage` sets `Precommits` to nil before it moves them to
  `LastCommit`; `gossipDataForCatchup` does not mark the parts that it sends.

**Peers**

- A delay equal to `MaxRetryTime` is taken as "never": `DialFailed` deletes the peer, also a
  persistent one whose own delay comes to that value (against `peermanager.go:95`). The
  node sets `MaxRetryTime` equal to `MaxRetryTimePersistent` (`node/setup.go:232`), so that
  persistent peers are deleted after enough failures. Without `MinRetryTime` no peer is
  retried. A node of another network that answers in place of a persistent
  peer has it deleted, and without the lock of the manager (modelled as one step).
  Jitter is drawn anew in `TryDialNext`, so the timer may wake too early. With a limit on
  connections, a deleted or refused peer frees a slot without waking `DialNext`.
  `PersistentRedialed` names these: `MaxConnected` and `RetryTimeJitter` are 0, no delay of a
  persistent peer is `retryNever` or `MaxRetryTime`, and the peer is not `foreign`. The loads
  reach every one of them. That a delay overflows after very many failures is left out.
- `connectPeer` calls `Disconnected` when the peer is "already connected", so a peer
  that dials while it is dialed may have two connections of which the manager counts
  none (against `peermanager.go:245`); `SlotsMatchConnections` leaves such peers out of its
  second part. A peer that is to be evicted before its queue is registered
  (`router.go:976`) stays. `Ready` comes before `getOrMakeQueue`, against its comment.
- A peer that connects while it is dialed keeps its claim on the peer it was to replace.
  When a third peer that was dialed to replace it connects, `Dialed` looks for someone
  lower (`peermanager.go:656`), finds the old claim (`peermanager.go:1094`) and schedules for
  eviction the peer that is evicted already, so nobody goes for the new one. `TryEvictNext`
  is then above capacity, which "shouldn't really happen" (`peermanager.go:799`), and evicts
  the lowest-ranked peer. The attempt to prove `OverflowIsEvicted` showed it; its second
  part is now for nodes without such peers. `MaxConnected` 1, `MaxConnectedUpgrade` 3, two
  peers that connect, one of them known, and a persistent one that is added later violate
  it without the condition `TwoWay = {}`.
- `peerInfo.Copy` shares the map of addresses; `processPeerEvent` for an unknown peer
  makes an entry without an ID; `Accepted` does not prune the store.

## Not modelled

About 66,000 of the implementation's 138,000 lines are generated (protocol buffers
and mocks). Of the rest, a good part has no state that several steps or actors
change: formats, RPC views, configuration, commands, tools, test applications. The
models cover the code on the path of consensus, storage, catching up and peers.

- **Of the light client**: sequential verification, `VerifyHeader`, `Update` and `Cleanup`,
  which state sync does not call; a client that starts from an old store; the evidence
  it sends after an attack; a witness that catches up while the detector waits; the
  HTTP provider, the proxy and its RPC client. A provider gives the same answer for a
  height whenever it is asked.
- **Queues and connections below the router**: the three kinds of queue, multiplexed
  and secret connections, transports. `Gossip` and `Router` see channels that may drop
  a message or end.
- **Rebroadcast** by the mempool and evidence reactors, peer exchange, database sync,
  ABCI clients, event bus and indexer.
- **Within modelled parts**: what a replayed message does (it is handled as in
  `ConsensusState`, but the two modules are not composed); loss of power, the total
  size limit of the WAL; `Mempool.Flush`, expiry of transactions by time, priorities
  that change at a recheck, errors of the application connection; vote extensions;
  several addresses of one peer and reloading the peer store; serving snapshots and
  light blocks; verification of commits; durations and clocks beyond the order of
  timeouts and the timeliness of a proposal.
- **Cryptography, encodings, metrics, tracing**: idealised or left out.

## Plan

1. A composition of `ConsensusState` with `FilePV` and `WAL`: a crash and replay of a
   height signs nothing new for an old step.
2. The queues of the router and the multiplexed connection.

Theorems to add: `Recovery` safety (heights of application, store and state differ by
at most one step, from which `HandshakeRecovers` follows), what a search of the WAL finds,
and the safety of the pools.

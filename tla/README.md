# Verification of pluggable-hcs: ordering and ledger

This directory holds a TLA+ model of *pluggable-hcs*, a Hyperledger Fabric whose
orderers can use a topic of the Hedera Consensus Service (HCS) as their total
order. It covers the path of a transaction: admission under the channel's
configuration, ordering (by HCS, by Raft, or by the solo consenter), cutting and
writing blocks on the orderer, and validation, commit, recovery and maintenance
of the ledger on a peer. TLC checks the models on small instances; TLAPS proves
the central theorems for every value of the constants.

`PROJECT.json` lists the components, the runs with their properties, the mutants
that show that each property can fail, the source lines behind every definition,
the hazards of the code and the disagreements found between code and comments.

## 1. The system

```
 clients ── Broadcast ──► message processor ──► consenter ──► block cutter ──► block writer ──► blocks
               (configtx: current configuration)  │ HCS: chunks ► topic ► every orderer
                                                  │ etcdraft: leader ► Raft log ► every orderer
                                                  │ solo: one orderer
 blocks ──► peer: validate (MVCC) ► private data store ► block store ► state ► history
                                         ▲ reconciler, purge manager, rollback/reset/rebuild
```

| Part | Code | What it does |
|---|---|---|
| Broadcast, message processor | `common/broadcast`, `common/msgprocessor` | admit an envelope under the current configuration, turn a config update into a config envelope |
| Configuration | `common/configtx` | which updates of the configuration tree are allowed, and what they make of it |
| HCS consenter | `orderer/consensus/hcs` | splits messages into chunks, reassembles them from the topic, revalidates and resubmits, cuts by timers that speak through the topic |
| etcdraft consenter | `orderer/consensus/etcdraft` | the leader makes blocks and proposes them to Raft; everyone writes what Raft commits |
| Solo consenter | `orderer/consensus/solo` | one goroutine, one timer |
| Block cutter, block writer | `common/blockcutter`, `common/multichannel` | batches; linking, annotating and appending blocks in the background |
| Peer ledger | `core/ledger/kvledger`, `pvtdatastorage`, `common/ledger/blkstorage` | serialises transactions, keeps six stores in step through crashes, expires private data |
| Reconciler | `gossip/privdata` | fetches private data that was missing at commit |

## 2. Modules

| Module | Kind | Models |
|---|---|---|
| `BlockCutter` | operators | `Ordered`, `Cut` |
| `BlockCutterSpec` | state machine | one receiver under any calls and changes of `BatchSize` |
| `BlockWriter` | state machine | the calling thread, the committing goroutine, the mutex, crash and restart |
| `ConfigTx` | operators | `verifyReadSet`, `computeDeltaSet`, `verifyDeltaSet`, `proposeConfigUpdate`, `Validate` on configuration trees |
| `SoloChain` | composition | `BlockCutterSpec` + `ConfigTx` + message processor + solo's `main` |
| `SoloPartsProofs`, `SoloProofs` | proofs | the block cutter and the configuration trees; the solo consenter composed of them |
| `AppMsgProcessor`, `AppMsgProcessorSpec` | operators, state machine | chunking, reassembly, expiry |
| `AppMsgProcessorProofs`, `AppMsgDeliveryProofs` | proofs | the processor's indexes; what it delivers |
| `DataInduction` | lemmas | induction over numbers and lists, for the proofs about data |
| `HcsChain` | operators | what a chain does with one topic message; uses `AppMsgProcessor` and `BlockCutter` |
| `HcsNetwork` | composition | orderers, clients, the topic, timers, gates, faults and restarts |
| `HcsChainProofs`, `HcsProofs` | proofs | what a topic message does to one chain; the orderers on one topic |
| `ChainLifecycle` | state machine | the goroutines of one HCS chain from `Start` to `Halt`, and its mirror subscriptions |
| `EtcdRaft` | operators | what the vendored etcd/raft library (`vendor/go.etcd.io/etcd/raft`) shows its user |
| `RaftChain` | composition | the chains of a Raft cluster over `EtcdRaft` and `BlockCutter` |
| `OrderingService` | abstract specification | one growing sequence of blocks, of which each orderer holds a prefix |
| `OrdererProofs` | proofs | `BlockWriter`, `OrderingService` and `ChainLifecycle` |
| `Mvcc` | operators | simulation, validation, update batches |
| `BlockStore` | operators | block files, saved information, index; opening, rollback, reset |
| `KvLedger` | composition | `Mvcc` + `BlockStore` + private data store, purge manager, reconciler, recovery, offline commands |
| `MC*` | instances | constants for TLC |

Components are operators on records where they can be, so the definition of the
block cutter that is checked and proved by itself is the one used inside
`SoloChain`, `HcsChain` and `RaftChain`. `BlockWriter` is composed with the
consenters through one theorem: `CrashLosesAtMostOne` says that the disk is at
most one block behind, and a crash in `HcsNetwork` and `RaftChain` loses at most
the last block. `HcsNetwork` and `RaftChain` are both checked to implement
`OrderingService`.

### State and code

*HCS.* `HcsChain` describes a chain as a record whose fields are those of
`chainImpl`: `lastSequenceProcessed` (with `lastConsensusTimestamp`),
`lastChunkFree`, `lastOrderered`, `lastOriginal`, `sequence`
(`ConsenterSupport.Sequence()`), `receiver`, `processor`, `messageHashes` and the
`blocks` handed to the writer with the metadata of `newHcsMetadata`. The topic
numbers its messages without gaps and gives them increasing timestamps
(`processMessages` panics otherwise), so a timestamp is the sequence number of
its message. `HcsNetwork` adds for each orderer the blocks on disk, the
recollection target, `lastResubmittedConfigSequence`, the gate
`doneReprocessingMsgInFlight` and the timers. Its actions are `Broadcast`,
`WaitReady`, `SendChunk`/`RetryChunk`/`AbortSend` (`enqueueChecked`), `Submit` and
`OrderLate` (the network), `Deliver` and `Recollect` (one response in
`processMessages`, with everything it causes up to a resubmission),
`FireRecvTimer`, `FireSendTimer`, `Resubscribe`, `Crash` and `Restart`. A
resubmission is not atomic: `Deliver` leaves the orderer in a call and
`SendChunk` sends the chunks while others go on.

*HCS lifecycle.* `ChainLifecycle` has a program counter for `startThread`, for
`processMessages`, for `processTimeToCutRequests` and its closing goroutine, for
every client in `order` and every caller of `Halt`, one record for each
subscription's SDK goroutine, and a flag for every channel that is closed. Messages
are reduced to their kind. `panic` names the reason if the process dies.

*Solo and configtx.* A broadcast handler is a record that goes through the stages
prepared, filter or propose, order or configure; `HandleNormal`, `HandleConfig`
and `TimerFires` are the branches of `main`. A configuration is a function from
paths to `[version, modPolicy, content]`, as in `configMap`; an update has read
set, write set and signers.

*Raft.* One record per orderer holds the fields of `Chain` and the local variables
of `run` (`soft`, `bc`, `propC`, `blockInflight`, `configInflight`,
`confChangeInProgress`, `justElected`, ...). The operators named after the
functions (`ordered`, `propose`, `becomeLeader`, `writeBlock`, `writeConfigBlock`,
`applyEntry`, `catchUp`, ...) take the record to the one the function leaves, and
an action is one pass through `run`'s `select`. The goroutines that `run` starts are
actions of their own: `ProposeBlock`, `ProposeConfChange`, `TakeSnapshot` (the `gc`
goroutine) and `ProposeCancelled`, a proposing goroutine whose context was cancelled
when leadership was lost and that has not seen it yet (`cancelled` holds the queues of
such goroutines). A block's hash is the block, so a block that does not continue the
ledger is seen. Two history variables are added: `committed`, the blocks of the
committed log, and `stale`, whether a cancelled goroutine has handed Raft a block. A
status tells the panics apart.

*Peer.* `KvLedger` has a variable for each store (`bs`, `pv`, `st`, `hist`,
`expiry`, `preReset`), `mem` for what the running peer holds, `rec` for the
reconciler and `maint` for an offline command. `StoreBlock`, `CommitPvt`,
`AddBlock`, `IndexBlock`, `UpdateExpiryInfo`, `ApplyState`, `BlockCommitDone` and
`CommitHistory` are the writes of one commit; `Start`, `RecoverState` and
`RecoverHistory` those of recovery; `FetchReconciledItems` to
`CommitPvtDataOfOldBlocks` those of reconciliation; one action for each database
or file an offline command drops, records or cuts. `replay` is a history variable:
the state, flags and hash that executing the chain serially gives.

### Abstractions

- Envelopes and transactions are model values. Chunks unmarshal to their message
  when all of them came from it; signatures verify or not by a constant; policies
  are a predicate on signers, filters one on configuration and envelope.
- A transaction's program (reads, range scan, operations on keys) is a constant;
  the value it writes is the transaction. Hashed and public keys share one map, raw
  private values are in another; there is one collection with one block-to-live.
- Revalidation in `HcsNetwork` succeeds or fails nondeterministically, also
  differently at two orderers; a failure is a fault, as are a rejected submission
  and a broken subscription.
- Timers have no duration: one that runs can fire.
- Raft's log is one sequence with the tails earlier leaders may still hold
  (`EtcdRaft`); its messages are not modelled, an action has the effect of an
  exchange of them. The pass through Raft's `Ready`
  hands the chain at most one entry at a time.
- A write to a leveldb batch is atomic; a block file append is not
  (`TornAppends`, `TornIndexings`).

## 3. What the runs check

| Run | Instance | States | Properties |
|---|---|---|---|
| `solo` | 2 clients, 2 envelopes, 3 config updates by 2 administrators, 2 batch sizes, a byte counter that wraps | 402 k | `NothingLost`, `BatchesBounded`, `NeverPanics`, `OrderedUnderCurrentConfig`, `UpdatesSeeWhatTheyRead`, `ChangesAuthorized`, `TimerIffPending`, `CutterContract` |
| `app_msg_processor` | 3 messages of 2 senders, 4 malformed chunks, 5 calls, gaps 1 and 2, timeout 3 | 549 k | `IndexesAgree`, `NoSpuriousDelivery`, `IntactIsDelivered` |
| `block_writer` | 5 blocks of 4 kinds, 2 crashes | 6.6 k | `WriterInv`, `HandedOverIsCommitted` |
| `hcs_config` | 2 orderers, 1 envelope, 2 config updates, topic of 5, 1 crash, rejection or failed submission | 629 k | `SamePositionSameState`, `ValidatedUnderCurrentConfig`, `NeverGivesUp`, `ImplementsOrderingService` |
| `hcs_faults` | 2 orderers, 4 envelopes that each fill a batch, one of two chunks, topic of 5, 1 crash | 369 k | `SamePositionSameState`, `LedgerInLogOrder`, `HashesArePending`, `ImplementsOrderingService` |
| `hcs_live` | two-chunk envelope, 1 crash, delay or retry, fair | 15 k | `PendingIsCut` |
| `lifecycle` | 1 client, 1 caller of `Halt`, 2 errors of the subscription or of sending, 1 retry, fair | 163 k | `NoUseAfterClose`, `NoSequenceGap`, `ResubscriptionSafe`, `ErrorIsCleared`, `HaltCompletes` |
| `raft` | 2 orderers, 1 envelope, 1 update that removes an orderer, 2 terms, log of 4, 1 block in flight, 1 crash, snapshots | 590 k | `NeverPanics`, `HashChained`, `OrderedUnderCurrentConfig`, `ServesInSync`, `ImplementsOrderingService` |
| `kv_ledger` | 3 transactions, 1 public and 1 private key, 4 blocks of up to 2, block-to-live 1, 1 crash | 1,672 k | `StateIsSerial`, `CommitHashAgrees`, `HistoryIsComplete`, `PrivateValueIsGenuine`, `StoresNeverDisagree` |
| `kv_maintenance` | 2 transactions (one metadata-only), 2 rollbacks, resets or rebuilds, 1 crash, fair | 736 k | `StateIsSerial`, `EndorsementsNeverGoBack`, `CatchesUp` |

`TypeOK` (`KvTypeOK`, `RaftTypeOK`, `LifecycleTypeOK`) documents the state of each
module; the runs spend their time on the properties that relate its parts.

The properties, in words:

- *ImplementsOrderingService* (HCS and Raft): what the cluster orders is one
  sequence of blocks that only grows, and every ledger is a prefix of it, through
  crashes, replays and pulled blocks. For HCS the sequence is what a chain that
  consumed the whole topic would hold. *SamePositionSameState* is the HCS
  fact behind it: orderers that consumed the same prefix of the topic hold the same
  blocks, pending batch, hashes and resubmission mark, even if one rebuilt them after
  a crash. Both, and *LedgerInLogOrder*, speak of orderers that never restarted from
  a block whose metadata does not say where the chain was (`Resumable`, history
  variable `astray`); section 5 says when a block is like that and what follows.
  *ValidatedUnderCurrentConfig* and *NeverGivesUp* hold while no orderer has, since
  one that did sends the others messages stamped with its own numbering.
- *LedgerInLogOrder*: no topic message is committed twice or out of order.
  *ValidatedUnderCurrentConfig*, *OrderedUnderCurrentConfig*: what is in a block
  was validated under the configuration in force at that block.
- *HashesArePending*, *NeverGivesUp*, *NeverPanics*: the error returns and panics
  of the consenters are not reached by anything the system itself sends.
- *UpdatesSeeWhatTheyRead*, *ChangesAuthorized*: a config update takes effect only
  on elements at the versions its author saw, and every element that changed was
  changed by someone its policy, as it was then, accepts.
- *CutterContract*: solo drives the block cutter only in ways its specification
  has. *TimerIffPending* (solo), *PendingIsCut* (HCS): a batch does not
  stay open.
- *HashChained*, *ServesInSync*: a Raft leader never builds on a block that is not
  the last committed one, and serves only once its ledger and the membership are in
  step with the log. *HashChained* and the *NeverPanics* of Raft hold until a block of
  a deposed leader comes to Raft late (`stale`, section 5); the other three properties
  of the run hold after it as well.
- *StateIsSerial*, *CommitHashAgrees*, *HistoryIsComplete*: after any crashes the
  state, validation flags, commit hashes and history of a peer are those of
  executing the chain one transaction after the other, and so the same on all
  peers, whatever private data each has. *StoresNeverDisagree*: no crash leaves
  stores that refuse the next block or start.
- *PrivateValueIsGenuine*: a readable private value is the one its hash stands for,
  although it may arrive late and only versions are compared, which a metadata-only
  write renews; and only a block makes a readable value unreadable or replaces it,
  never the reconciler. An expired one is not read, as *StateIsSerial* has its
  hash gone from the state.
- *EndorsementsNeverGoBack*, *CatchesUp*: after an offline command no proposal is
  simulated on a state older than one already used, and in the end all stores are
  at the height of the chain.
- *NoUseAfterClose*, *ResubscriptionSafe*, *NoSequenceGap*, *ErrorIsCleared*,
  *HaltCompletes*: the goroutines of an HCS chain use nothing that was closed, renew
  a subscription without a gap or a repetition, clear failures (unless the message
  that shall provoke an answer cannot be sent and nothing else comes), and stop when
  told to.
- *IndexesAgree*, *NoSpuriousDelivery*, *IntactIsDelivered*: the chunk processor
  returns exactly the messages whose chunks came in time.
  *NothingLost*, *BatchesBounded*: the block cutter, also when its byte counter wraps.
  *WriterInv* (which contains `LedgerIsChain` and `LastConfigIsNewest`),
  *HandedOverIsCommitted*: the block writer.

### Bounds

A topic of five messages holds two chunks of one envelope and three more envelopes,
each of which overflows the batch; or two config updates, a normal message and the
resubmission of one of them by both orderers. Four envelopes are what it takes for two
overflows in a row and a chunk that is pending meanwhile; that clients send them all to
one of the two orderers (`Brokers`) keeps the instance small: both read the same topic
and either may crash. One fault suffices for a restart at every point, for a
chunk to be overtaken by everything else or submitted twice (`hcs_live`), or for a
submission to fail (`hcs_config`). A Raft log of four holds the empty entries of two
leaders, the config block and the membership change, or two blocks, one of which a
cancelled goroutine adds; two terms give every leader a successor. Four blocks
on a peer are the genesis block, a private write, and enough for it to expire; two
blocks fill a file, so a rollback crosses a file boundary. Two offline commands let a
crash in one be followed by the same, another or none. In
`hcs_live` the topic bound is never reached (the state space is the same with 8 and
9). The orderers clients send to, the other orderers, configuration updates and
envelopes of one size are interchangeable in the HCS safety runs, which use that
symmetry. Deadlock is not checked: a system without clients is idle.

### Fairness

Weak fairness throughout, and only for what the Go scheduler, a started timer or a
loop guarantees. HCS: a running orderer takes the next response, a call in progress
sends its next chunk, a started timer fires; nothing obliges clients to send, the
network to order a delayed chunk, or a crashed orderer to return. Lifecycle: the
goroutines and the SDK's delivery of a message on the topic; not new errors, nor
calls. Block writer: the committing goroutine runs and the
caller gets a free mutex. Peer: the committer, an operator's command once begun
(begun again after a crash), the purge manager's goroutine and the reconciler go
on; crashes are bounded.

## 4. Refinement

`OrderingService` has three actions: blocks are ordered, a node writes the next
blocks of the sequence, a node that crashes loses its last one. `HcsNetwork` maps
its `ideal` chain, which consumes each topic message as it is ordered, to the
sequence, and the blocks of an orderer up to the first one it went astray after
(`Followed`) to its copy; `RaftChain` maps the committed log. That the abstract
service never forks is proved; that the two consenters implement it is model-checked.

## 5. Where code and comments disagree

Two runs are expected to fail; TLC finds a behaviour of the code that contradicts
the quoted comment.

| Run | Statement | What happens |
|---|---|---|
| `hcs_doc_discard` | a discarded message "has been consumed already" (`hcs/chain.go:687`) | a time-to-cut message moves the mark past messages still in flight, which are lost; if one was a config message the ingress gate stays shut too |
| `kv_doc_expiry` | key hashes without a private key at hand are scheduled to expire (`expiry_schedule_builder.go:84`) | a private deletion takes the hash off the list; a later write in the block, whose private part is missing, never expires on this peer |

The following definitions state further expectations of comments or log messages.
TLC refutes each one; the passing runs do not list them. They fail on the instances of
the runs of their module, except `KnowsItself`, which fails if the first orderer of the
list is the one removed, `FirstTimeReceived`, with a topic of eight, and
`NoStrandedWaiter`, with three config updates and a topic of six.

| Definition | Expectation | What happens |
|---|---|---|
| `HcsNetwork!RestartAccepted` | metadata an orderer wrote is not "corrupted" (`hcs/chain.go:1020`) | a block cut by a later message has a chunk-free timestamp after its own; an orderer that stops there cannot start again |
| `HcsNetwork!MetadataCoversBlock` | the persisted timestamp is that of the last message in the block (`hcs.proto:53`) | not after two overflows in a row |
| `HcsNetwork!FirstTimeReceived` | "the first time we receive this re-submitted normal message" (`hcs/chain.go:694`) | copies resubmitted twice get different original numbers and are committed twice |
| `HcsNetwork!NoStrandedWaiter` | clients wait for resubmitted messages "to be reprocessed" (`hcs/chain.go:233`) | a client can wait on a channel that was replaced without being closed |
| `AppMsgProcessorSpec!MalformedIsRefused` | a chunk with an "incorrect chunk ChunksCount" is refused as corrupted data (`app_msg_processor.go:179`) | `holder.chunks[index]` is read first (line 174) and panics if the index is past the chunks of the holder |
| `ChainLifecycle!HaltNeverPanics` | `Halt` can be called several times "w/o panicking" (`hcs/chain.go:258`) | `processMessages` closes `haltChan` too, between `Halt`'s check and its close |
| `ChainLifecycle!ErrorIsAlwaysCleared` | "the error will be cleared when the stale ttc is received" (`hcs/chain.go:473`) | a failure to send it is only logged; on a quiet topic the orderer refuses messages until another orderer sends one |
| `RaftChain!ConfigInflightIsAccurate` | the flag is true "when there is config block or ConfChange in flight" | a deposed leader keeps it set for a block that is gone |
| `RaftChain!KnowsItself` | raft metadata is restored "from the recently committed block" (`etcdraft/consenter.go:150`) | a block pulled during catch-up has no metadata; a restart from it numbers the consenters anew |
| `RaftChain!CancelledIsDiscarded` | a cancelled goroutine has "discarded %d blocks in the queue" (`etcdraft/chain.go:602`) | `select` may choose the queue, and Raft takes the block if the node leads again |
| `RaftChain!InflightIsLimited` | a full channel is a "Programming error" (`etcdraft/chain.go:866`) | with `MaxInflightBlocks` 1 a config message that cuts two blocks fills it before the goroutine has taken one |
| `RaftChain!SnapshotsAreBlocks` | the entry a snapshot is taken of holds a block (`etcdraft/chain.go:1056`) | data left over while a snapshot was in progress is collected at the next entry, which may be the empty one of a new leader; its block has no header, and logging its number panics |
| `KvLedger!ExpiredIsPurged` | expired private values are purged | a value reconciled while the purge was being prepared stays, unreadable |
| `KvLedger!MissingIsTracked` | "it is safe to not acquire a read lock" (`kv_ledger.go:602`) | data of the block being committed, reconciled before the state has it, is dropped as stale and no longer listed as missing |
| `KvLedger!LatestIsReadable` | without the renewal of versions a peer would be "wrongly assuming that we have stale value" (`batch_preparer.go:359`) | a metadata-only write whose private part is not supplied moves the hash's version and not that of the value the peer holds |

`MetadataCoversBlock` matters beyond the comment. `processRegularMessage` stamps all
blocks a message makes it write with the metadata of the position before it
(`chain.go:617-646`), so after two overflows in a row the second block holds a
message later than its stamp; and the chunk-free mark and the recollection of
`chain.go:549` skip the announcements of other orderers that `Deliver` heeds. An
orderer that restarts from such a block meets a message again, or holds chunks that
the others dropped, and may write blocks the others do not have. The instance of
`hcs_faults` shows it: three envelopes that overflow, a chunk pending, and a crash make
an orderer commit a message twice, and `LedgerInLogOrder` without its condition fails
there (without the pending chunk the restart is refused, `RestartAccepted`). The models
keep this behaviour: `astray` records the block and the properties of section 3 say
what holds for everyone else, and for that orderer up to the block.

`CancelledIsDiscarded` does too. If the late block has the number the ledgers wait for
but another predecessor, or leaves a gap, every orderer that applies it panics
(`blkstorage/blockfile_mgr.go:284`, `etcdraft/chain.go:791`), and does so again after
each restart, as Raft delivers the entry again; `HashChained` and `NeverPanics` without
their condition on `stale` fail on the instance of `raft`. No ledger is corrupted by it:
the refinement, `OrderedUnderCurrentConfig` and `ServesInSync` have no such condition.

Because of the second row of the first table the programs of the passing peer runs
delete no private key, and because of `PutValAndMetadata`'s panic (hazard at
`statedb.go:194`) none deletes a key that another only updates the metadata of. The
public key is deleted and written again.

## 6. What is proved

For every value of the constants, with the named assumptions of the modules only:

- `SoloPartsProofs`, for any messages, sizes, changes of `BatchSize` and any width of
  the byte counter: `BlockCutterConserves` (what was handed out followed by what is
  pending is what was put in) and `BlockCutterBounds` (`BatchesBounded`: no batch
  exceeds the message count; only a batch of one message exceeds the preferred bytes,
  or one of `2^32` bytes and more, for which the sum compared at `blockcutter.go:101`
  wrapped around). Nothing is assumed of the sizes, as no validation of the orderer
  configuration bounds `PreferredMaxBytes`. The invariant `Counted` says that the
  counter is the size of the pending batch while that fits in the counter.
- `OrdererProofs`, the block writer: `WriterInvariant`, and from it `LedgerCorrect` and
  `CrashLosesAtMostOne`. The ledger properties are not inductive by themselves:
  nothing in them says which block the goroutine is about to append, or when
  `support.Sequence()` may differ from `lastConfigSeq`. `LockInv`, `ConfigInv` and
  `CallerInv` add that; there is one lemma for each action.
- `SoloProofs`, for any clients, configuration trees, policies and filters:
  `SoloNeverPanics`. The inductive invariant `SoloInv` says of every handler that
  its sequence number is at most the channel's and that, while it is equal, the
  channel would accept the envelope it proposed; a config block therefore makes all
  other handlers stale, and `main` proposes anew what is stale.
  `SoloImplementsCutter` shows that each step is a step of `BlockCutterSpec` or
  leaves the cutter alone, and so `SoloNothingLost` and `SoloBatchesBounded` follow
  from the two theorems on the cutter, also when the counter wraps. `SoloTimer` is the
  timer's invariant.
  `SoloLedger` is the invariant of the chain of blocks (`LedgerInv`), and from it
  follow `SoloOrderedUnderCurrentConfig`, `SoloChangesAuthorized` and
  `SoloUpdatesSeeWhatTheyRead`. Its core is `Vouches(a, b)`: where an element of
  configuration `a` and all groups above it have in `b` the versions they have in `a`,
  the element is unchanged. An accepted update keeps this for every earlier
  configuration of the chain (`VouchesStep`), although versions start again at 0 when
  an element is removed and added, because the group above then has a new version.
  Except for `SoloNeverPanics` these theorems are about a set `Maps` of configurations
  with `ClosedUnderDrafts(Maps)`: it holds the genesis configuration, all its members
  have an admissible batch size, and the updates drafted from its members stay in it.
  The orderer's own validation of a proposal gives this for the configurations it can
  reach, and the constants of the `solo` run satisfy it. `SoloUpdatesSeeWhatTheyRead`
  also needs `HonestDrafts`: a read set repeats what its author read, together with
  the groups above it, which is the shape of a `ConfigGroup`.
- `AppMsgProcessorProofs` and `AppMsgDeliveryProofs`, for any messages, chunk counts,
  malformed chunks, repetitions and losses: `AppMsgIndexesAgree`,
  `AppMsgNoSpuriousDelivery` and `AppMsgIntactIsDelivered`, the three properties of
  the `app_msg_processor` run. `ProcOK` strengthens the first by the types of the
  holders and by strictly increasing timestamps along the age list, which is what lets
  `expireByTimestamp` stop at the first young holder. `DeliveryInv` adds that a holder never
  has a chunk that came no more often than its message was delivered. `IntactInv` says
  of a message none of whose chunks was late or repeated what is held of it.
- `OrdererProofs`, the life of a chain, for any number of clients, errors and retries:
  `LifecycleNoUseAfterClose` from `ControlInv`, the order in which things stop; and
  `LifecycleSubscriptions` (`NoSequenceGap`, `ResubscriptionSafe`,
  `FailureIsVisible`) from `StreamInv`, which says that the newest subscription
  continues after the last message processed, that while the consumer runs only an
  ended subscription is closed, and that the retry timer runs only after one ended.
  `LifecycleResubscription` states the second of them by itself.
- `OrdererProofs!OrderingNeverForks`, from the invariant that every copy is
  a prefix of the ledger.
- `HcsProofs`, for any orderers, envelopes, chunk counts, delayed and repeated chunks,
  crashes and restarts: `HcsHashesArePending` and `HcsLedgerInLogOrder`, from
  `HcsInvariant`; `HcsTypeOK` bounds the marks of a chain by what it consumed. The
  second property is not inductive: a restarted orderer reads a part of the topic
  again and the property alone does not say why nothing of it gets into a block
  twice. `HcsInv` therefore bounds what an orderer holds: `InLine(blocks, batch, m)`
  says that the sequence numbers in its blocks and then its batch rise and that none
  is above `m`. While messages are processed `m` is the position in the topic, so the
  next message is above all of them; from a crash until the recollection of
  `chain.go:549` ends it is the timestamp the last block persisted, up to which
  messages are read without processing them. `Crash` keeps the bound because no block
  holds a message after the one it was cut at, unless that block is where `astray`
  sets in. `HcsChainProofs` has what one message does to a chain, case by case as in
  `process`: `Makes` names the state that results, `Grown` says that blocks and batch
  stay in line, and `Follows` combines the two; there is one lemma for each action of
  the network in `HcsProofs`.

Facts about lists and counters of any length need induction, and the library's
induction theorems cannot be instantiated by the provers. `DataInduction` restates
what is needed about sets: a non-empty set of naturals has a least element (from the
well-foundedness of `<`), so a set that holds 0 and is closed under successor holds
every natural number; a function given by a base and a step exists on `0 .. n`; and
what is left of a list from which keys are taken out has the order of the list. The
folds of the cutter and the processor are proved with these.

Only model-checked:

- liveness, which the prover does not handle;
- of `HcsNetwork`: `SamePositionSameState`, `ValidatedUnderCurrentConfig`,
  `NeverGivesUp` and the refinement of `OrderingService`. The agreement of two
  orderers says that a chain is a function of the topic up to its position. That
  function is a recursion over the topic, and after a restart it starts anew from a
  block's metadata with fewer pending chunks; an invariant strong enough must say
  what every chunk between the two positions contributes;
- of `RaftChain`: all properties and the refinement. They need an invariant of
  `EtcdRaft` as well as of the proposing goroutines;
- of `KvLedger`: all properties. They compare six stores with a replay of the chain,
  and what the folds in `Mvcc` compute in general is an induction over data.

## 7. What is not modelled

- HCS: several channels in one process and the topic map, public keys that change
  with the configuration, two faults in one behaviour (a crash together with a delayed
  or repeated chunk is covered by the proofs only), health checks,
  parsing of the configuration; in `ChainLifecycle`, an exit of `processMessages`
  by an error and a stream that ends without one.
- Raft: additions and certificate rotations of consenters, leadership transfer,
  forwarding of messages to the leader, `ValidateConsensusMetadata`; the messages of
  the library.
- Peer: rich queries and pagination, the purge of the private data store itself,
  changes of collection membership, truncation of a block file after a failed
  write, the config history database, snapshots.
- The registrar and the creation of channels by the system channel, the deliver
  service, kafka, follower and inactive chains, channel participation, cluster
  communication; endorser, chaincode, gossip's transport, discovery, MSP and
  cryptography, command line tools. They are upstream Fabric around the parts
  above: mostly I/O, wiring, encodings and policy evaluation with little shared
  state of their own. `PROJECT.json` gives the reason for each.

## 8. Plan

1. `Registrar`: creation of a channel by a system channel block and its replay
   after a crash; the HCS topic map with several channels.
2. `RaftChain` with added consenters and three nodes, on a smaller log.
3. The purge and the reconciliation bookkeeping of the private data store.
4. Proofs: agreement of `HcsNetwork`, because each chain is a function of the prefix
   it has consumed; the savepoint invariant of `KvLedger` (no store ahead of the
   block store but the private data store).

## Running

```
tlc -workers 2 -config MCHcsFaults.cfg MCHcsNetwork
tlapm HcsProofs.tla
```

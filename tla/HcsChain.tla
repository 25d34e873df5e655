------------------------------ MODULE HcsChain ------------------------------
(***************************************************************************)
(* What orderer/consensus/hcs/chain.go does with the messages of its HCS   *)
(* topic: the part of chainImpl that is a function of the topic alone.     *)
(*                                                                         *)
(* The topic numbers its messages 1, 2, 3, ... and gives them increasing   *)
(* consensus timestamps, so a timestamp is identified with the sequence    *)
(* number of its message.  An envelope is opaque; the hash of an HcsMess-  *)
(* age is the message itself.  For the properties a block remembers, with  *)
(* each transaction, the message it came in and that message's sequence    *)
(* number, and in cutAt the message that caused it to be cut.              *)
(***************************************************************************)
EXTENDS AppMsgProcessor, BlockCutter

CONSTANTS SizeOf,     \* [envelopes -> Nat]: payload plus signature bytes
          BatchSize   \* the channel's BatchSize: count and bytes

ASSUME HcsChainAssumption ==
  BatchSize \in [maxMessageCount : Nat \ {0}, preferredMaxBytes : Nat]

-----------------------------------------------------------------------------
(* The messages: newNormalMessage, newConfigMessage, newTimeToCutMessage-  *)
(* WithBlockNumber, newTimeToCutMessageWithMessageHash, newOrdererStarted- *)
(* Message.                                                                *)

newNormalMessage(env, configSeq, originalSeq) ==
  [type |-> "normal", env |-> env, configSeq |-> configSeq,
   originalSeq |-> originalSeq]

newConfigMessage(env, configSeq, originalSeq) ==
  [type |-> "config", env |-> env, configSeq |-> configSeq,
   originalSeq |-> originalSeq]

newTimeToCutMessageWithBlockNumber(n) == [type |-> "cutBlock", blockNumber |-> n]

newTimeToCutMessageWithMessageHash(h) == [type |-> "cutHash", messageHash |-> h]

newOrdererStartedMessage(app) == [type |-> "started", ordererIdentity |-> app]

-----------------------------------------------------------------------------
(* The state of a chain.  blocks are the blocks cut after the genesis      *)
(* block, so Len(blocks) is lastCutBlockNumber; sequence is the sequence   *)
(* number of the channel configuration in force.                           *)

(* Faulty start: LastOriginalSequenceProcessed is not restored.            *)
newChainForgetsOriginal(blocks) ==
  [lastSequenceProcessed |-> IF blocks = <<>> THEN 0 ELSE blocks[Len(blocks)].chunkFree,
   lastChunkFree         |-> IF blocks = <<>> THEN 0 ELSE blocks[Len(blocks)].chunkFree,
   lastOrderered         |-> 0,
   lastOriginal          |-> 0,
   sequence              |-> Cardinality({i \in DOMAIN blocks : blocks[i].config}),
   receiver              |-> NewReceiver,
   messageHashes         |-> {},
   processor             |-> newAppMsgProcessor,
   blocks                |-> blocks]

(* getStateFromMetadata and newChain: what a chain starts from when the    *)
(* ledger holds the given blocks.                                          *)
newChain(blocks) ==
  LET last == IF blocks = <<>>
                THEN [persisted |-> 0, original |-> 0, chunkFree |-> 0]
                ELSE blocks[Len(blocks)]
  IN  [lastSequenceProcessed |-> last.chunkFree,
       lastChunkFree         |-> last.chunkFree,
       lastOrderered         |-> 0,
       lastOriginal          |-> last.original,
       sequence              |-> Cardinality({i \in DOMAIN blocks : blocks[i].config}),
       receiver              |-> NewReceiver,
       messageHashes         |-> {},
       processor             |-> newAppMsgProcessor,
       blocks                |-> blocks]

lastCutBlockNumber(c) == Len(c.blocks)

(* Faulty write: the hashes of the batch stay behind.                      *)
WriteBlockKeepsHashes(c, batch, isConfig, timestamp) ==
  [c EXCEPT !.sequence = IF isConfig THEN @ + 1 ELSE @,
            !.blocks = Append(@, [txs       |-> batch,
                                  config    |-> isConfig,
                                  persisted |-> timestamp,
                                  original  |-> c.lastOriginal,
                                  chunkFree |-> c.lastChunkFree,
                                  cutAt     |-> c.lastSequenceProcessed])]

(* WriteBlock: stamp a block with the metadata a restart reads.            *)
WriteBlock(c, batch, isConfig, timestamp) ==
  [c EXCEPT !.messageHashes = IF isConfig THEN @ ELSE {},
            !.sequence = IF isConfig THEN @ + 1 ELSE @,
            !.blocks = Append(@, [txs       |-> batch,
                                  config    |-> isConfig,
                                  persisted |-> timestamp,
                                  original  |-> c.lastOriginal,
                                  chunkFree |-> c.lastChunkFree,
                                  cutAt     |-> c.lastSequenceProcessed])]

advance(c, timestamp, newOriginal) ==
  [c EXCEPT !.lastOriginal = newOriginal, !.lastOrderered = timestamp]

(* commitNormalMessage: the message joins the pending batch, and none, one *)
(* or two blocks are cut.  A block that does not hold the message is       *)
(* stamped with the previous message's timestamp.                          *)
commitNormalMessage(c, msg, timestamp, newOriginal) ==
  LET res == Ordered(c.receiver, [msg |-> msg, seq |-> timestamp],
                     SizeOf[msg.env], BatchSize)
      n   == Len(res.batches)
      c0  == [c EXCEPT !.receiver = res.receiver]
      c1  == IF n = 0 \/ (n = 1 /\ ~res.pending)
               THEN advance(c0, timestamp, newOriginal)
               ELSE c0
      c2  == IF n = 0 THEN c1
                      ELSE WriteBlock(c1, res.batches[1], FALSE, c1.lastOrderered)
      c3  == IF n < 2 THEN c2
                      ELSE WriteBlock(advance(c2, timestamp, newOriginal),
                                      res.batches[2], FALSE, timestamp)
  IN  IF res.pending THEN [c3 EXCEPT !.messageHashes = @ \cup {msg}] ELSE c3

(* commitConfigMessage: the pending batch first, then the config block.    *)
commitConfigMessage(c, msg, timestamp, newOriginal) ==
  LET cut == Cut(c.receiver)
      c1  == [c EXCEPT !.receiver = cut.receiver]
      c2  == IF cut.batch = <<>>
               THEN c1
               ELSE WriteBlock(c1, cut.batch, FALSE, c1.lastOrderered)
  IN  WriteBlock([c2 EXCEPT !.lastOriginal = newOriginal],
                 <<[msg |-> msg, seq |-> timestamp]>>, TRUE, timestamp)

-----------------------------------------------------------------------------
(* processRegularMessage: a resubmitted message at or below lastOriginal   *)
(* was consumed already; one validated under an older configuration is     *)
(* revalidated and resubmitted by every orderer; any other is committed.   *)

consumed(c, msg) == msg.originalSeq # 0 /\ msg.originalSeq <= c.lastOriginal

stale(c, msg) == ~consumed(c, msg) /\ msg.configSeq < c.sequence

(* Faulty dispatch: a message validated under an old configuration is      *)
(* committed as it is.                                                     *)
processRegularUnchecked(c, msg, seq) ==
  LET newOriginal == IF msg.originalSeq = 0 THEN c.lastOriginal
                                            ELSE msg.originalSeq
  IN  IF msg.type = "config"
        THEN commitConfigMessage(c, msg, seq, newOriginal)
        ELSE commitNormalMessage(c, msg, seq, newOriginal)

processRegularMessage(c, msg, seq) ==
  LET newOriginal == IF msg.originalSeq = 0 THEN c.lastOriginal
                                            ELSE msg.originalSeq
  IN  IF consumed(c, msg) \/ stale(c, msg) THEN c
      ELSE IF msg.type = "config"
        THEN commitConfigMessage(c, msg, seq, newOriginal)
        ELSE commitNormalMessage(c, msg, seq, newOriginal)

(* processTimeToCutMessage: the message asks for the next block by number, *)
(* or by the hash of a message still pending.                              *)
createBlock(c, msg) ==
  \/ msg.type = "cutBlock" /\ msg.blockNumber = lastCutBlockNumber(c) + 1
  \/ msg.type = "cutHash" /\ msg.messageHash \in c.messageHashes

(* The error returns of processTimeToCutMessage, which end processMessages.*)
timeToCutError(c, msg) ==
  \/ msg.type = "cutBlock" /\ msg.blockNumber > lastCutBlockNumber(c) + 1
  \/ createBlock(c, msg) /\ c.receiver.pendingBatch = <<>>

processTimeToCutMessage(c, msg, seq) ==
  LET cut == Cut(c.receiver)
  IN  IF createBlock(c, msg) /\ cut.batch # <<>>
        THEN WriteBlock([c EXCEPT !.receiver = cut.receiver,
                                  !.lastOriginal = seq],
                        cut.batch, FALSE, seq)
        ELSE c

processOrdererStartedMessage(c, msg) ==
  [c EXCEPT !.processor = ExpireByAppID(@, msg.ordererIdentity)]

-----------------------------------------------------------------------------
(* The body of processMessages for one response of the subscription:       *)
(* collect records the chunk, process dispatches the message it completed. *)

collect(c, chunk) ==
  LET seq == c.lastSequenceProcessed + 1
      res == Reassemble(c.processor, chunk, seq)
  IN  [message |-> res.message,
       chain   |-> [c EXCEPT !.lastSequenceProcessed = seq,
                             !.processor = res.processor,
                             !.lastChunkFree =
                               IF IsPending(res.processor) THEN @ ELSE seq]]

isRegular(msg) == msg # NoMessage /\ msg.type \in {"normal", "config"}

isTimeToCut(msg) == msg # NoMessage /\ msg.type \in {"cutBlock", "cutHash"}

process(c, msg) ==
  CASE isRegular(msg)   -> processRegularMessage(c, msg, c.lastSequenceProcessed)
    [] isTimeToCut(msg) -> processTimeToCutMessage(c, msg, c.lastSequenceProcessed)
    [] msg # NoMessage /\ msg.type = "started"
                        -> processOrdererStartedMessage(c, msg)
    [] OTHER            -> c
=============================================================================

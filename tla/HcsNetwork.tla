----------------------------- MODULE HcsNetwork -----------------------------
(***************************************************************************)
(* A channel ordered by several HCS orderers: clients broadcast envelopes  *)
(* to orderers, orderers submit chunks to the topic and consume it, batch  *)
(* timers send time-to-cut messages, blocks become durable in the back-    *)
(* ground, and orderers crash and restart from their last durable block.   *)
(*                                                                         *)
(* The topic is the only link between orderers.  A chunk accepted by the   *)
(* network is ordered at once, or delayed and ordered later or never, so   *)
(* chunks overtake each other and get lost; a retried submission can be    *)
(* ordered twice.                                                          *)
(***************************************************************************)
EXTENDS HcsChain

CONSTANTS Orderers,
          Brokers,       \* the orderers clients send their envelopes to
          Normals,       \* envelopes of normal transactions
          Configs,       \* envelopes of configuration updates
          CountOf,       \* [Normals \cup Configs -> Nat]: chunks of an envelope
          MaxLog,        \* bound on the length of the topic
          FaultKinds,    \* which of "crash", "delay", "retry", "failure" happen
          MaxFaults      \* bound on the number of faults

Envelopes == Normals \cup Configs

ASSUME HcsNetworkAssumption == /\ Apps = Orderers
                               /\ Brokers \subseteq Orderers
                               /\ SizeOf \in [Envelopes -> Nat]
                               /\ CountOf \in [Envelopes -> Nat \ {0}]

VARIABLES log,         \* the topic: ordered chunks
          ideal,       \* history: the chain of an orderer that never stops and
                       \* has consumed the whole topic
          late,        \* chunks accepted by the network and not yet ordered
          calls,       \* the submission each client or orderer is in
          chain,       \* [Orderers -> what HcsChain describes]
          durable,     \* [Orderers -> blocks on disk when it last stopped]
          status,      \* [Orderers -> up, down, or why it stopped]
          recollect,   \* [Orderers -> timestamp to recollect chunks up to, or 0]
          resubmitted, \* [Orderers -> lastResubmittedConfigSequence]
          stamps,      \* [Orderers -> that value in each block's metadata]
          gate,        \* [Orderers -> doneReprocessingMsgInFlight]
          timers,      \* [Orderers -> the two batch timers]
          faults,      \* how many crashes, delays, retries and failures happened
          astray       \* history: [Orderers -> the first block it restarted from
                       \* that does not say where it was, or 0]

topic == <<log, late, ideal>>

vars == <<topic, calls, chain, durable, status, recollect, resubmitted,
          stamps, gate, timers, faults, astray>>

node == <<chain, durable, status, recollect, resubmitted, stamps, gate, astray>>

Idle == [stage |-> "idle"]

(* doneReprocessingMsgInFlight: the channel in use and those closed so far.*)
OpenGate == [channel |-> 0, closed |-> {0}]
ShutGate == [channel |-> 0, closed |-> {}]

StoppedTimers == [recv |-> 0, send |-> NoMessage]

(* The orderers have started; their OrdererStarted messages, which found   *)
(* nothing to expire, precede the log.                                     *)
Init == /\ log = <<>>
        /\ ideal = newChain(<<>>)
        /\ late = {}
        /\ calls = [x \in Envelopes \cup Orderers |-> Idle]
        /\ chain = [o \in Orderers |-> newChain(<<>>)]
        /\ durable = [o \in Orderers |-> 0]
        /\ status = [o \in Orderers |-> "up"]
        /\ recollect = [o \in Orderers |-> 0]
        /\ resubmitted = [o \in Orderers |-> 0]
        /\ stamps = [o \in Orderers |-> <<>>]
        /\ gate = [o \in Orderers |-> OpenGate]
        /\ timers = [o \in Orderers |-> StoppedTimers]
        /\ faults = 0
        /\ astray = [o \in Orderers |-> 0]

(* One more fault of a kind.                                               *)
Fault(kind) == /\ kind \in FaultKinds
               /\ faults < MaxFaults
               /\ faults' = faults + 1

-----------------------------------------------------------------------------
(* Submission.  A call is the record of a client's broadcast, or of the    *)
(* resubmission processMessages is in the middle of:                       *)
(* [stage, orderer, msg, key, next, channel].                              *)

chunksOf(msg) == IF isRegular(msg) THEN CountOf[msg.env] ELSE 1

chunk(o, msg, key, i) ==
  [key |-> key, app |-> o, count |-> chunksOf(msg), index |-> i, body |-> msg]

(* The id Split gives a message: its sender and a valid start that getUni- *)
(* queValidStart never hands out twice.  Every submission adds to the log  *)
(* or to late, so their sizes count the submissions made.                  *)
freshKey(o) == <<o, Len(log) + Cardinality(late) + 1>>

(* SubmitConsensusMessage: the network orders the chunk now, or delays it. *)
OnTopic(c) ==
  /\ Len(log) < MaxLog
  /\ log' = Append(log, c)
  /\ \E got \in {collect(ideal, c)} : ideal' = process(got.chain, got.message)

OrderNow(c) == OnTopic(c) /\ UNCHANGED late

Submit(c) ==
  \/ OrderNow(c) /\ UNCHANGED faults
  \/ /\ Fault("delay")
     /\ late' = late \cup {c}
     /\ UNCHANGED <<log, ideal>>

(* The network orders a delayed chunk.                                     *)
OrderLate(c) ==
  /\ OnTopic(c)
  /\ late' = late \ {c}
  /\ UNCHANGED <<calls, node, timers, faults>>

(* A broadcast: ProcessNormalMsg or ProcessConfigUpdateMsg validates the   *)
(* envelope under the current configuration, whose sequence goes into the  *)
(* message; then WaitReady reads doneReprocessingMsgInFlight once and goes *)
(* on if that channel is closed.  Nothing stops an accepted call from      *)
(* being slow: the chunks of SendChunk may follow much later.              *)
Broadcast(e, o) ==
  /\ status[o] = "up"
  /\ calls[e] = Idle
  /\ calls' = [calls EXCEPT ![e] =
       [stage   |-> IF gate[o].channel \in gate[o].closed THEN "sending"
                                                          ELSE "waiting",
        orderer |-> o,
        msg     |-> IF e \in Normals
                      THEN newNormalMessage(e, chain[o].sequence, 0)
                      ELSE newConfigMessage(e, chain[o].sequence, 0),
        key     |-> <<>>,
        next    |-> 0,
        channel |-> gate[o].channel]]
  /\ UNCHANGED <<topic, node, timers, faults>>

(* WaitReady returns once the channel it read is closed.                   *)
WaitReady(e) ==
  /\ calls[e].stage = "waiting"
  /\ calls[e].channel \in gate[calls[e].orderer].closed
  /\ calls' = [calls EXCEPT ![e].stage = "sending"]
  /\ UNCHANGED <<topic, node, timers, faults>>

(* The next chunk of enqueueChecked.  After the last one order asks for    *)
(* the sending side timer; a resubmitted config message shuts the gate.    *)
SendChunk(x) ==
  LET call == calls[x]
      o    == call.orderer
      key  == IF call.key = <<>> THEN freshKey(o) ELSE call.key
      last == call.next + 1 = chunksOf(call.msg)
  IN  /\ call.stage = "sending"
      /\ Submit(chunk(o, call.msg, key, call.next))
      /\ calls' = [calls EXCEPT ![x] =
           IF ~last THEN [call EXCEPT !.key = key, !.next = @ + 1]
           ELSE IF x \in Orderers THEN Idle
           ELSE [call EXCEPT !.stage = "done"]]
      /\ timers' = IF last /\ call.msg.type = "normal"
                      /\ timers[o].send = NoMessage
                     THEN [timers EXCEPT ![o].send = call.msg]
                     ELSE timers
      /\ IF last /\ x \in Orderers /\ call.msg.type = "config"
           THEN /\ resubmitted' = [resubmitted EXCEPT ![o] = call.msg.originalSeq]
                /\ gate' = [gate EXCEPT ![o].channel = @ + 1]
           ELSE UNCHANGED <<resubmitted, gate>>
      /\ UNCHANGED <<chain, durable, status, recollect, stamps, astray>>

(* The network ordered the chunk but answered with an error enqueueChecked *)
(* retries.                                                                *)
RetryChunk(x) ==
  LET call == calls[x]
      key  == IF call.key = <<>> THEN freshKey(call.orderer) ELSE call.key
  IN  /\ call.stage = "sending"
      /\ Fault("retry")
      /\ OrderNow(chunk(call.orderer, call.msg, key, call.next))
      /\ calls' = [calls EXCEPT ![x].key = key]
      /\ UNCHANGED <<node, timers>>

(* A chunk fails for good: the message is abandoned where it is.           *)
AbortSend(x) ==
  /\ calls[x].stage = "sending"
  /\ Fault("failure")
  /\ calls' = [calls EXCEPT ![x] = IF x \in Orderers THEN Idle
                                   ELSE [@ EXCEPT !.stage = "done"]]
  /\ UNCHANGED <<topic, node, timers>>

-----------------------------------------------------------------------------
(* Consumption: processMessages.                                           *)

stamped(o, blocks, value) ==
  [i \in DOMAIN blocks |-> IF i <= Len(stamps[o]) THEN stamps[o][i] ELSE value]

(* A resubmitted config message that was not consumed yet.                 *)
reprocessing(c, msg) ==
  /\ isRegular(msg)
  /\ msg.type = "config"
  /\ msg.originalSeq # 0
  /\ ~consumed(c, msg)

(* Faulty gate: any resubmitted config message that is valid opens it.     *)
reprocessCompleteForAny(o, c, msg) ==
  /\ reprocessing(c, msg)
  /\ msg.configSeq = c.sequence

(* It is the last one this orderer waits for, and needs no resubmission.   *)
reprocessComplete(o, c, msg) ==
  /\ reprocessing(c, msg)
  /\ msg.originalSeq = resubmitted[o]
  /\ msg.configSeq = c.sequence

closed(g) == [g EXCEPT !.closed = @ \cup {g.channel}]

(* Faulty timer: it asks for the block cut last, not for the next one.     *)
recvTimerOffByOne(running, before, after) ==
  LET kept  == IF Len(after.blocks) > Len(before.blocks) THEN 0 ELSE running
      batch == after.receiver.pendingBatch
      joined == batch # <<>> /\ batch[Len(batch)].seq = after.lastSequenceProcessed
  IN  IF joined /\ kept = 0 THEN lastCutBlockNumber(after) ELSE kept

(* The receiving side timer: stopped when a block is cut, started, unless  *)
(* it runs, when the message just processed is left pending.               *)
recvTimer(running, before, after) ==
  LET kept  == IF Len(after.blocks) > Len(before.blocks) THEN 0 ELSE running
      batch == after.receiver.pendingBatch
      joined == batch # <<>> /\ batch[Len(batch)].seq = after.lastSequenceProcessed
  IN  IF joined /\ kept = 0 THEN lastCutBlockNumber(after) + 1 ELSE kept

(* The message a stale regular message is resubmitted as.                  *)
resubmission(o, c, msg) ==
  [stage |-> "sending", orderer |-> o, key |-> <<>>, next |-> 0, channel |-> 0,
   msg |-> [msg EXCEPT !.configSeq = c.sequence, !.originalSeq = c.lastSequenceProcessed]]

(* The effects of a processed message: its chain went from before to after.*)
Processed(o, msg, before, after) ==
  LET isStale   == isRegular(msg) /\ stale(before, msg)
      completes == reprocessComplete(o, before, msg)
      value     == IF reprocessing(before, msg) /\ msg.originalSeq > resubmitted[o]
                     THEN msg.originalSeq ELSE resubmitted[o]
  IN  /\ chain' = [chain EXCEPT ![o] = after]
      /\ resubmitted' = [resubmitted EXCEPT ![o] = value]
      /\ stamps' = [stamps EXCEPT ![o] = stamped(o, after.blocks, value)]
      /\ gate' = IF completes THEN [gate EXCEPT ![o] = closed(@)] ELSE gate
      /\ status' = [status EXCEPT ![o] =
           IF completes /\ gate[o].channel \in gate[o].closed THEN "closedTwice"
           ELSE IF isTimeToCut(msg) /\ timeToCutError(before, msg) THEN "exited"
           ELSE @]
      /\ timers' = [timers EXCEPT ![o].recv = recvTimer(@, before, after)]
      /\ \/ /\ isStale
            /\ calls' = [calls EXCEPT ![o] = resubmission(o, before, msg)]
            /\ UNCHANGED faults
         \/ isStale /\ Fault("failure") /\ UNCHANGED calls
         \/ ~isStale /\ UNCHANGED <<calls, faults>>

(* One response outside recollection.                                      *)
Deliver(o) ==
  /\ status[o] = "up"
  /\ recollect[o] = 0
  /\ calls[o] = Idle
  /\ chain[o].lastSequenceProcessed < Len(log)
  /\ \E got \in {collect(chain[o], log[chain[o].lastSequenceProcessed + 1])} :
       \E after \in {process(got.chain, got.message)} :
         Processed(o, got.message, got.chain, after)
  /\ UNCHANGED <<topic, durable, recollect, astray>>

(* One response while chunks are recollected after a restart: messages are *)
(* reassembled and not processed, up to the persisted timestamp.           *)
Recollected(o, msg, after) ==
  LET seq  == after.lastSequenceProcessed
      done == msg # NoMessage /\ seq = recollect[o]
  IN  /\ chain' = [chain EXCEPT ![o] = after]
      /\ recollect' = IF done THEN [recollect EXCEPT ![o] = 0] ELSE recollect
      /\ gate' = IF done /\ resubmitted[o] <= after.lastOriginal
                   THEN [gate EXCEPT ![o] = closed(@)] ELSE gate
      /\ status' = IF msg # NoMessage /\ seq > recollect[o]
                     THEN [status EXCEPT ![o] = "overran"] ELSE status

Recollect(o) ==
  /\ status[o] = "up"
  /\ recollect[o] # 0
  /\ chain[o].lastSequenceProcessed < Len(log)
  /\ \E got \in {collect(chain[o], log[chain[o].lastSequenceProcessed + 1])} :
       Recollected(o, got.message, got.chain)
  /\ UNCHANGED <<topic, calls, durable, resubmitted, stamps, timers, faults, astray>>

(* A batch timer fires; the time-to-cut message is submitted, or fails.    *)
SubmitOrFail(c) == Submit(c) \/ (Fault("failure") /\ UNCHANGED topic)

FireRecvTimer(o) ==
  /\ status[o] = "up"
  /\ timers[o].recv # 0
  /\ timers' = [timers EXCEPT ![o].recv = 0]
  /\ SubmitOrFail(chunk(o, newTimeToCutMessageWithBlockNumber(timers[o].recv),
                        freshKey(o), 0))
  /\ UNCHANGED <<calls, node>>

FireSendTimer(o) ==
  /\ status[o] = "up"
  /\ timers[o].send # NoMessage
  /\ timers' = [timers EXCEPT ![o].send = NoMessage]
  /\ SubmitOrFail(chunk(o, newTimeToCutMessageWithMessageHash(timers[o].send),
                        freshKey(o), 0))
  /\ UNCHANGED <<calls, node>>

(* The subscription broke and was renewed after the last timestamp; a      *)
(* stale time-to-cut message provokes a response.                          *)
Resubscribe(o) ==
  /\ status[o] = "up"
  /\ calls[o] = Idle
  /\ Fault("failure")
  /\ OrderNow(chunk(o, newTimeToCutMessageWithBlockNumber(lastCutBlockNumber(chain[o])),
                    freshKey(o), 0))
  /\ UNCHANGED <<calls, node, timers>>

-----------------------------------------------------------------------------
(* Durability, crashes and restarts.                                       *)

(* A restart from block d puts the chain of o back where it was: the block *)
(* holds no message later than the one it is stamped with; no orderer      *)
(* started among the messages that are only recollected; and the message   *)
(* it was cut at, if it went into the pending batch, was no resubmission   *)
(* (which commitNormalMessage would count as consumed when it meets it     *)
(* again with nothing pending, and does not when it overflows the batch).  *)
Resumable(o, d) ==
  LET b == chain[o].blocks[d]
  IN  d = 0 \/ /\ \A tx \in Range(b.txs) : tx.seq <= b.persisted
               /\ \A i \in b.chunkFree + 1 .. b.persisted :
                    log[i].body.type # "started"
               /\ \/ b.persisted = b.cutAt
                  \/ log[b.cutAt].body.originalSeq = 0
                  \/ d < Len(ideal.blocks) /\ ideal.blocks[d + 1].cutAt = b.cutAt

(* The block writer returns before the block it was given is on disk, and  *)
(* waits for the block before it: a crash loses at most the last block     *)
(* written since the start, and everything that is not in a block; clients *)
(* of the orderer get no answer.                                           *)
Crash(o) ==
  /\ status[o] \in {"up", "exited"}
  /\ Fault("crash")
  /\ status' = [status EXCEPT ![o] = "down"]
  /\ \E d \in {Len(chain[o].blocks) - 1, Len(chain[o].blocks)} :
       /\ d >= durable[o]
       /\ durable' = [durable EXCEPT ![o] = d]
       /\ astray' = [astray EXCEPT ![o] = IF @ = 0 /\ ~Resumable(o, d) THEN d ELSE @]
       /\ chain' = [chain EXCEPT ![o] = newChain(SubSeq(@.blocks, 1, d))]
       /\ stamps' = [stamps EXCEPT ![o] = SubSeq(@, 1, d)]
       /\ resubmitted' = [resubmitted EXCEPT ![o] = IF d = 0 THEN 0
                                                    ELSE stamps[o][d]]
  /\ calls' = [x \in DOMAIN calls |->
                 IF calls[x] = Idle \/ calls[x].orderer # o THEN calls[x]
                 ELSE IF x \in Orderers THEN Idle
                 ELSE [calls[x] EXCEPT !.stage = "done"]]
  /\ timers' = [timers EXCEPT ![o] = StoppedTimers]
  /\ UNCHANGED <<topic, recollect, gate>>

(* Faulty restart: chunks already in blocks are not recollected first.     *)
RestartWithoutRecollection(o) ==
  /\ status[o] = "down"
  /\ status' = [status EXCEPT ![o] = "up"]
  /\ recollect' = [recollect EXCEPT ![o] = 0]
  /\ gate' = [gate EXCEPT ![o] = OpenGate]
  /\ Submit(chunk(o, newOrdererStartedMessage(o), freshKey(o), 0))
  /\ UNCHANGED <<calls, chain, durable, resubmitted, stamps, timers, astray>>

(* newChain and startThread: refuse metadata that cannot be, recollect     *)
(* chunks if some were pending, announce the start.                        *)
Restart(o) ==
  LET c == chain[o]
      persisted == IF c.blocks = <<>> THEN 0 ELSE c.blocks[Len(c.blocks)].persisted
      caughtUp == /\ persisted = c.lastChunkFree
                  /\ resubmitted[o] <= c.lastOriginal
  IN  /\ status[o] = "down"
      /\ IF c.lastChunkFree > persisted
           THEN /\ status' = [status EXCEPT ![o] = "refused"]
                /\ UNCHANGED <<topic, recollect, gate, faults>>
           ELSE /\ status' = [status EXCEPT ![o] = "up"]
                /\ recollect' = [recollect EXCEPT ![o] =
                                   IF persisted = c.lastChunkFree THEN 0
                                                                  ELSE persisted]
                /\ gate' = [gate EXCEPT ![o] = IF caughtUp THEN OpenGate
                                                           ELSE ShutGate]
                /\ Submit(chunk(o, newOrdererStartedMessage(o), freshKey(o), 0))
      /\ UNCHANGED <<calls, chain, durable, resubmitted, stamps, timers, astray>>

Next ==
  \/ \E e \in Envelopes, o \in Brokers : Broadcast(e, o)
  \/ \E e \in Envelopes : WaitReady(e)
  \/ \E x \in Envelopes \cup Orderers : SendChunk(x) \/ RetryChunk(x) \/ AbortSend(x)
  \/ \E c \in late : OrderLate(c)
  \/ \E o \in Orderers : \/ Deliver(o) \/ Recollect(o)
                          \/ FireRecvTimer(o) \/ FireSendTimer(o)
                          \/ Resubscribe(o)
                          \/ Crash(o) \/ Restart(o)

Spec == Init /\ [][Next]_vars

(* The goroutines of a running orderer keep going: processMessages takes   *)
(* the next response, enqueueChecked sends the next chunk, a started timer *)
(* fires.  Nothing makes a client send or a crashed orderer come back.     *)
Fairness ==
  /\ \A o \in Orderers : /\ WF_vars(Deliver(o)) /\ WF_vars(Recollect(o))
                         /\ WF_vars(FireRecvTimer(o)) /\ WF_vars(FireSendTimer(o))
  /\ \A x \in Envelopes \cup Orderers : WF_vars(SendChunk(x))

FairSpec == Spec /\ Fairness
-----------------------------------------------------------------------------
Txs(c) == UNION {Range(c.blocks[i].txs) : i \in DOMAIN c.blocks}
            \cup Range(c.receiver.pendingBatch)

Committed(c) == {tx.msg.env : tx \in Txs(c)}

(* Every orderer, running or not, is in a legal state of its own: the      *)
(* topic position, marks and metadata never run ahead of what was consumed.*)
TypeOK ==
  \A o \in Orderers :
    /\ chain[o].lastSequenceProcessed \in 0 .. Len(log)
    /\ chain[o].lastChunkFree \in 0 .. chain[o].lastSequenceProcessed
    /\ chain[o].lastOrderered \in 0 .. chain[o].lastSequenceProcessed
    /\ durable[o] \in 0 .. Len(chain[o].blocks)
    /\ Len(stamps[o]) = Len(chain[o].blocks)
    /\ status[o] \in {"up", "down", "refused", "exited", "overran", "closedTwice"}

(* What must agree between orderers, the data of a block: the metadata may *)
(* lag at an orderer that recollected chunks, and is ahead at one that met *)
(* a message that overflowed the batch again, with nothing pending.        *)
Contents(blocks) ==
  [i \in DOMAIN blocks |-> [txs |-> blocks[i].txs, config |-> blocks[i].config]]

(* The blocks of an orderer up to the first one it lost its way after.     *)
Followed(o) == IF astray[o] = 0 THEN chain[o].blocks
                                ELSE SubSeq(chain[o].blocks, 1, astray[o])

NoneAstray == \A o \in Orderers : astray[o] = 0

Service == INSTANCE OrderingService
             WITH Nodes   <- Orderers,
                  channel <- Contents(ideal.blocks),
                  copy    <- [o \in Orderers |-> Contents(Followed(o))]

(* (Refinement.)  The topic alone determines the ledger, and every orderer *)
(* follows it: a message ordered by the topic extends the one sequence of  *)
(* blocks, an orderer's blocks are always a prefix of it, and a crash      *)
(* takes back at most the last one, which is later cut again as it was.    *)
(* After a restart from a block that is not resumable an orderer is held   *)
(* to the blocks up to that one only.                                      *)
ImplementsOrderingService == Service!ServiceSpec

(* A restart loses no position: two running orderers that consumed the     *)
(* topic up to the same message (and past the one their last block was cut *)
(* at) hold the same blocks, the same pending batch, the same pending      *)
(* hashes and the same lastOriginalSequenceProcessed, even if one of them  *)
(* rebuilt all of it from the metadata of resumable blocks.                *)
SamePositionSameState ==
  \A o, p \in Orderers :
    LET c == chain[o]  d == chain[p]
    IN  (/\ {status[o], status[p]} = {"up"}
         /\ astray[o] = 0 /\ astray[p] = 0
         /\ recollect[o] = 0 /\ recollect[p] = 0
         /\ c.lastSequenceProcessed = d.lastSequenceProcessed
         /\ \A i \in DOMAIN c.blocks : c.blocks[i].cutAt <= c.lastSequenceProcessed
         /\ \A i \in DOMAIN d.blocks : d.blocks[i].cutAt <= d.lastSequenceProcessed)
        => /\ Len(c.blocks) = Len(d.blocks)
           /\ c.receiver = d.receiver
           /\ c.messageHashes = d.messageHashes
           /\ c.lastOriginal = d.lastOriginal

(* No message of the topic is put into the ledger twice or out of topic    *)
(* order, also across restarts from resumable blocks: the sequence numbers *)
(* of the transactions in an orderer's blocks, then in its pending batch,  *)
(* strictly increase.                                                      *)
LedgerInLogOrder ==
  \A o \in {p \in Orderers : astray[p] = 0} :
    LET c == chain[o]
        batches == Append([i \in DOMAIN c.blocks |-> c.blocks[i].txs],
                          c.receiver.pendingBatch)
    IN  \A i, j \in DOMAIN batches :
          \A a \in DOMAIN batches[i], b \in DOMAIN batches[j] :
            (i < j \/ (i = j /\ a < b)) => batches[i][a].seq < batches[j][b].seq

(* Every transaction was validated under the configuration in force at its *)
(* block: the pending batch is cut before a config block, and a message    *)
(* validated earlier is revalidated and resubmitted instead ("they are     *)
(* definitely valid here" in processRegularMessage).  An orderer that went *)
(* astray numbers its configurations in its own way, so the messages it    *)
(* sends are no longer validated under the configurations of the others.   *)
ValidatedUnderCurrentConfig ==
  NoneAstray => \A o \in Orderers :
    LET c == chain[o]
        configsBefore(n) == Cardinality({i \in 1 .. n - 1 : c.blocks[i].config})
    IN  /\ \A n \in DOMAIN c.blocks : \A tx \in Range(c.blocks[n].txs) :
             tx.msg.configSeq = configsBefore(n)
        /\ \A tx \in Range(c.receiver.pendingBatch) : tx.msg.configSeq = c.sequence

(* messageHashes holds exactly the hashes of the messages in the block     *)
(* cutter, so a time-to-cut message by hash cuts if and only if its        *)
(* message is still pending.                                               *)
HashesArePending ==
  \A o \in Orderers :
    chain[o].messageHashes = {tx.msg : tx \in Range(chain[o].receiver.pendingBatch)}

(* The conditions processMessages gives up on never arise: a time-to-cut   *)
(* message for a block too far ahead or with nothing pending, a recollec-  *)
(* tion that runs past the persisted timestamp, a second close of          *)
(* doneReprocessingMsgInFlight.  (An orderer that went astray may number   *)
(* its blocks ahead of the others and send such a message.)                *)
NeverGivesUp ==
  NoneAstray => \A o \in Orderers :
                  status[o] \notin {"exited", "overran", "closedTwice"}

(* A batch does not stay open: at an orderer that keeps running, an        *)
(* envelope in the pending batch gets into a block, because the receiving  *)
(* side timer asks for the next block even when the orderer that sent the  *)
(* envelope, and its timer, are gone.                                      *)
PendingIsCut ==
  \A o \in Orderers, e \in Normals :
    (e \in {tx.msg.env : tx \in Range(chain[o].receiver.pendingBatch)})
      ~> \/ \E i \in DOMAIN chain[o].blocks :
              e \in {tx.msg.env : tx \in Range(chain[o].blocks[i].txs)}
         \/ status[o] # "up"

(* What the check in startThread takes for granted: the metadata an        *)
(* orderer wrote itself is never "corrupted", so an orderer that crashed   *)
(* can start again from its last durable block.                            *)
RestartAccepted == \A o \in Orderers : status[o] # "refused"

(* What the comment on HcsMetadata says: the timestamp a block persists is *)
(* that of the last ordered message in it, so a restart that resumes after *)
(* it does not meet a transaction of the block again.                      *)
MetadataCoversBlock ==
  \A o \in Orderers : \A i \in DOMAIN chain[o].blocks :
    \A tx \in Range(chain[o].blocks[i].txs) :
      tx.seq <= chain[o].blocks[i].persisted

(* The regular message an orderer is about to process, if any.             *)
Upcoming(o) ==
  IF status[o] = "up" /\ recollect[o] = 0 /\ chain[o].lastSequenceProcessed < Len(log)
    THEN collect(chain[o], log[chain[o].lastSequenceProcessed + 1]).message
    ELSE NoMessage

(* What the discard branch says: a resubmitted message at or below         *)
(* lastOriginalSequenceProcessed "has been consumed already", that is, its *)
(* envelope is in a block or in the pending batch.                         *)
DiscardedWasConsumed ==
  \A o \in Orderers :
    (isRegular(Upcoming(o)) /\ consumed(chain[o], Upcoming(o)))
      => Upcoming(o).env \in Committed(chain[o])

(* What the other branch says: above lastOriginalSequenceProcessed "this   *)
(* is the first time we receive this re-submitted normal message".         *)
FirstTimeReceived ==
  \A o \in Orderers :
    (/\ isRegular(Upcoming(o))
     /\ Upcoming(o).originalSeq # 0
     /\ ~consumed(chain[o], Upcoming(o)))
      => Upcoming(o).env \notin Committed(chain[o])

(* What the comment in WaitReady says: a client waits for resubmitted      *)
(* messages "to be reprocessed".  It never waits on a channel that was     *)
(* replaced without having been closed: nobody would close it.             *)
NoStrandedWaiter ==
  \A e \in Envelopes :
    (calls[e] # Idle /\ calls[e].stage = "waiting")
      => LET g == gate[calls[e].orderer]
         IN  calls[e].channel = g.channel \/ calls[e].channel \in g.closed
=============================================================================

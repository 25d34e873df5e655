-------------------------- MODULE BlockCutterSpec --------------------------
(***************************************************************************)
(* The block cutter under the calls its consenters make: Ordered for every *)
(* normal message, Cut when a timer or a config message closes the batch,  *)
(* and a new BatchSize once a config message (which cuts first) commits.   *)
(***************************************************************************)
EXTENDS BlockCutter, FiniteSetsExt

CONSTANTS Envelopes,     \* the envelopes clients may send
          Size,          \* [Envelopes -> Nat]: payload plus signature bytes
          BatchSizes,    \* the BatchSize values the channel may be given
          MaxFed         \* bound on the calls of Ordered

ASSUME BlockCutterAssumption ==
  /\ Size \in [Envelopes -> Nat]
  /\ \A b \in BatchSizes : /\ b.maxMessageCount \in Nat \ {0}
                           /\ b.preferredMaxBytes \in Nat
  /\ MaxFed \in Nat

VARIABLES receiver,   \* the receiver struct
          batchSize,  \* what sharedConfigFetcher.OrdererConfig() returns
          fed,        \* history: every envelope given to Ordered
          emitted,    \* history: every envelope handed out in a batch
          last        \* history: the result of the last call

vars == <<receiver, batchSize, fed, emitted, last>>

CutResult == [op |-> "cut", batches |-> <<>>, pending |-> FALSE]

Init == /\ receiver = NewReceiver
        /\ batchSize \in BatchSizes
        /\ fed = <<>>
        /\ emitted = <<>>
        /\ last = CutResult

Concat(batches) ==
  CASE Len(batches) = 0 -> <<>>
    [] Len(batches) = 1 -> batches[1]
    [] OTHER            -> batches[1] \o batches[2]

CallOrdered(env) ==
  /\ Len(fed) < MaxFed
  /\ LET res == Ordered(receiver, env, Size[env], batchSize)
     IN  /\ receiver' = res.receiver
         /\ last' = [op |-> "ordered", batches |-> res.batches,
                     pending |-> res.pending]
         /\ emitted' = emitted \o Concat(res.batches)
  /\ fed' = Append(fed, env)
  /\ UNCHANGED batchSize

CallCut ==
  /\ receiver' = Cut(receiver).receiver
  /\ emitted' = emitted \o Cut(receiver).batch
  /\ last' = CutResult
  /\ UNCHANGED <<batchSize, fed>>

(* A config block replaces the orderer config only after its consenter has *)
(* cut the pending batch (commitConfigMessage).                            *)
Reconfigure ==
  /\ receiver' = Cut(receiver).receiver
  /\ emitted' = emitted \o Cut(receiver).batch
  /\ batchSize' \in BatchSizes \ {batchSize}
  /\ last' = CutResult
  /\ UNCHANGED fed

Next == CallCut \/ Reconfigure \/ \E env \in Envelopes : CallOrdered(env)

Spec == Init /\ [][Next]_vars
-----------------------------------------------------------------------------
Bytes(batch) ==
  LET sum[n \in 0 .. Len(batch)] ==
        IF n = 0 THEN 0 ELSE sum[n - 1] + Size[batch[n]]
  IN  sum[Len(batch)]

(* The type of the state; the running byte count of the receiver stays     *)
(* within PreferredMaxBytes.                                               *)
TypeOK ==
  /\ receiver \in [pendingBatch : Seq(Envelopes), pendingBatchSizeBytes : Nat]
  /\ receiver.pendingBatchSizeBytes <= batchSize.preferredMaxBytes
  /\ batchSize \in BatchSizes
  /\ fed \in Seq(Envelopes)
  /\ emitted \in Seq(Envelopes)
  /\ last \in [op : {"ordered", "cut"}, batches : Seq(Seq(Envelopes)),
              pending : BOOLEAN]

(* Over any interleaving of Ordered, Cut and reconfiguration no envelope   *)
(* is lost, duplicated or overtaken: what was handed out in batches,       *)
(* followed by what is still pending, is what was fed, in the same order.  *)
NothingLost == emitted \o receiver.pendingBatch = fed

(* The running uint32 byte count is the true size of the pending batch as  *)
(* long as that size is a uint32, so the overflow test compares the right  *)
(* number; a batch handed out never exceeds MaxMessageCount, and exceeds   *)
(* PreferredMaxBytes only when a single oversized envelope was isolated or *)
(* when the sum in Ordered wrapped around, which takes a batch of          *)
(* Uint32Size bytes (no validation of the orderer config rules it out).    *)
(* The results which the comment on Ordered calls impossible never happen, *)
(* and the pending flag is exact: the HCS chain decides by it which        *)
(* timestamp goes into which block.                                        *)
BatchesBounded ==
  /\ Bytes(receiver.pendingBatch) < Uint32Size
       => receiver.pendingBatchSizeBytes = Bytes(receiver.pendingBatch)
  /\ Len(receiver.pendingBatch) < batchSize.maxMessageCount
  /\ last.op = "ordered" =>
       /\ \A i \in DOMAIN last.batches :
            /\ Len(last.batches[i]) \in 1..batchSize.maxMessageCount
            /\ Bytes(last.batches[i]) > batchSize.preferredMaxBytes
                 => \/ Len(last.batches[i]) = 1
                    \/ Bytes(last.batches[i]) >= Uint32Size
       /\ Len(last.batches) <= IF last.pending THEN 1 ELSE 2
       /\ last.batches = <<>> => last.pending
       /\ last.pending <=> receiver.pendingBatch # <<>>
=============================================================================

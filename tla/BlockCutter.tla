---------------------------- MODULE BlockCutter ----------------------------
(***************************************************************************)
(* The batching arithmetic of orderer/common/blockcutter: what one call of *)
(* Ordered or Cut returns and what it leaves in the receiver.  An envelope *)
(* is opaque; only its size in bytes matters.  Sizes are uint32 in the     *)
(* program, so their sum is taken modulo Uint32Size.                       *)
(***************************************************************************)
EXTENDS Naturals, Sequences

CONSTANT Uint32Size   \* 2^32 in the program, smaller in a model

ASSUME Uint32Assumption == Uint32Size \in Nat \ {0}

NewReceiver == [pendingBatch |-> <<>>, pendingBatchSizeBytes |-> 0]

(* Faulty Cut: the pending batch is not cleared.                           *)
CutKeepsBatch(r) == [batch |-> r.pendingBatch, receiver |-> r]

(* Faulty Cut: the byte count is not reset.                                *)
CutKeepsSize(r) ==
  [batch |-> r.pendingBatch,
   receiver |-> [NewReceiver EXCEPT
                   !.pendingBatchSizeBytes = r.pendingBatchSizeBytes]]

(* Cut hands over the pending batch and starts an empty one.               *)
Cut(r) == [batch |-> r.pendingBatch, receiver |-> NewReceiver]

(* A message above PreferredMaxBytes is isolated in a batch of its own,    *)
(* after the pending batch if there is one.                                *)
OrderedIsolated(r, msg) ==
  IF r.pendingBatch = <<>>
    THEN [batches |-> <<<<msg>>>>, pending |-> FALSE, receiver |-> r]
    ELSE [batches |-> <<Cut(r).batch, <<msg>>>>, pending |-> FALSE,
          receiver |-> Cut(r).receiver]

(* Any other message first cuts a pending batch it would overflow, then    *)
(* joins the pending batch, which is cut again when it is full.            *)
OrderedBatched(r, msg, size, batchSize) ==
  LET overflow == (r.pendingBatchSizeBytes + size) % Uint32Size
                    > batchSize.preferredMaxBytes
      first    == IF overflow THEN <<Cut(r).batch>> ELSE <<>>
      before   == IF overflow THEN Cut(r).receiver ELSE r
      joined   == [pendingBatch |-> Append(before.pendingBatch, msg),
                   pendingBatchSizeBytes |->
                     (before.pendingBatchSizeBytes + size) % Uint32Size]
  IN  IF Len(joined.pendingBatch) >= batchSize.maxMessageCount
        THEN [batches |-> Append(first, Cut(joined).batch), pending |-> FALSE,
              receiver |-> Cut(joined).receiver]
        ELSE [batches |-> first, pending |-> TRUE, receiver |-> joined]

Ordered(r, msg, size, batchSize) ==
  IF size > batchSize.preferredMaxBytes
    THEN OrderedIsolated(r, msg)
    ELSE OrderedBatched(r, msg, size, batchSize)
=============================================================================

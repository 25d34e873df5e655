-------------------------------- MODULE Mvcc --------------------------------
(***************************************************************************)
(* How the peer decides which transactions of a block take effect, and     *)
(* what they write: simulation of a transaction against the committed      *)
(* state, multi-version concurrency control at commit, the merging of      *)
(* value and metadata writes into one update batch, and the batch of       *)
(* private values that goes with it.                                       *)
(*                                                                         *)
(* core/ledger/kvledger/txmgmt/validation: validator.go, tx_ops.go,        *)
(* types.go, rangequery_validator.go, combined_iterator.go,                *)
(* batch_preparer.go.                                                      *)
(*                                                                         *)
(* A state is a function from the keys that exist to [val, meta, ver].     *)
(* Public keys and the hashed keys of private data are validated and       *)
(* updated alike, so one function holds both; the raw private values are   *)
(* a second function [val, ver].  A value stands for the transaction that  *)
(* wrote it, and so does its hash: distinct writers write distinct values. *)
(* A version is <<block number, position in the block>>.                   *)
(***************************************************************************)
EXTENDS Integers, Sequences, SequencesExt, TLC

CONSTANTS
    Txs,        \* the transactions clients may ask the peer to endorse
    PubKeys,    \* public keys, all in the range the range queries scan
    PvtKeys,    \* keys of one private data collection
    Program,    \* what each transaction reads and writes
    Nil         \* the value of a deleted key in an update batch

Keys == PubKeys \cup PvtKeys
WriteOps == {"put", "del", "meta", "putmeta"}

ASSUME MvccAssumption ==
    /\ PubKeys \cap PvtKeys = {}
    /\ Nil \notin Txs
    /\ \A t \in Txs :
        /\ Program[t].reads \subseteq Keys
        /\ Program[t].scans \in BOOLEAN
        /\ DOMAIN Program[t].ops \subseteq Keys
        /\ \A k \in DOMAIN Program[t].ops : Program[t].ops[k] \in WriteOps

NoVersion == << >>
VersionOf(db, k) == IF k \in DOMAIN db THEN db[k].ver ELSE NoVersion

\* The state after a batch: deleted keys are gone.
Overlay(db, updates) ==
    LET kept == {k \in DOMAIN db \cup DOMAIN updates :
                    k \in DOMAIN updates => updates[k].val # Nil}
    IN  [k \in kept |-> IF k \in DOMAIN updates THEN updates[k] ELSE db[k]]

\* Keys and versions a range query over all public keys returns from the
\* committed state overlaid with a batch (the combined iterator).
RangeResults(db, updates) ==
    {<<k, VersionOf(Overlay(db, updates), k)>> :
        k \in PubKeys \cap DOMAIN Overlay(db, updates)}

(***************************************************************************)
(* Simulation: the read set an endorsement carries.                        *)
(***************************************************************************)

\* A private read is refused unless the raw value at hand has the version of
\* its hash.
PrivateReadable(db, pvt, k) ==
    VersionOf(db, k) = (IF k \in DOMAIN pvt THEN pvt[k].ver ELSE NoVersion)

CanSimulate(t, db, pvt) ==
    \A k \in Program[t].reads \cap PvtKeys : PrivateReadable(db, pvt, k)

getState(t, db) == [k \in Program[t].reads |-> VersionOf(db, k)]

\* What the iterator of a range query recorded by the time it is exhausted.
rangeQueryInfo(t, db) == IF Program[t].scans THEN {RangeResults(db, << >>)} ELSE {}

Simulate(t, db) == [tx |-> t, reads |-> getState(t, db), range |-> rangeQueryInfo(t, db)]

PvtWrites(rw) == PvtKeys \cap DOMAIN Program[rw.tx].ops
HasPvtWrites(rw) == PvtWrites(rw) # {}

(***************************************************************************)
(* Validation of one transaction against the committed state and the       *)
(* updates of the valid transactions before it in the block.               *)
(***************************************************************************)

validateKVRead(k, ver, db, updates) ==
    /\ k \notin DOMAIN updates
    /\ VersionOf(db, k) = ver

validateReadSet(rw, db, updates) ==
    \A k \in DOMAIN rw.reads : validateKVRead(k, rw.reads[k], db, updates)

\* Faulty check: the versions of the results are not compared.
sameKeys(results, again) == {r[1] : r \in results} = {r[1] : r \in again}

\* The query run again yields the results of the simulation, one by one.
sameResults(results, again) == results = again

validateRangeQuery(rw, db, updates) ==
    \A results \in rw.range : sameResults(results, RangeResults(db, updates))

validateTx(rw, db, updates) ==
    /\ validateReadSet(rw, db, updates)
    /\ validateRangeQuery(rw, db, updates)

(***************************************************************************)
(* The writes of one transaction, merged with the latest state.            *)
(***************************************************************************)

\* The entry of a key in the batch so far, else in the committed state.
HasLatest(k, db, updates) == k \in DOMAIN updates \cup DOMAIN db
Latest(k, db, updates) == IF k \in DOMAIN updates THEN updates[k] ELSE db[k]

\* Faulty lookup: what the block wrote so far is not seen.
retrieveLatestMetadataFromDB(k, db, updates) ==
    IF k \in DOMAIN db THEN db[k].meta ELSE Nil

retrieveLatestMetadata(k, db, updates) ==
    IF HasLatest(k, db, updates) THEN Latest(k, db, updates).meta ELSE Nil

\* A metadata-only write to a key that exists nowhere does nothing.
prepareTxOps(rw, ver, db, updates) ==
    LET ops == Program[rw.tx].ops
        effective == {k \in DOMAIN ops :
                         ops[k] = "meta" => HasLatest(k, db, updates)}
    IN  [k \in effective |->
            CASE ops[k] = "del"     -> [val |-> Nil, meta |-> Nil, ver |-> ver]
              [] ops[k] = "put"     -> [val  |-> rw.tx,
                                        meta |-> retrieveLatestMetadata(k, db, updates),
                                        ver  |-> ver]
              [] ops[k] = "putmeta" -> [val |-> rw.tx, meta |-> rw.tx, ver |-> ver]
              [] ops[k] = "meta"    -> [val  |-> Latest(k, db, updates).val,
                                        meta |-> rw.tx,
                                        ver  |-> ver]]

\* A metadata-only write to a key that an earlier transaction of the block
\* deleted hands PutValAndMetadata a nil value, and it panics.
WritesNilValue(rw, db, updates) ==
    \E k \in DOMAIN Program[rw.tx].ops :
        /\ Program[rw.tx].ops[k] = "meta"
        /\ k \in DOMAIN updates
        /\ updates[k].val = Nil

applyWriteSet(rw, ver, db, updates) == prepareTxOps(rw, ver, db, updates) @@ updates

\* Validation flags and update batch of block number num.  Recovery passes
\* the flags stored with the block and validates nothing.
validateAndPrepareBatch(block, num, db, doMVCCValidation, stored) ==
    LET step(acc, i) ==
            LET valid == IF doMVCCValidation
                         THEN validateTx(block[i], db, acc.updates)
                         ELSE stored[i]
            IN  [flags   |-> Append(acc.flags, valid),
                 updates |-> IF valid
                             THEN applyWriteSet(block[i], <<num, i>>, db, acc.updates)
                             ELSE acc.updates,
                 panics  |-> acc.panics \/ (valid /\ WritesNilValue(block[i], db, acc.updates))]
    IN  FoldLeftDomain(step, [flags |-> << >>, updates |-> << >>, panics |-> FALSE], block)

(***************************************************************************)
(* The private values of the block's valid transactions that are at hand.  *)
(***************************************************************************)

addPvtRWSetToPvtUpdateBatch(rw, ver, pvtUpdates) ==
    LET ops == Program[rw.tx].ops
    IN  [k \in {w \in PvtWrites(rw) : ops[w] # "meta"} |->
            [val |-> IF ops[k] = "del" THEN Nil ELSE rw.tx, ver |-> ver]] @@ pvtUpdates

metadataUpdates(block, supplied) ==
    UNION {{k \in PvtWrites(block[i]) : Program[block[i].tx].ops[k] \in {"meta", "putmeta"}} :
              i \in supplied}

\* Faulty renewal: the raw value may be older than the one hashed.
incrementPvtdataVersionAlways(keys, pvtUpdates, updates, pvt) ==
    LET latest == pvtUpdates @@ pvt
        renewed == {k \in keys \cap DOMAIN updates \cap DOMAIN latest :
                       updates[k].val # Nil /\ latest[k].val # Nil}
    IN  [k \in renewed |-> [val |-> latest[k].val, ver |-> updates[k].ver]] @@ pvtUpdates

\* A metadata-only write renews the version of the hashed key: the raw value
\* follows when it is the value the hash is of.  A deletion has no hash.
incrementPvtdataVersionIfNeeded(keys, pvtUpdates, updates, pvt) ==
    LET latest == pvtUpdates @@ pvt
        renewed == {k \in keys \cap DOMAIN updates \cap DOMAIN latest :
                       /\ updates[k].val # Nil
                       /\ latest[k].ver # updates[k].ver
                       /\ latest[k].val = updates[k].val}
    IN  [k \in renewed |-> [val |-> latest[k].val, ver |-> updates[k].ver]] @@ pvtUpdates

\* at is the set of positions whose private data the committer holds.
validateAndPreparePvtBatch(block, num, flags, at, updates, pvt) ==
    LET supplied == {i \in at : flags[i] /\ HasPvtWrites(block[i])}
        step(acc, i) == IF i \in supplied
                        THEN addPvtRWSetToPvtUpdateBatch(block[i], <<num, i>>, acc)
                        ELSE acc
    IN  incrementPvtdataVersionIfNeeded(metadataUpdates(block, supplied),
            FoldLeftDomain(step, << >>, block), updates, pvt)

=============================================================================

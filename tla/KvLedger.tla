------------------------------ MODULE KvLedger ------------------------------
(***************************************************************************)
(* The ledger of one peer on one channel: a block is validated, its        *)
(* private data stored, the block appended and indexed, and then the state *)
(* database, the expiry bookkeeping of private data and the history        *)
(* database follow.  No two of these stores are updated in one write: a    *)
(* crash can come between any two steps, and recovery brings every store   *)
(* up to the block store.  At the same time the reconciler fetches private *)
(* data that was missing when its block was committed, and an operator may *)
(* roll the ledger back, reset it or have its databases rebuilt.           *)
(*                                                                         *)
(* core/ledger/kvledger: kv_ledger.go, rollback.go, reset.go,              *)
(* rebuild_dbs.go, drop_dbs.go, history/db.go; txmgmt/txmgr/               *)
(* lockbased_txmgr.go; txmgmt/pvtstatepurgemgmt; core/ledger/              *)
(* pvtdatastorage/store.go; gossip/privdata/coordinator.go, reconcile.go;  *)
(* internal/peer/node/start.go (the filter after a reset).                 *)
(*                                                                         *)
(* One collection, of which this peer is a member.  Heights count blocks:  *)
(* a database whose savepoint is block n has height n + 1, one without a   *)
(* savepoint has height 0.                                                 *)
(***************************************************************************)
EXTENDS Mvcc, BlockStore, FiniteSets

CONSTANTS
    BTL,            \* blocks private data lives for; 0: for ever
    MaxHeight,      \* bound on the chain the orderers make
    MaxBlockTxs,    \* bound on the transactions of a block
    MaxCrashes,     \* bound on crashes
    Operations,     \* offline operations the operator may run: <<name, target block>>
    MaxOperations   \* bound on how many

ASSUME KvLedgerAssumption ==
    /\ BTL \in Nat
    /\ {MaxHeight, MaxBlockTxs, MaxCrashes, MaxOperations} \subseteq Nat
    /\ Operations \subseteq ({"rollback"} \X Nat) \cup ({"reset", "rebuild"} \X {0})

VARIABLES
    chain,      \* the blocks the orderers made, as sequences of endorsed transactions
    replay,     \* history variable: what each block of the chain should come to
    endorsed,   \* endorsed transactions not yet in a block
    seen,       \* height of the state the last endorsement was made on
    bs,         \* the block store
    pv,         \* the private data store: height, data at hand, data missing
    st,         \* the state database: public and hashed keys, raw private values, height
    hist,       \* the history database: entries and height
    expiry,     \* the purge manager's bookkeeping of what expires when
    preReset,   \* the height recorded by rollback and reset; 0: no file
    mem,        \* the running peer: where the committer is and what it holds
    rec,        \* the reconciler
    maint,      \* the offline operation in progress
    operations, \* offline operations run so far
    crashes

vars == <<chain, replay, endorsed, seen, bs, pv, st, hist, expiry, preReset, mem, rec,
          maint, operations, crashes>>

stores == <<bs, pv, st, hist, expiry, preReset>>
outside == <<chain, replay, endorsed, seen>>
operator == <<maint, operations, crashes>>

NoHash == << >>
NoWork == [blk |-> 0, toPurge |-> << >>, clear |-> {}]
NoBlock == [num |-> 0, flags |-> << >>, updates |-> << >>, pvt |-> << >>,
            at |-> {}, lost |-> FALSE]
IdleReconciler == [pc |-> "idle", got |-> {}, writes |-> << >>]
NoOperation == [op |-> "none", target |-> 0, step |-> 0]
NotPreparing == [pc |-> "idle", work |-> NoWork]
Down == [pc |-> "down", cur |-> NoBlock, hash |-> NoHash, ahead |-> FALSE,
         work |-> NoWork, prep |-> NotPreparing, usedOnce |-> FALSE, reject |-> FALSE]

EmptyState == [db |-> << >>, pvt |-> << >>, save |-> 0]
EmptyHistory == [entries |-> {}, save |-> 0]

\* Where the committer can be while the peer serves: waiting for a block, or
\* inside CommitLegacy.
Committing == {"validated", "pvt", "appended", "indexed", "expiry", "state", "done"}
Serving == mem.pc \in {"ready"} \cup Committing /\ ~mem.cur.lost
\* The transaction manager's Commit holds oldBlockCommit.
InTxMgrCommit == mem.pc \in {"expiry", "state"}
\* So does RemoveStaleAndCommitPvtDataOfOldBlocks.
InOldBlockCommit == rec.pc = "scheduled"
\* CommitLegacy holds blockAPIsRWLock from the private data store on.
InBlockCommit == Serving /\ mem.pc \notin {"ready", "validated"}

Height == height(bs.info)
Positions(n) == DOMAIN chain[n + 1]
PvtPositions(n) == {i \in Positions(n) : HasPvtWrites(chain[n + 1][i])}

\* GetExpiringBlock, and the height at which it has passed.
ExpiringBlock(n) == n + BTL + 1
Expired(n, ht) == BTL # 0 /\ ht > ExpiringBlock(n)

(***************************************************************************)
(* The purge manager                                                       *)
(***************************************************************************)

ExpiryEntry(k, ver, raw) ==
    [at |-> ExpiringBlock(ver[1]), blk |-> ver[1], key |-> k, raw |-> raw]

\* Which private keys of a batch expire when; raw: the raw key is known.
buildExpirySchedule(updates, pvtUpdates) ==
    LET hashOnly == (PvtKeys \cap DOMAIN updates) \ DOMAIN pvtUpdates
    IN  IF BTL = 0 THEN {}
        ELSE {ExpiryEntry(k, pvtUpdates[k].ver, TRUE) :
                 k \in {p \in DOMAIN pvtUpdates : pvtUpdates[p].val # Nil}}
             \cup {ExpiryEntry(k, updates[k].ver, FALSE) :
                 k \in {h \in hashOnly : updates[h].val # Nil}}

\* What block number n will purge, were it committed on the present state: a
\* hashed key not written since, with its raw value if known; or only a raw
\* value that stayed behind its hash.
prepareWorkingsetFor(n) ==
    LET entries == {e \in expiry : e.at = n}
        sameHash(e) == e.key \in DOMAIN st.db /\ st.db[e.key].ver[1] = e.blk
        sameRaw(e) == e.raw /\ e.key \in DOMAIN st.pvt /\ st.pvt[e.key].ver[1] = e.blk
        keys == {e.key : e \in {d \in entries : sameHash(d) \/ sameRaw(d)}}
    IN  [blk     |-> n,
         toPurge |-> [k \in keys |->
             [raw     |-> \E e \in entries : e.key = k /\ e.raw,
              keyOnly |-> \A e \in entries : e.key = k => ~sameHash(e)]],
         clear   |-> {e.blk : e \in entries}]

Deletion(n) == [val |-> Nil, meta |-> Nil, ver |-> <<n, 0>>]

\* AddExpiredEntriesToUpdateBatch: the keys the block itself writes stay.
ExpiredHashes(work, updates) ==
    {k \in DOMAIN work.toPurge : ~work.toPurge[k].keyOnly} \ DOMAIN updates
ExpiredRaw(work, pvtUpdates) ==
    {k \in DOMAIN work.toPurge : work.toPurge[k].raw} \ DOMAIN pvtUpdates

\* addMissingPvtDataToWorkingSet
AddToWorkingSet(work, writes) ==
    LET kept == {k \in DOMAIN work.toPurge :
                    ~(k \in DOMAIN writes /\ work.toPurge[k].keyOnly)}
    IN  [work EXCEPT !.toPurge = [k \in kept |->
            [@[k] EXCEPT !.raw = @ \/ k \in DOMAIN writes]]]

(***************************************************************************)
(* The reference: transactions one after the other, each on the state the  *)
(* valid ones before it left, and private keys purged when they expire.    *)
(***************************************************************************)

SerialTx(acc, rw, ver) ==
    LET ops == Program[rw.tx].ops
        valid == /\ \A k \in DOMAIN rw.reads : VersionOf(acc.db, k) = rw.reads[k]
                 /\ \A r \in rw.range : r = RangeResults(acc.db, << >>)
        kept == (DOMAIN acc.db \ {k \in DOMAIN ops : ops[k] = "del"})
                    \cup {k \in DOMAIN ops : ops[k] \in {"put", "putmeta"}}
        entry(k) ==
            IF k \notin DOMAIN ops THEN acc.db[k]
            ELSE [val  |-> IF ops[k] = "meta" THEN acc.db[k].val ELSE rw.tx,
                  meta |-> IF ops[k] # "put" THEN rw.tx
                           ELSE IF k \in DOMAIN acc.db THEN acc.db[k].meta ELSE Nil,
                  ver  |-> ver]
    IN  [flags |-> Append(acc.flags, valid),
         db    |-> IF valid THEN [k \in kept |-> entry(k)] ELSE acc.db]

SerialBlock(before, block, n) ==
    LET step(acc, i) == SerialTx(acc, block[i], <<n, i>>)
        after == FoldLeftDomain(step, [flags |-> << >>, db |-> before.db], block)
        expired(k) == k \in PvtKeys /\ Expired(after.db[k].ver[1], n + 1)
        updates == validateAndPrepareBatch(block, n, before.db, TRUE, << >>).updates
    IN  [flags |-> after.flags,
         db    |-> [k \in {d \in DOMAIN after.db : ~expired(d)} |-> after.db[k]],
         hash  |-> IF n = 0 THEN NoHash
                   ELSE <<after.flags,
                          [k \in DOMAIN updates |-> <<updates[k].val, updates[k].ver>>],
                          before.hash>>]

(***************************************************************************)
(* Endorsement, and the orderers (external): any endorsed transactions, in *)
(* any order, make the next block; an empty one stands for a block of      *)
(* configuration.  A block is cut when the peer can take it: until then it *)
(* affects nothing here.                                                   *)
(***************************************************************************)

Used == {rw.tx : rw \in endorsed} \cup UNION {{b[i].tx : i \in DOMAIN b} : b \in Range(chain)}

\* The filter set at the start after a reset refuses every proposal.
Endorse(t) ==
    /\ Serving
    /\ ~mem.reject
    /\ t \notin Used
    /\ CanSimulate(t, st.db, st.pvt)
    /\ endorsed' = endorsed \cup {Simulate(t, st.db)}
    /\ seen' = st.save
    /\ UNCHANGED <<chain, replay, stores, mem, rec, operator>>

CutBlock ==
    /\ Len(chain) < MaxHeight
    /\ mem.pc = "ready" /\ Height = Len(chain)
    /\ \E txs \in {T \in SUBSET endorsed : Cardinality(T) <= MaxBlockTxs} :
        \E block \in SetToSeqs(txs) :
            /\ chain' = Append(chain, block)
            /\ replay' = Append(replay, SerialBlock(Last(replay), block, Len(chain)))
            /\ endorsed' = endorsed \ txs
    /\ UNCHANGED <<seen, stores, mem, rec, operator>>

(***************************************************************************)
(* The committer: StoreBlock, CommitLegacy, and recovery                   *)
(***************************************************************************)

\* GetPvtDataByBlockNum: expired data is not returned.
StoredPvtData(n) ==
    IF Expired(n, pv.height) THEN {} ELSE {i \in Positions(n) : <<n, i>> \in pv.data}

addBlockCommitHash(flags, updates) ==
    <<flags, [k \in DOMAIN updates |-> <<updates[k].val, updates[k].ver>>], mem.hash>>

Prepared(n, batch, at, lost) ==
    [num |-> n, flags |-> batch.flags, updates |-> batch.updates,
     pvt |-> validateAndPreparePvtBatch(chain[n + 1], n, batch.flags, at, batch.updates, st.pvt),
     at |-> at, lost |-> lost]

\* The next block arrives.  Its private data comes from the private data
\* store when that already has this block, else as much as can be had from
\* other peers.  Validation waits for the purge manager and for oldBlockCommit.
StoreBlock ==
    /\ mem.pc = "ready"
    /\ mem.prep.pc = "idle"
    /\ ~InOldBlockCommit
    /\ Height < Len(chain)
    /\ LET n == Height IN
       \E at \in IF n + 1 <= pv.height THEN {StoredPvtData(n)} ELSE SUBSET PvtPositions(n) :
       \E batch \in {validateAndPrepareBatch(chain[n + 1], n, st.db, TRUE, << >>)} :
           mem' = IF batch.panics THEN [mem EXCEPT !.pc = "panicked"]
                  ELSE [mem EXCEPT
                           !.pc = "validated",
                           !.cur = Prepared(n, batch, at, FALSE),
                           !.hash = IF n = 1 \/ @ # NoHash
                                    THEN addBlockCommitHash(batch.flags, batch.updates)
                                    ELSE @]
    /\ UNCHANGED <<outside, stores, rec, operator>>

\* The store keeps the data at hand and a record of what is missing.
pvtdataStoreCommit(n, at) ==
    [height  |-> n + 1,
     data    |-> pv.data \cup {<<n, i>> : i \in at},
     missing |-> pv.missing \cup {<<n, i>> : i \in PvtPositions(n) \ at}]

\* Faulty commit: whether the store is ahead is not looked at.
CommitPvtAlways ==
    /\ mem.pc = "validated"
    /\ LET n == mem.cur.num IN
       IF pv.height # n
       THEN /\ mem' = [mem EXCEPT !.pc = "failed"]
            /\ UNCHANGED pv
       ELSE /\ mem' = [mem EXCEPT !.pc = "pvt"]
            /\ pv' = pvtdataStoreCommit(n, mem.cur.at)
    /\ UNCHANGED <<outside, bs, st, hist, expiry, preReset, rec, operator>>

\* commitToPvtAndBlockStore, first half.  The private data store accepts only
\* its next block, and is left alone while it is ahead of the block store.
CommitPvt ==
    /\ mem.pc = "validated"
    /\ LET n == mem.cur.num IN
       IF mem.ahead
       THEN /\ mem' = [mem EXCEPT !.pc = "pvt"]
            /\ UNCHANGED pv
       ELSE IF pv.height # n
       THEN /\ mem' = [mem EXCEPT !.pc = "failed"]
            /\ UNCHANGED pv
       ELSE /\ mem' = [mem EXCEPT !.pc = "pvt"]
            /\ pv' = pvtdataStoreCommit(n, mem.cur.at)
    /\ UNCHANGED <<outside, bs, st, hist, expiry, preReset, rec, operator>>

AddBlock ==
    /\ mem.pc = "pvt"
    /\ bs' = appendBlock(bs, [num |-> mem.cur.num, flags |-> mem.cur.flags, hash |-> mem.hash])
    /\ mem' = [mem EXCEPT !.pc = "appended"]
    /\ UNCHANGED <<outside, pv, st, hist, expiry, preReset, rec, operator>>

\* The index and, with it, the store's height; the private data store is no
\* longer ahead once its last block is in the block store.
IndexBlock ==
    /\ mem.pc = "appended"
    /\ bs' = indexBlock(saveBlkfilesInfo(bs))
    /\ mem' = [mem EXCEPT !.pc = "indexed", !.ahead = @ /\ pv.height # mem.cur.num + 1]
    /\ UNCHANGED <<outside, pv, st, hist, expiry, preReset, rec, operator>>

(***************************************************************************)
(* The transaction manager's Commit, under oldBlockCommit: for a new block *)
(* and for one that recovery commits again.                                *)
(***************************************************************************)

\* Faulty first commit: the working set is not prepared.
UpdateExpiryInfoUnprepared ==
    /\ mem.pc = "indexed"
    /\ ~InOldBlockCommit
    /\ expiry' = {e \in expiry : e.blk # mem.cur.num}
                    \cup buildExpirySchedule(mem.cur.updates, mem.cur.pvt)
    /\ mem' = [mem EXCEPT !.pc = "expiry", !.usedOnce = TRUE]
    /\ UNCHANGED <<outside, bs, pv, st, hist, preReset, rec, operator>>

\* The schedule of block n replaces one left by an attempt before a crash.
UpdateExpiryInfo ==
    /\ mem.pc = "indexed"
    /\ ~InOldBlockCommit
    /\ expiry' = {e \in expiry : e.blk # mem.cur.num}
                    \cup buildExpirySchedule(mem.cur.updates, mem.cur.pvt)
    /\ mem' = [mem EXCEPT !.pc = "expiry",
                          !.work = IF mem.usedOnce THEN @ ELSE prepareWorkingsetFor(mem.cur.num),
                          !.usedOnce = TRUE]
    /\ UNCHANGED <<outside, bs, pv, st, hist, preReset, rec, operator>>

ApplyState ==
    /\ mem.pc = "expiry"
    /\ LET cur == mem.cur
           gone(keys) == [k \in keys |-> Deletion(cur.num)]
       IN  st' = [db   |-> Overlay(st.db, cur.updates @@ gone(ExpiredHashes(mem.work, cur.updates))),
                  pvt  |-> Overlay(st.pvt, cur.pvt @@ gone(ExpiredRaw(mem.work, cur.pvt))),
                  save |-> cur.num + 1]
    /\ mem' = [mem EXCEPT !.pc = "state"]
    /\ UNCHANGED <<outside, bs, pv, hist, expiry, preReset, rec, operator>>

\* BlockCommitDone; on the way out the purge manager is started on the next
\* block, in the background.
BlockCommitDone ==
    /\ mem.pc = "state"
    /\ expiry' = {e \in expiry : ~(e.at = mem.work.blk /\ e.blk \in mem.work.clear)}
    /\ mem' = [mem EXCEPT !.pc = IF mem.cur.lost THEN "recovering" ELSE "done",
                          !.work = NoWork,
                          !.prep = [pc |-> "asked", work |-> NoWork]]
    /\ UNCHANGED <<outside, bs, pv, st, hist, preReset, rec, operator>>

\* The background job reads the schedule and the state ...
PrepareForExpiringKeys ==
    /\ mem.prep.pc = "asked"
    /\ mem' = [mem EXCEPT !.prep = [pc |-> "read", work |-> prepareWorkingsetFor(mem.cur.num + 1)]]
    /\ UNCHANGED <<outside, stores, rec, operator>>

\* ... and leaves what it found for the next Commit.
PrepareDone ==
    /\ mem.prep.pc = "read"
    /\ mem' = [mem EXCEPT !.work = mem.prep.work, !.prep = NotPreparing]
    /\ UNCHANGED <<outside, stores, rec, operator>>

\* One history entry for every public value a valid transaction writes.
HistoryOf(n, flags) ==
    {e \in PubKeys \X {n} \X Positions(n) :
        LET ops == Program[chain[n + 1][e[3]].tx].ops
        IN  flags[e[3]] /\ e[1] \in DOMAIN ops /\ ops[e[1]] # "meta"}

\* Faulty history: invalid transactions are recorded too.
CommitHistoryOfInvalid ==
    /\ mem.pc = "done"
    /\ hist' = [entries |-> hist.entries \cup
                    HistoryOf(mem.cur.num, [i \in Positions(mem.cur.num) |-> TRUE]),
                save    |-> mem.cur.num + 1]
    /\ mem' = [mem EXCEPT !.pc = "ready", !.cur = [NoBlock EXCEPT !.num = mem.cur.num]]
    /\ UNCHANGED <<outside, bs, pv, st, expiry, preReset, rec, operator>>

CommitHistory ==
    /\ mem.pc = "done"
    /\ hist' = [entries |-> hist.entries \cup HistoryOf(mem.cur.num, mem.cur.flags),
                save    |-> mem.cur.num + 1]
    /\ mem' = [mem EXCEPT !.pc = "ready", !.cur = [NoBlock EXCEPT !.num = mem.cur.num]]
    /\ UNCHANGED <<outside, bs, pv, st, expiry, preReset, rec, operator>>

(***************************************************************************)
(* Start and recovery                                                      *)
(***************************************************************************)

\* newKVLedger: the block store repairs itself; databases ahead of it are an
\* error.
Start ==
    /\ mem.pc = "down"
    /\ maint = NoOperation
    /\ \E store \in {newBlockfileMgr(bs)} :
        /\ bs' = store
        /\ LET h == height(store.info) IN
           mem' = [Down EXCEPT !.pc = IF st.save > h \/ hist.save > h THEN "failed" ELSE "recovering",
                               !.hash = BlockAt(store, h - 1).hash,
                               !.ahead = pv.height > h,
                               !.reject = preReset # 0]
    /\ UNCHANGED <<outside, pv, st, hist, expiry, preReset, rec, operator>>

\* recommitLostBlocks: the database that lags goes first, with the flags
\* stored in the block and the private data at hand.
RecoverState ==
    /\ mem.pc = "recovering"
    /\ mem.prep.pc = "idle"
    /\ st.save < Height /\ st.save <= hist.save
    /\ LET n == st.save IN
       \E batch \in {validateAndPrepareBatch(chain[n + 1], n, st.db, FALSE, BlockAt(bs, n).flags)} :
           mem' = IF n >= pv.height THEN [mem EXCEPT !.pc = "failed"]
                  ELSE [mem EXCEPT !.pc = "indexed",
                                   !.cur = Prepared(n, batch, StoredPvtData(n), TRUE)]
    /\ UNCHANGED <<outside, stores, rec, operator>>

RecoverHistory ==
    /\ mem.pc = "recovering"
    /\ hist.save < Height /\ hist.save <= st.save
    /\ hist' = [entries |-> hist.entries \cup HistoryOf(hist.save, BlockAt(bs, hist.save).flags),
                save    |-> hist.save + 1]
    /\ UNCHANGED <<outside, bs, pv, st, expiry, preReset, mem, rec, operator>>

Recovered ==
    /\ mem.pc = "recovering"
    /\ st.save = Height /\ hist.save = Height
    /\ mem' = [mem EXCEPT !.pc = "ready", !.cur = [NoBlock EXCEPT !.num = mem.cur.num]]
    /\ UNCHANGED <<outside, stores, rec, operator>>

\* Faulty resetLoop: the recorded height is not waited for.
ClearPreResetHeightAtOnce ==
    /\ Serving /\ ~InBlockCommit
    /\ mem.reject
    /\ preReset' = 0
    /\ mem' = [mem EXCEPT !.reject = FALSE]
    /\ UNCHANGED <<outside, bs, pv, st, hist, expiry, rec, operator>>

\* Faulty resetLoop: one block more is waited for.
ClearPreResetHeightBeyond ==
    /\ Serving /\ ~InBlockCommit
    /\ mem.reject
    /\ Height > preReset
    /\ preReset' = 0
    /\ mem' = [mem EXCEPT !.reject = FALSE]
    /\ UNCHANGED <<outside, bs, pv, st, hist, expiry, rec, operator>>

\* resetLoop: once the ledger is back at the recorded height, the record is
\* removed and proposals are served again.
ClearPreResetHeight ==
    /\ Serving /\ ~InBlockCommit
    /\ mem.reject
    /\ Height >= preReset
    /\ preReset' = 0
    /\ mem' = [mem EXCEPT !.reject = FALSE]
    /\ UNCHANGED <<outside, bs, pv, st, hist, expiry, rec, operator>>

(***************************************************************************)
(* The reconciler                                                          *)
(***************************************************************************)

\* reconcile asks what is missing, takes no lock to do so, and fetches what
\* other peers have of it.
FetchReconciledItems ==
    /\ Serving
    /\ rec.pc = "idle"
    /\ ~mem.ahead
    /\ \E got \in SUBSET {m \in pv.missing : ~Expired(m[1], pv.height)} \ {{}} :
        rec' = [pc |-> "fetched", got |-> got, writes |-> << >>]
    /\ UNCHANGED <<outside, stores, mem, operator>>

\* CommitPvtDataOfOldBlocks looks up the transactions of the data, an error
\* for a block not yet stored, then RemoveStaleAndCommitPvtDataOfOldBlocks
\* waits for the purge manager.
WaitForPrepareToFinish ==
    /\ rec.pc = "fetched"
    /\ IF \A m \in rec.got : Indexed(bs, m[1])
       THEN /\ mem.prep.pc = "idle"
            /\ rec' = [rec EXCEPT !.pc = "waited"]
       ELSE rec' = IdleReconciler
    /\ UNCHANGED <<outside, stores, mem, operator>>

ReconciledOp(m, k) == Program[chain[m[1] + 1][m[2]].tx].ops[k]

\* The writes of valid transactions among the fetched data; of several to one
\* key the latest.
constructUniquePvtData(got) ==
    LET writes(k) == {m \in got : /\ BlockAt(bs, m[1]).flags[m[2]]
                                  /\ k \in PvtWrites(chain[m[1] + 1][m[2]])
                                  /\ ReconciledOp(m, k) # "meta"}
        before(v, w) == v[1] < w[1] \/ (v[1] = w[1] /\ v[2] < w[2])
        latest(k) == CHOOSE m \in writes(k) : \A w \in writes(k) : ~before(m, w)
    IN  [k \in {p \in PvtKeys : writes(p) # {}} |->
            [val |-> IF ReconciledOp(latest(k), k) = "del" THEN Nil
                     ELSE chain[latest(k)[1] + 1][latest(k)[2]].tx,
             ver |-> latest(k)]]

\* A deleted hash outdates all but deletions, another version all but the
\* same value.
checkIfPvtWriteIsStale(k, write) ==
    IF VersionOf(st.db, k) = NoVersion THEN write.val # Nil
    ELSE st.db[k].ver # write.ver /\ st.db[k].val # write.val

FreshWrites(got) ==
    LET unique == constructUniquePvtData(got)
    IN  [k \in {u \in DOMAIN unique : ~checkIfPvtWriteIsStale(u, unique[u])} |->
            [unique[k] EXCEPT !.ver = IF k \in DOMAIN st.db THEN st.db[k].ver ELSE @]]

\* Under oldBlockCommit: the schedule first ...
UpdateExpiryInfoOfPvtDataOfOldBlocks ==
    /\ rec.pc = "waited"
    /\ ~InTxMgrCommit
    /\ \E writes \in {FreshWrites(rec.got)} :
        /\ rec' = [rec EXCEPT !.pc = "scheduled", !.writes = writes]
        /\ mem' = [mem EXCEPT !.work = AddToWorkingSet(@, writes)]
        /\ expiry' = expiry \cup buildExpirySchedule(<< >>, writes)
    /\ UNCHANGED <<outside, bs, pv, st, hist, preReset, operator>>

\* ... then the state database, without a savepoint.
ApplyReconciled ==
    /\ rec.pc = "scheduled"
    /\ st' = [st EXCEPT !.pvt = Overlay(@, rec.writes)]
    /\ rec' = [rec EXCEPT !.pc = "applied"]
    /\ UNCHANGED <<outside, bs, pv, hist, expiry, preReset, mem, operator>>

\* The private data store last, with no lock held: what was missing is there.
CommitPvtDataOfOldBlocks ==
    /\ rec.pc = "applied"
    /\ pv' = [pv EXCEPT !.data = @ \cup rec.got, !.missing = @ \ rec.got]
    /\ rec' = IdleReconciler
    /\ UNCHANGED <<outside, bs, st, hist, expiry, preReset, mem, operator>>

(***************************************************************************)
(* Crashes and the operator                                                *)
(***************************************************************************)

\* Between any two writes, and within the append and the index write.
Crash ==
    /\ crashes < MaxCrashes
    /\ mem.pc # "down" \/ maint # NoOperation
    /\ crashes' = crashes + 1
    /\ bs' \in CASE mem.pc = "pvt"      -> TornAppends(bs)
                 [] mem.pc = "appended" -> TornIndexings(bs)
                 [] OTHER               -> {bs}
    /\ mem' = Down
    /\ rec' = IdleReconciler
    /\ maint' = NoOperation
    /\ UNCHANGED <<outside, pv, st, hist, expiry, preReset, operations>>

\* The peer is stopped, if it has not crashed, and an offline command is run.
Stop(op, target) ==
    /\ operations < MaxOperations
    /\ mem.pc \in {"ready", "down"}
    /\ maint = NoOperation
    /\ op = "rollback" => validateTargetBlkNum(bs, target)
    /\ mem' = Down
    /\ rec' = IdleReconciler
    /\ maint' = [op |-> op, target |-> target, step |-> 1]
    /\ operations' = operations + 1
    /\ UNCHANGED <<outside, stores, crashes>>

DropDBs == <<"state", "bookkeeper", "history">>
StepsOf(op) ==
    CASE op = "rollback" -> DropDBs \o <<"height", "index", "info", "files">>
      [] op = "reset"    -> DropDBs \o <<"dropindex", "height", "files">>
      [] op = "rebuild"  -> DropDBs \o <<"dropindex">>

At(step) == maint # NoOperation /\ StepsOf(maint.op)[maint.step] = step

NextStep ==
    maint' = IF maint.step = Len(StepsOf(maint.op)) THEN NoOperation
             ELSE [maint EXCEPT !.step = @ + 1]

\* dropDBs: the state database goes first.
DropStateDB ==
    /\ At("state")
    /\ st' = EmptyState
    /\ NextStep
    /\ UNCHANGED <<outside, bs, pv, hist, expiry, preReset, mem, rec, operations, crashes>>

DropBookkeeperDB ==
    /\ At("bookkeeper")
    /\ expiry' = {}
    /\ NextStep
    /\ UNCHANGED <<outside, bs, pv, st, hist, preReset, mem, rec, operations, crashes>>

DropHistoryDB ==
    /\ At("history")
    /\ hist' = EmptyHistory
    /\ NextStep
    /\ UNCHANGED <<outside, bs, pv, st, expiry, preReset, mem, rec, operations, crashes>>

RecordHeight ==
    /\ At("height")
    /\ preReset' = recordHeightIfGreaterThanPreviousRecording(bs, preReset)
    /\ NextStep
    /\ UNCHANGED <<outside, bs, pv, st, hist, expiry, mem, rec, operations, crashes>>

\* The index database: entries past the target, the info, or all of it.
CutIndex ==
    /\ \/ At("index") /\ bs' = rollbackBlockIndex(bs, maint.target)
       \/ At("info") /\ bs' = deleteBlkfilesInfo(bs)
       \/ At("dropindex") /\ bs' = DeleteBlockStoreIndex(bs)
    /\ NextStep
    /\ UNCHANGED <<outside, pv, st, hist, expiry, preReset, mem, rec, operations, crashes>>

TargetFile ==
    IF maint.op = "rollback" THEN binarySearchFileNumForBlock(bs, maint.target) ELSE 1

\* rollbackBlockFiles and resetToGenesisBlk: files after the target's are
\* removed one by one, from the last; then the target's is cut.  Without a
\* target file the command ends with an error.
CutFiles ==
    /\ At("files")
    /\ \/ /\ TargetFile = 0
          /\ NextStep
          /\ UNCHANGED bs
       \/ /\ TargetFile # 0
          /\ Len(bs.files) > TargetFile
          /\ bs' = removeLastFile(bs)
          /\ UNCHANGED maint
       \/ /\ Len(bs.files) = TargetFile
          /\ bs' = truncateLastFile(bs, maint.target)
          /\ NextStep
    /\ UNCHANGED <<outside, pv, st, hist, expiry, preReset, mem, rec, operations, crashes>>

(***************************************************************************)
(* The specification.  A peer that runs works on, one that is down is      *)
(* started, and a command that was begun goes on unless it crashes.        *)
(***************************************************************************)

Genesis == << >>
Init ==
    /\ chain = <<Genesis>>
    /\ replay = <<SerialBlock([db |-> << >>, hash |-> NoHash], Genesis, 0)>>
    /\ endorsed = {}
    /\ seen = 0
    /\ bs = newBlockfileMgr([files |-> << <<[num |-> 0, flags |-> << >>, hash |-> NoHash]>> >>,
                             partial |-> FALSE, info |-> NoInfo, index |-> 0])
    /\ pv = [height |-> 1, data |-> {}, missing |-> {}]
    /\ st = [EmptyState EXCEPT !.save = 1]
    /\ hist = [EmptyHistory EXCEPT !.save = 1]
    /\ expiry = {}
    /\ preReset = 0
    /\ mem = [Down EXCEPT !.pc = "ready"]
    /\ rec = IdleReconciler
    /\ maint = NoOperation
    /\ operations = 0
    /\ crashes = 0

Committer ==
    \/ StoreBlock \/ CommitPvt \/ AddBlock \/ IndexBlock
    \/ UpdateExpiryInfo \/ ApplyState \/ BlockCommitDone \/ CommitHistory
    \/ Start \/ RecoverState \/ RecoverHistory \/ Recovered

PurgeManager == PrepareForExpiringKeys \/ PrepareDone

Reconciler ==
    \/ FetchReconciledItems \/ WaitForPrepareToFinish
    \/ UpdateExpiryInfoOfPvtDataOfOldBlocks \/ ApplyReconciled
    \/ CommitPvtDataOfOldBlocks

Maintenance ==
    \/ DropStateDB \/ DropBookkeeperDB \/ DropHistoryDB
    \/ RecordHeight \/ CutIndex \/ CutFiles

Next ==
    \/ \E t \in Txs : Endorse(t)
    \/ CutBlock
    \/ Committer
    \/ PurgeManager
    \/ Reconciler
    \/ ClearPreResetHeight
    \/ Maintenance
    \/ \E operation \in Operations : Stop(operation[1], operation[2])
    \/ Crash

Spec == Init /\ [][Next]_vars

Fairness ==
    /\ WF_vars(Committer \/ PurgeManager \/ ClearPreResetHeight \/ Maintenance)
    /\ WF_vars(Reconciler)

FairSpec == Spec /\ Fairness

(***************************************************************************)
(* Properties                                                              *)
(***************************************************************************)

Versions == (0 .. MaxHeight) \X (0 .. MaxBlockTxs)
Placed == (0 .. MaxHeight - 1) \X (1 .. MaxBlockTxs)

\* Every variable keeps its shape, and no store counts more blocks than the
\* orderers made.
KvTypeOK ==
    /\ \A rw \in endorsed : rw.tx \in Txs
    /\ bs.index <= Len(chain) /\ NumBlocks(bs) <= Len(chain) /\ Height <= Len(chain)
    /\ {pv.height, st.save, hist.save, preReset, seen} \subseteq 0 .. Len(chain)
    /\ pv.data \subseteq Placed /\ pv.missing \subseteq Placed
    /\ pv.data \cap pv.missing = {}
    /\ DOMAIN st.db \subseteq Keys /\ DOMAIN st.pvt \subseteq PvtKeys
    /\ \A k \in DOMAIN st.db : st.db[k].val \in Txs /\ st.db[k].ver \in Versions
    /\ \A k \in DOMAIN st.pvt : st.pvt[k].val \in Txs /\ st.pvt[k].ver \in Versions
    /\ mem.pc \in Committing \cup {"ready", "down", "recovering", "failed", "panicked"}
    /\ rec.pc \in {"idle", "fetched", "waited", "scheduled", "applied"}

\* The state database is, at every savepoint, what executing the chain's
\* transactions one by one in order would leave, each validated against the
\* state just before it: concurrency control makes endorsement in parallel
\* serializable, and crashes, recovery, expiry, rollback, reset and rebuild
\* leave no trace in it.
StateIsSerial == st.db = IF st.save = 0 THEN << >> ELSE replay[st.save].db

\* Every stored block carries the validation flags and the commit hash that
\* the chain determines (kv_ledger.go addBlockCommitHash): peers that crashed
\* or were rolled back at different places agree on both.
CommitHashAgrees ==
    LET blocks == FlattenSeq(bs.files)
    IN  \A i \in DOMAIN blocks : /\ blocks[i].flags = replay[i].flags
                                /\ blocks[i].hash = replay[i].hash

\* The history database lists exactly the writes of the valid transactions up
\* to its savepoint.
HistoryIsComplete ==
    hist.entries = UNION {HistoryOf(n, replay[n + 1].flags) : n \in 0 .. hist.save - 1}

\* GetPrivateData serves the raw value of a key when its version is that of
\* the key's hash.
Readable(k) == /\ k \in DOMAIN st.pvt \cap DOMAIN st.db
               /\ st.pvt[k].ver = st.db[k].ver

\* A private value that is served is the one its hash is of, although only
\* versions are compared, and a metadata-only write renews them: whether it
\* came with its block, from recovery or from the reconciler.  Only a block
\* takes it away: reconciled data of older blocks never overwrites it
\* (lockbased_txmgr.go checkIfPvtWriteIsStale).
PrivateValueIsGenuine ==
    [][\A k \in PvtKeys :
        /\ Readable(k)' => st'.pvt[k].val = st'.db[k].val
        /\ Readable(k) /\ st'.save = st.save => st'.pvt[k] = st.pvt[k]]_vars

\* At rest, the latest private value is served wherever it is held, as the
\* comment of incrementPvtdataVersionIfNeeded asks: a metadata-only write must
\* not leave it with a version that makes it look stale.
LatestIsReadable ==
    mem.pc = "ready" /\ rec.pc = "idle" =>
        \A k \in DOMAIN st.pvt \cap DOMAIN st.db :
            st.pvt[k].val = st.db[k].val => Readable(k)

\* Once the block that a private value expires with is committed, the value is
\* deleted from the state database, as the purge manager intends.
ExpiredIsPurged ==
    \A k \in DOMAIN st.pvt : ~Expired(st.pvt[k].ver[1], st.save)

\* A hashed key is purged with the block it expires with, on every peer.
HashExpires ==
    \A k \in PvtKeys \cap DOMAIN st.db : ~Expired(st.db[k].ver[1], st.save)

\* No crash or offline command leaves stores that refuse the next block or
\* the next start.
StoresNeverDisagree == mem.pc \notin {"failed", "panicked"}

\* At rest, private data of the current state that is not in the state
\* database is on record as missing, so that the reconciler will fetch it.
MissingIsTracked ==
    mem.pc = "ready" /\ rec.pc = "idle" =>
        \A k \in PvtKeys \cap DOMAIN st.db :
            \/ k \in DOMAIN st.pvt /\ st.pvt[k].ver = st.db[k].ver
            \/ \E m \in pv.missing : chain[m[1] + 1][m[2]].tx = st.db[k].val
            \/ Expired(st.db[k].ver[1], pv.height)

\* An endorsement is never made on an older state than an earlier one, also
\* across rollback and reset (start.go resetLoop).
EndorsementsNeverGoBack == [][seen' >= seen]_vars

\* The ledger ends up with every block, its databases at the same height, and
\* proposals are served.
CatchesUp ==
    <>[](mem.pc = "ready" /\ st.save = Len(chain) /\ hist.save = Len(chain) /\ ~mem.reject)

=============================================================================

----------------------------- MODULE BlockStore -----------------------------
(***************************************************************************)
(* The block store of a peer: numbered block files that are only appended  *)
(* to, an index database that also holds where the last file ends, and     *)
(* the offline operations that cut the store back.                         *)
(*                                                                         *)
(* common/ledger/blkstorage: blockfile_mgr.go, blockfile_helper.go,        *)
(* blockindex.go, rollback.go, reset.go.                                   *)
(*                                                                         *)
(* A store is a record                                                     *)
(*   files    the block files, each the sequence of its complete blocks;   *)
(*   partial  whether bytes of an incomplete block end the last file;      *)
(*   info     the saved blockfilesInfo, or NoInfo: the current file, how   *)
(*            many blocks of it count, the last block, noBlockFiles;       *)
(*   index    the number of indexed blocks (index savepoint + 1).          *)
(* Sizes and offsets are counted in blocks.  File number f of the code is  *)
(* files[f + 1].                                                           *)
(***************************************************************************)
EXTENDS Integers, Sequences, SequencesExt

CONSTANT BlocksPerFile    \* how many blocks fit in maxBlockfileSize

ASSUME BlockStoreAssumption == BlocksPerFile \in Nat \ {0}

NoInfo == [file |-> 0, size |-> 0, last |-> 0, none |-> TRUE]

NumBlocks(s) == Len(FlattenSeq(s.files))
height(info) == IF info.none THEN 0 ELSE info.last + 1

\* RetrieveBlockByNumber: found through the index, read from the files.
Indexed(s, n) == n < s.index
BlockAt(s, n) == FlattenSeq(s.files)[n + 1]

(***************************************************************************)
(* Opening the store                                                       *)
(***************************************************************************)

\* Without a saved info, the last file is scanned, and the one before it
\* when the last holds no complete block.
constructBlockfilesInfo(s) ==
    LET f == Len(s.files)
    IN  IF f = 0 THEN NoInfo
        ELSE LET n == Len(s.files[f])
                 lastFile == IF n = 0 /\ f > 1 THEN s.files[f - 1] ELSE s.files[f]
             IN  [file |-> f,
                  size |-> n,
                  last |-> IF lastFile = << >> THEN 0 ELSE Last(lastFile).num,
                  none |-> f = 1 /\ n = 0]

\* With one, only what was appended to its file after it was saved is read.
syncBlockfilesInfoFromFS(s) ==
    LET added == Len(s.files[s.info.file]) - s.info.size
    IN  IF added = 0 THEN s.info
        ELSE [s.info EXCEPT !.size = @ + added,
                            !.last = IF s.info.none THEN added - 1 ELSE @ + added,
                            !.none = FALSE]

\* newBlockfileMgr saves the info, truncates the current file to it and
\* brings the index up to the last block.
newBlockfileMgr(s) ==
    LET info == IF s.info = NoInfo THEN constructBlockfilesInfo(s)
                ELSE syncBlockfilesInfoFromFS(s)
    IN  [s EXCEPT !.info = info, !.partial = FALSE, !.index = height(info)]

(***************************************************************************)
(* addBlock: a new file if the current one is full, the block's bytes, the *)
(* info (not synced to disk), the index (synced, and the info with it).    *)
(***************************************************************************)

IsFull(s) == s.info.size = BlocksPerFile

createNextFile(s) ==
    IF Len(s.files) = s.info.file THEN [s EXCEPT !.files = Append(@, << >>)] ELSE s

moveToNextFile(s) ==
    LET t == createNextFile(s)
    IN  [t EXCEPT !.info = [@ EXCEPT !.file = @ + 1, !.size = 0]]

WithRoom(s) == IF IsFull(s) THEN moveToNextFile(s) ELSE s

appendBlock(s, block) ==
    LET t == WithRoom(s) IN [t EXCEPT !.files[t.info.file] = Append(@, block)]

saveBlkfilesInfo(s) == [s EXCEPT !.info.size = @ + 1, !.info.last = @ + 1]

indexBlock(s) == [s EXCEPT !.index = @ + 1]

\* What a crash can leave while addBlock is about to append: nothing, the new
\* file alone, the new file with its info, or some of the block's bytes.
TornAppends(s) ==
    {s, [WithRoom(s) EXCEPT !.partial = TRUE]}
        \cup IF IsFull(s) THEN {createNextFile(s), moveToNextFile(s)} ELSE {}

\* And after the append, before the index write syncs the info.
TornIndexings(s) == {s, saveBlkfilesInfo(s)}

(***************************************************************************)
(* Rollback to block number target, and reset to the genesis block.        *)
(***************************************************************************)

validateTargetBlkNum(s, target) == constructBlockfilesInfo(s).last > target

rollbackBlockIndex(s, target) ==
    IF s.index > target + 1 THEN [s EXCEPT !.index = target + 1] ELSE s

deleteBlkfilesInfo(s) == [s EXCEPT !.info = NoInfo]

\* DeleteBlockStoreIndex drops the whole database, the info with it.
DeleteBlockStoreIndex(s) == [s EXCEPT !.info = NoInfo, !.index = 0]

\* The file a block is in, by binary search on the first block of each file.
\* Probing a file with no complete block is an error, here file 0.
binarySearchFileNumForBlock(s, n) ==
    LET search[r \in (1..Len(s.files)) \X (1..Len(s.files))] ==
            LET begin == r[1]
                end == r[2]
                probe == begin + ((end - begin) \div 2) + 1
            IN  IF begin = end THEN begin
                ELSE IF s.files[probe] = << >> THEN 0
                ELSE LET first == Head(s.files[probe]).num
                     IN  IF first = n THEN probe
                         ELSE IF first > n THEN search[<<begin, probe - 1>>]
                         ELSE search[<<probe, end>>]
    IN  search[<<1, constructBlockfilesInfo(s).file>>]

removeLastFile(s) == [s EXCEPT !.files = Front(@), !.partial = FALSE]

truncateLastFile(s, target) ==
    [s EXCEPT !.files[Len(s.files)] = SelectSeq(@, LAMBDA b : b.num <= target),
              !.partial = FALSE]

\* The height kept for the peer's next start, unless a greater one is kept.
recordHeightIfGreaterThanPreviousRecording(s, recorded) ==
    LET currentHt == constructBlockfilesInfo(s).last + 1
    IN  IF currentHt > recorded THEN currentHt ELSE recorded

=============================================================================

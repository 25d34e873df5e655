----------------------------- MODULE MCKvLedger -----------------------------
(***************************************************************************)
(* The peer's ledger with three transactions on a public and a private     *)
(* key: one reads the private key, scans the range and writes both keys,   *)
(* the public one with metadata; one writes the public key and the private *)
(* one's metadata blindly; one scans, writes the private key and deletes   *)
(* the public one.                                                         *)
(***************************************************************************)
EXTENDS KvLedger

CONSTANTS t1, t2, t3, a, p

MCProgram ==
    [t \in Txs |->
        CASE t = t1 -> [reads |-> {p}, scans |-> TRUE, ops |-> (p :> "put") @@ (a :> "putmeta")]
          [] t = t2 -> [reads |-> {}, scans |-> FALSE, ops |-> (p :> "meta") @@ (a :> "put")]
          [] t = t3 -> [reads |-> {}, scans |-> TRUE, ops |-> (p :> "put") @@ (a :> "del")]]

\* A metadata-only write after a read and a scan, for offline operations.
MCSmallProgram ==
    [t \in Txs |->
        CASE t = t1 -> [reads |-> {}, scans |-> FALSE, ops |-> (p :> "put") @@ (a :> "putmeta")]
          [] t = t2 -> [reads |-> {a}, scans |-> TRUE, ops |-> a :> "meta"]]

\* A private write and a private deletion.
MCDeleteProgram ==
    [t \in Txs |->
        CASE t = t1 -> [reads |-> {}, scans |-> FALSE, ops |-> p :> "put"]
          [] t = t2 -> [reads |-> {}, scans |-> FALSE, ops |-> p :> "del"]]

MCOperations == {<<"rollback", 1>>, <<"reset", 0>>, <<"rebuild", 0>>}

=============================================================================

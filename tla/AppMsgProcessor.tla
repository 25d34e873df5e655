-------------------------- MODULE AppMsgProcessor --------------------------
(***************************************************************************)
(* The reassembly state machine of orderer/consensus/hcs/                  *)
(* app_msg_processor.go: what one call of Reassemble or ExpireByAppID      *)
(* returns and what it leaves in the processor.                            *)
(*                                                                         *)
(* A chunk is [key, app, count, index, body].  key stands for makeHolder-  *)
(* Key of the message id (sender application and valid start), body for    *)
(* the message the chunk was cut from: the bytes of a set of chunks        *)
(* unmarshal and match their hash when they were all cut from one message. *)
(* Verify is the signature check of the chain.                             *)
(***************************************************************************)
EXTENDS Naturals, Sequences, FiniteSetsExt, Functions

CONSTANTS Apps,               \* application ids: one per orderer identity
          ReassembleTimeout,  \* channel configuration, in units of time
          Verify(_)           \* is the message's signer among the public keys

ASSUME AppMsgProcessorAssumption == ReassembleTimeout \in Nat \ {0}

NoMessage == [none |-> TRUE]

newAppMsgProcessor == [holders         |-> [k \in {} |-> {}],
                       holdersByAppID  |-> [a \in Apps |-> {}],
                       holderListByAge |-> <<>>]

(* IsPending: chunks are held that have not been reassembled.              *)
IsPending(p) == DOMAIN p.holders # {}

(* The age list with the elements of some holders taken out.               *)
Without(list, keys) ==
  LET kept[i \in 0 .. Len(list)] ==
        IF i = 0 THEN <<>>
        ELSE IF list[i] \in keys THEN kept[i - 1]
        ELSE Append(kept[i - 1], list[i])
  IN  kept[Len(list)]

(* Faulty removal: the index by application keeps the keys.                *)
removeKeepsIndex(p, keys) ==
  [p EXCEPT !.holders = Restrict(@, DOMAIN @ \ keys),
            !.holderListByAge = Without(@, keys)]

(* removeHolder for every key of a set: out of the map, the age list and   *)
(* the index by application.                                               *)
removeHolders(p, keys) ==
  [holders         |-> Restrict(p.holders, DOMAIN p.holders \ keys),
   holdersByAppID  |-> [a \in Apps |-> p.holdersByAppID[a] \ keys],
   holderListByAge |-> Without(p.holderListByAge, keys)]

(* expireByTimestamp drops holders from the front of the age list until it *)
(* meets one that is not overdue.                                          *)
overdue(p, now) ==
  LET late(k) == now - p.holders[k].timestamp >= ReassembleTimeout
      n == Max({i \in 0..Len(p.holderListByAge) :
                  \A j \in 1..i : late(p.holderListByAge[j])})
  IN  {p.holderListByAge[j] : j \in 1..n}

expireByTimestamp(p, now) == removeHolders(p, overdue(p, now))

(* ExpireByAppID drops every holder of an application.                     *)
ExpireByAppID(p, app) == removeHolders(p, p.holdersByAppID[app])

(* The holder of a chunk: the one in the map, or a new one.                *)
holderOf(p, c) ==
  IF c.key \in DOMAIN p.holders
    THEN p.holders[c.key]
    ELSE [chunks |-> [i \in {} |-> {}], count |-> c.count, received |-> 0,
          app |-> c.app, timestamp |-> 0]

(* Faulty check: a chunk at an index already held is accepted again.       *)
acceptsDuplicates(p, c) ==
  /\ c.count >= 1
  /\ c.index \in 0 .. c.count - 1
  /\ c.count > 1 => c.count = holderOf(p, c).count

(* The checks that make a chunk valid.                                     *)
isValidChunk(p, c) ==
  /\ c.count >= 1
  /\ c.index \in 0 .. c.count - 1
  /\ c.count > 1 => /\ c.index \notin DOMAIN holderOf(p, c).chunks
                    /\ c.count = holderOf(p, c).count

(* The slot of the chunk is looked at before the counts are compared: for  *)
(* an index past the holder's count the program panics.                    *)
indexOutOfRange(p, c) ==
  /\ c.count > 1
  /\ c.index \in 0 .. c.count - 1
  /\ c.index >= holderOf(p, c).count

(* Faulty holder: a chunk does not refresh its holder's place and time.    *)
holdKeepsAge(p, c, now) ==
  LET h == holderOf(p, c)
      new == c.key \notin DOMAIN p.holders
      held == [h EXCEPT
                 !.chunks = [i \in DOMAIN h.chunks \cup {c.index} |->
                               IF i = c.index THEN c.body ELSE h.chunks[i]],
                 !.received = @ + 1,
                 !.timestamp = IF new THEN now ELSE @]
  IN  [holders |-> [k \in DOMAIN p.holders \cup {c.key} |->
                      IF k = c.key THEN held ELSE p.holders[k]],
       holdersByAppID |-> [p.holdersByAppID EXCEPT ![h.app] = @ \cup {c.key}],
       holderListByAge |-> IF new THEN Append(p.holderListByAge, c.key)
                                  ELSE p.holderListByAge]

(* A valid chunk joins its holder, which becomes the youngest.             *)
hold(p, c, now) ==
  LET h == holderOf(p, c)
      held == [h EXCEPT
                 !.chunks = [i \in DOMAIN h.chunks \cup {c.index} |->
                               IF i = c.index THEN c.body ELSE h.chunks[i]],
                 !.received = @ + 1,
                 !.timestamp = now]
  IN  [holders |-> [k \in DOMAIN p.holders \cup {c.key} |->
                      IF k = c.key THEN held ELSE p.holders[k]],
       holdersByAppID |-> [p.holdersByAppID EXCEPT ![h.app] = @ \cup {c.key}],
       holderListByAge |-> Append(Without(p.holderListByAge, {c.key}), c.key)]

(* What the collected chunks unmarshal to: a message only if all were cut  *)
(* from the same one and its signature verifies.                           *)
unwrap(chunks) ==
  LET bodies == Range(chunks)
  IN  IF Cardinality(bodies) = 1 /\ \A b \in bodies : Verify(b)
        THEN CHOOSE b \in bodies : TRUE
        ELSE NoMessage

(* Reassemble, when it returns: an invalid chunk changes nothing and does  *)
(* not expire anything; a valid one is delivered at once, held, or com-    *)
(* pletes its holder, which is removed; then overdue holders are expired.  *)
Reassemble(p, c, now) ==
  IF ~isValidChunk(p, c)
    THEN [processor |-> p, message |-> NoMessage]
  ELSE IF c.count = 1
    THEN [processor |-> expireByTimestamp(p, now),
          message   |-> unwrap([i \in {0} |-> c.body])]
  ELSE LET q == hold(p, c, now)
           h == q.holders[c.key]
       IN  IF h.received = h.count
             THEN [processor |-> expireByTimestamp(removeHolders(q, {c.key}), now),
                   message   |-> unwrap(h.chunks)]
             ELSE [processor |-> expireByTimestamp(q, now),
                   message   |-> NoMessage]
=============================================================================

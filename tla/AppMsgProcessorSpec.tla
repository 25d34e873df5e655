------------------------ MODULE AppMsgProcessorSpec ------------------------
(***************************************************************************)
(* One processor under the calls processMessages makes: the chunks of      *)
(* several messages interleaved and out of order, delivered more than once *)
(* (a retried submission), separated by short and long gaps of consensus   *)
(* time, malformed chunks, and ExpireByAppID when an orderer restarts.     *)
(***************************************************************************)
EXTENDS AppMsgProcessor, Integers

CONSTANTS Messages,      \* messages whose chunks are sent
          AppOf,         \* [Messages -> Apps]
          CountOf,       \* [Messages -> Nat]: what Split cuts the message into
          Malformed,     \* chunks no Split produces
          Gaps,          \* consensus time between two calls
          MaxCalls       \* bound on the number of calls

(* Consensus timestamps increase strictly; the id of a chunk names its     *)
(* application; the bytes of a malformed chunk are no fragment of one of   *)
(* the messages.                                                           *)
ASSUME AppMsgProcessorSpecAssumption ==
  /\ AppOf \in [Messages -> Apps]
  /\ CountOf \in [Messages -> Nat \ {0}]
  /\ Gaps \subseteq Nat \ {0}
  /\ NoMessage \notin Messages
  /\ \A c \in Malformed : /\ c.key \in Messages /\ c.app = AppOf[c.key]
                          /\ c.count \in Int /\ c.index \in Int
                          /\ c.body \notin Messages

VARIABLES processor,   \* the appMsgProcessorImpl
          now,         \* consensus timestamp of the last call
          calls,       \* number of calls made
          panicked,    \* did a call of Reassemble panic?
          checked,     \* history: timestamp of the last valid chunk
          arrivals,    \* history: how often each chunk was received
          delivered,   \* history: how often each message was returned
          intact,      \* history: nothing happened that excuses losing it
          touched      \* history: when the last chunk of a message came

vars == <<processor, now, calls, panicked, checked, arrivals, delivered, intact, touched>>

Indexes(m) == 0 .. CountOf[m] - 1

(* The chunks Split cuts a message into.  The id of a message is unique    *)
(* (getUniqueValidStart), so the message stands for its key.               *)
Split(m) ==
  {[key |-> m, app |-> AppOf[m], count |-> CountOf[m], index |-> i, body |-> m] :
     i \in Indexes(m)}

Init == /\ processor = newAppMsgProcessor
        /\ now = 0
        /\ calls = 0
        /\ panicked = FALSE
        /\ checked = 0
        /\ arrivals = [m \in Messages |-> [i \in Indexes(m) |-> 0]]
        /\ delivered = [m \in Messages |-> 0]
        /\ intact = [m \in Messages |-> TRUE]
        /\ touched = [m \in Messages |-> 0]

Call(c, gap) ==
  LET res == Reassemble(processor, c, now + gap)
  IN  /\ calls < MaxCalls /\ ~panicked
      /\ calls' = calls + 1
      /\ panicked' = indexOutOfRange(processor, c)
      /\ now' = now + gap
      /\ checked' = IF isValidChunk(processor, c) THEN now + gap ELSE checked
      /\ processor' = res.processor
      /\ delivered' = [m \in Messages |->
                         delivered[m] + IF res.message = m THEN 1 ELSE 0]

ReceiveChunk(m, c, gap) ==
  /\ Call(c, gap)
  /\ arrivals' = [arrivals EXCEPT ![m][c.index] = @ + 1]
  /\ intact' = [intact EXCEPT ![m] = /\ @
                                     /\ arrivals[m][c.index] = 0
                                     /\ \/ touched[m] = 0
                                        \/ now' - touched[m] < ReassembleTimeout]
  /\ touched' = [touched EXCEPT ![m] = now']

ReceiveMalformed(c, gap) ==
  /\ Call(c, gap)
  /\ intact' = [intact EXCEPT ![c.key] = FALSE]
  /\ UNCHANGED <<arrivals, touched>>

(* An OrdererStarted message of the application was ordered.               *)
OrdererStarted(app) ==
  /\ calls < MaxCalls /\ ~panicked
  /\ calls' = calls + 1
  /\ processor' = ExpireByAppID(processor, app)
  /\ intact' = [m \in Messages |-> intact[m] /\ AppOf[m] # app]
  /\ UNCHANGED <<now, panicked, checked, arrivals, delivered, touched>>

Next ==
  \/ \E m \in Messages, gap \in Gaps : \E c \in Split(m) : ReceiveChunk(m, c, gap)
  \/ \E c \in Malformed, gap \in Gaps : ReceiveMalformed(c, gap)
  \/ \E app \in Apps : OrdererStarted(app)

Spec == Init /\ [][Next]_vars
-----------------------------------------------------------------------------
(* The map of holders, the age list and the index by application always    *)
(* name the same holders, each once and under its own application, and the *)
(* received counter is the number of chunks held.  IsPending reads only    *)
(* the map, expiry only the list and ExpireByAppID only the index, so a    *)
(* holder missing from one of them would be pending for ever (which pins   *)
(* the chunk-free timestamp) or expired twice.  The age list is ordered by *)
(* the time of the last chunk, which is what lets expireByTimestamp stop   *)
(* at the first holder that is not overdue: once a valid chunk was         *)
(* processed, no holder anywhere in the list is overdue at its timestamp.  *)
IndexesAgree ==
  LET list == processor.holderListByAge
      holders == processor.holders
      ts(i) == holders[list[i]].timestamp
  IN  /\ Range(list) = DOMAIN holders
      /\ Len(list) = Cardinality(DOMAIN holders)
      /\ \A a \in Apps : processor.holdersByAppID[a]
                           = {k \in DOMAIN holders : holders[k].app = a}
      /\ \A k \in DOMAIN holders :
           holders[k].received = Cardinality(DOMAIN holders[k].chunks)
      /\ \A i, j \in DOMAIN list : i < j => ts(i) < ts(j)
      /\ \A i \in DOMAIN list : checked - ts(i) < ReassembleTimeout

(* A message is returned at most once for every time each of its chunks    *)
(* was received, however chunks are duplicated, reordered or mixed with    *)
(* malformed ones, and never unless its signature verifies.                *)
NoSpuriousDelivery ==
  \A m \in Messages :
    /\ \A i \in Indexes(m) : delivered[m] <= arrivals[m][i]
    /\ delivered[m] > 0 => Verify(m)

(* Reassembly loses nothing it should keep: a message each of whose chunks *)
(* arrived exactly once, in any order, with less than ReassembleTimeout    *)
(* between one and the next, without a restart of its sender in between,   *)
(* has been returned, whatever happened to other messages meanwhile.       *)
IntactIsDelivered ==
  \A m \in Messages :
    (/\ Verify(m)
     /\ intact[m]
     /\ \A i \in Indexes(m) : arrivals[m][i] = 1) => delivered[m] = 1

(* What the errors of isValidChunk say ("incorrect chunk ChunksCount ...   *)
(* corrupted data"): a chunk that disagrees with the others of its message *)
(* is refused, not the end of the orderer that reads it.                   *)
MalformedIsRefused == ~panicked
=============================================================================

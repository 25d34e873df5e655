----------------------------- MODULE SoloChain -----------------------------
(***************************************************************************)
(* The solo consenter (orderer/consensus/solo) with what surrounds it on a *)
(* channel: the message processor that admits messages under the current   *)
(* configuration, the block cutter, and the configuration a config block   *)
(* puts in force.  Broadcast handlers run concurrently with the consenter: *)
(* each reads the config sequence, then validates, then blocks until the   *)
(* main loop takes its message.                                            *)
(***************************************************************************)
EXTENDS BlockCutterSpec, ConfigTx

CONSTANTS Clients,        \* concurrent broadcast handlers
          InitialMap,     \* the configuration of the genesis block
          Drafts(_),      \* the updates a client may prepare from a map
          Admits(_, _),   \* the channel's filters: Admits(map, envelope)
          BatchSizeOf(_), \* the orderer config a map holds
          MaxDrafts       \* bound on the updates prepared

ASSUME SoloAssumption == IsTree(InitialMap)

VARIABLES config,    \* the bundle in force: [sequence, map, lastUpdate]
          ledger,    \* the blocks written, genesis first
          timer,     \* is the batch timer set?
          exitChan,  \* has exitChan been closed?
          main,      \* "running", "exited" or "panicked"
          handler,   \* per client: the state of its broadcast handler
          drafts     \* history: how many updates were prepared

chainVars == <<config, ledger, timer, exitChan, main>>
soloVars  == <<vars, chainVars, handler, drafts>>

Idle == [stage |-> "idle"]

NormalBlock(txs) == [kind |-> "normal", txs |-> txs]
ConfigBlock(c)   == [kind |-> "config", config |-> c]

Genesis == [sequence |-> 0, map |-> InitialMap, lastUpdate |-> <<>>]

SoloInit == /\ Init
            /\ batchSize = BatchSizeOf(InitialMap)
            /\ config = Genesis
            /\ ledger = <<ConfigBlock(Genesis)>>
            /\ timer = FALSE
            /\ exitChan = FALSE
            /\ main = "running"
            /\ handler = [c \in Clients |-> Idle]
            /\ drafts = 0
-----------------------------------------------------------------------------
(* Broadcast handlers.                                                     *)

(* A client reads the configuration and prepares an update of it.          *)
PrepareUpdate(c) ==
  /\ handler[c] = Idle
  /\ drafts < MaxDrafts
  /\ drafts' = drafts + 1
  /\ \E u \in Drafts(config.map) :
       handler' = [handler EXCEPT ![c] = [stage |-> "prepared", update |-> u]]
  /\ UNCHANGED <<vars, chainVars>>

(* ProcessNormalMsg and ProcessConfigUpdateMsg take the sequence first.    *)
ReadSequence(c) ==
  /\ \/ /\ handler[c] = Idle
        /\ Len(fed) < MaxFed
        /\ \E env \in Envelopes :
             handler' = [handler EXCEPT ![c] =
                           [stage |-> "filter", env |-> env,
                            configSeq |-> config.sequence]]
     \/ /\ handler[c].stage = "prepared"
        /\ handler' = [handler EXCEPT ![c] =
                         [stage |-> "propose", update |-> handler[c].update,
                          configSeq |-> config.sequence]]
  /\ UNCHANGED <<vars, chainVars, drafts>>

ApplyFilters(c) ==
  /\ handler[c].stage = "filter"
  /\ handler' = [handler EXCEPT ![c] =
                   IF Admits(config.map, @.env)
                     THEN [@ EXCEPT !.stage = "order"] ELSE Idle]
  /\ UNCHANGED <<vars, chainVars, drafts>>

(* The update becomes the ConfigEnvelope it leads to, or is refused.       *)
ProposeConfigUpdate(c) ==
  /\ handler[c].stage = "propose"
  /\ handler' = [handler EXCEPT ![c] =
                   IF Authorized(config.map, @.update)
                     THEN [stage |-> "configure", configSeq |-> @.configSeq,
                           env |-> proposeConfigUpdate(config, @.update)]
                     ELSE Idle]
  /\ UNCHANGED <<vars, chainVars, drafts>>

(* Order and Configure fail once exitChan is closed.                       *)
OrderFails(c) ==
  /\ handler[c].stage \in {"order", "configure"}
  /\ exitChan
  /\ handler' = [handler EXCEPT ![c] = Idle]
  /\ UNCHANGED <<vars, chainVars, drafts>>
-----------------------------------------------------------------------------
(* The main loop.  sendChan is unbuffered: taking a message and the return *)
(* of the Order or Configure call that sent it are one step.               *)

Take(c, stage) == /\ main = "running"
                  /\ handler[c].stage = stage
                  /\ handler' = [handler EXCEPT ![c] = Idle]

WriteBlocks(batches) ==
  ledger \o [i \in DOMAIN batches |-> NormalBlock(batches[i])]

(* Faulty timer rule: a set timer is left running.                         *)
TimerKeepsRunning(pending) == timer \/ pending

(* Set while a batch is pending, stopped when none is.                     *)
TimerAfter(pending) ==
  CASE timer /\ ~pending -> FALSE
    [] ~timer /\ pending -> TRUE
    [] OTHER             -> timer

(* Faulty staleness test: a message is never validated again.              *)
NeverStale(msg) == FALSE

Stale(msg) == msg.configSeq < config.sequence

HandleNormal(c) ==
  LET msg == handler[c] IN
  /\ Take(c, "order")
  /\ IF Stale(msg) /\ ~Admits(config.map, msg.env)
       THEN UNCHANGED <<vars, ledger, timer>>       \* discarded
       ELSE /\ CallOrdered(msg.env)
            /\ ledger' = WriteBlocks(last'.batches)
            /\ timer' = TimerAfter(last'.pending)
  /\ UNCHANGED <<config, exitChan, main, drafts>>

(* Faulty commit: the pending batch is left for the new configuration.     *)
CommitConfigWithoutCut(env) ==
  /\ ledger' = Append(ledger, ConfigBlock(env))
  /\ config' = env
  /\ batchSize' = BatchSizeOf(env.map)
  /\ timer' = timer
  /\ UNCHANGED <<receiver, fed, emitted, last, main>>

(* Cut what is pending into a block of its own, then WriteConfigBlock,     *)
(* which validates the envelope once more and panics if that fails.        *)
CommitConfig(env) ==
  /\ receiver' = Cut(receiver).receiver
  /\ emitted' = emitted \o Cut(receiver).batch
  /\ last' = CutResult
  /\ LET pending == Cut(receiver).batch
         cut     == WriteBlocks(IF pending = <<>> THEN <<>> ELSE <<pending>>)
     IN  IF Validate(config, env)
           THEN /\ ledger' = Append(cut, ConfigBlock(env))
                /\ config' = env
                /\ batchSize' = BatchSizeOf(env.map)
                /\ timer' = FALSE
                /\ UNCHANGED main
           ELSE /\ ledger' = cut
                /\ main' = "panicked"
                /\ UNCHANGED <<config, batchSize, timer>>
  /\ UNCHANGED fed

(* A stale config message is processed again, as ProcessConfigMsg does     *)
(* with the update inside it.                                              *)
HandleConfig(c) ==
  LET msg == handler[c] IN
  /\ Take(c, "configure")
  /\ IF ~Stale(msg)
       THEN CommitConfig(msg.env)
       ELSE IF Authorized(config.map, msg.env.lastUpdate)
         THEN CommitConfig(proposeConfigUpdate(config, msg.env.lastUpdate))
         ELSE UNCHANGED <<vars, config, ledger, timer, main>>   \* discarded
  /\ UNCHANGED <<exitChan, drafts>>

TimerFires ==
  /\ main = "running"
  /\ timer
  /\ timer' = FALSE
  /\ CallCut
  /\ ledger' = WriteBlocks(IF receiver.pendingBatch = <<>> THEN <<>>
                           ELSE <<receiver.pendingBatch>>)
  /\ UNCHANGED <<config, exitChan, main, handler, drafts>>

Exit ==
  /\ main = "running"
  /\ exitChan
  /\ main' = "exited"
  /\ UNCHANGED <<vars, config, ledger, timer, exitChan, handler, drafts>>

Halt ==
  /\ ~exitChan
  /\ exitChan' = TRUE
  /\ UNCHANGED <<vars, config, ledger, timer, main, handler, drafts>>
-----------------------------------------------------------------------------
SoloNext ==
  \/ \E c \in Clients : \/ PrepareUpdate(c)
                        \/ ReadSequence(c)
                        \/ ApplyFilters(c)
                        \/ ProposeConfigUpdate(c)
                        \/ OrderFails(c)
                        \/ HandleNormal(c)
                        \/ HandleConfig(c)
  \/ TimerFires
  \/ Exit
  \/ Halt

SoloSpec == SoloInit /\ [][SoloNext]_soloVars
-----------------------------------------------------------------------------
Blocks == DOMAIN ledger

ConfigBlocks == {i \in Blocks : ledger[i].kind = "config"}

(* The configuration under which block i was written.                      *)
ConfigBefore(i) == ledger[Max({j \in ConfigBlocks : j < i})].config

(* The validation inside WriteConfigBlock never fails, although the        *)
(* envelope was built by another goroutine under a configuration that may  *)
(* have been replaced twice since: the consenter never panics.             *)
NeverPanics == main # "panicked"

(* A transaction in a block satisfies the configuration in force at that   *)
(* point of the chain, not only the one it was submitted under.            *)
OrderedUnderCurrentConfig ==
  \A i \in Blocks \ ConfigBlocks : \A k \in DOMAIN ledger[i].txs :
    Admits(ConfigBefore(i).map, ledger[i].txs[k])

(* An update takes effect only if everything its author read still has the *)
(* very content they saw: equal versions vouch for equal content, also for *)
(* an element that was deleted and added again at version 0.               *)
UpdatesSeeWhatTheyRead ==
  \A i \in ConfigBlocks \ {1} :
    LET u == ledger[i].config.lastUpdate
    IN  \A p \in DOMAIN u.readSet :
          ConfigBefore(i).map[p].content = u.readSet[p].content

(* Nothing in the configuration changes without the consent its previous   *)
(* state asks for: an element is changed by signers satisfying its own     *)
(* mod_policy, added or removed by ones satisfying the mod_policy of a     *)
(* group above it that was there before.                                   *)
ChangesAuthorized ==
  \A i \in ConfigBlocks \ {1} :
    LET old == ConfigBefore(i).map
        new == ledger[i].config.map
        u   == ledger[i].config.lastUpdate
        May(p) == p \in DOMAIN old /\ Satisfies(u.signers, old[p].modPolicy)
    IN  /\ \A p \in DOMAIN old \cap DOMAIN new : old[p] # new[p] => May(p)
        /\ \A p \in (DOMAIN old \ DOMAIN new) \cup (DOMAIN new \ DOMAIN old) :
             \E n \in 0 .. Len(p) - 1 : May(SubSeq(p, 1, n))

(* The timer runs exactly while envelopes are pending, so it never expires *)
(* on an empty batch, the case the code logs as a possible bug.            *)
TimerIffPending ==
  main # "panicked" => (timer <=> receiver.pendingBatch # <<>>)

(* (Refinement.)  The consenter, whatever it interleaves with, drives the  *)
(* cutter only as the cutter's specification allows; in particular the     *)
(* batch size changes only over an empty pending batch.                    *)
CutterContract == Spec
=============================================================================

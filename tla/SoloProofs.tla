----------------------------- MODULE SoloProofs -----------------------------
(***************************************************************************)
(* The solo consenter for any clients, configurations and updates: the     *)
(* validation inside WriteConfigBlock cannot fail; the block cutter is     *)
(* driven as its specification allows, so no envelope is lost and batches  *)
(* keep to their limits; the batch timer is set exactly while a batch is   *)
(* pending; and every block is in order under the configuration before it: *)
(* its transactions are admitted, its changes of the configuration have    *)
(* the consent needed, and its update saw what it read.                    *)
(***************************************************************************)
EXTENDS SoloPartsProofs

-----------------------------------------------------------------------------
(* The handlers.                                                           *)

Stamped == {"filter", "order", "propose", "configure"}

(* A handler's sequence number is never ahead of the channel's.  If it is  *)
(* the current one, no config block was written since the handler read it, *)
(* so the envelope the handler proposed is one the channel still accepts.  *)
HandlerInv(h) ==
  /\ h.stage \in {"filter", "order"} =>
       h \in [stage : {"filter", "order"}, env : Envelopes, configSeq : Nat]
  /\ h.stage \in Stamped => /\ h.configSeq \in Nat
                            /\ h.configSeq <= config.sequence
  /\ h.stage = "configure" /\ h.configSeq = config.sequence
       => Validate(config, h.env)

SoloInv ==
  /\ config.sequence \in Nat
  /\ handler \in [Clients -> {handler[c] : c \in Clients}]
  /\ \A c \in Clients : HandlerInv(handler[c])
  /\ NeverPanics

(* What a broadcast handler proposes is what Validate asks for, as long as *)
(* the configuration is the one it was proposed under.                     *)
LEMMA ProposedIsValid ==
  ASSUME NEW c, NEW u, Authorized(c.map, u)
  PROVE  Validate(c, proposeConfigUpdate(c, u))
BY DEF Validate, proposeConfigUpdate

(* A handler that takes a step keeps the other handlers' invariant.        *)
LEMMA HandlerSteps ==
  ASSUME SoloInv, NEW c \in Clients, NEW h, HandlerInv(h),
         handler' = [handler EXCEPT ![c] = h], config' = config, main' = main
  PROVE  SoloInv'
<1>1. ASSUME NEW d \in Clients
      PROVE  HandlerInv(handler[d])'
  <2>1. handler'[d] = IF d = c THEN h ELSE handler[d]
    BY DEF SoloInv
  <2>2. HandlerInv(handler[d])
    BY DEF SoloInv
  <2> QED BY <2>1, <2>2 DEF HandlerInv
<1>2. handler' \in [Clients -> {handler'[d] : d \in Clients}]
  BY DEF SoloInv
<1> QED BY <1>1, <1>2 DEF SoloInv, NeverPanics

(* A config block ends the chances of every other envelope: the sequence   *)
(* numbers of all handlers are now behind.                                 *)
LEMMA CommitKeeps ==
  ASSUME SoloInv, NEW c \in Clients, NEW env, Validate(config, env),
         handler' = [handler EXCEPT ![c] = Idle], CommitConfig(env)
  PROVE  SoloInv'
<1>1. /\ config' = env /\ config'.sequence = config.sequence + 1
      /\ main' = main
  BY DEF CommitConfig, Validate
<1>2. ASSUME NEW d \in Clients
      PROVE  HandlerInv(handler[d])'
  <2>1. handler'[d] = IF d = c THEN Idle ELSE handler[d]
    BY DEF SoloInv
  <2>2. HandlerInv(handler[d]) /\ config.sequence \in Nat
    BY DEF SoloInv
  <2>3. handler[d].stage \in Stamped => handler[d].configSeq < config'.sequence
    BY <1>1, <2>2 DEF HandlerInv
  <2>4. "configure" \in Stamped
    BY DEF Stamped
  <2>5. CASE d = c
    BY <2>1, <2>5 DEF HandlerInv, Idle, Stamped
  <2>6. CASE d # c
    BY <1>1, <2>1, <2>2, <2>3, <2>4, <2>6 DEF HandlerInv
  <2> QED BY <2>5, <2>6
<1>3. handler' \in [Clients -> {handler'[d] : d \in Clients}]
  BY DEF SoloInv
<1>4. config'.sequence \in Nat /\ NeverPanics'
  BY <1>1 DEF SoloInv, NeverPanics
<1> QED BY <1>2, <1>3, <1>4 DEF SoloInv

(* The handlers' invariant is inductive.                                   *)
THEOREM SoloInvariant == SoloSpec => []SoloInv
<1>1. SoloInit => SoloInv
  <2> SUFFICES ASSUME SoloInit PROVE SoloInv
    OBVIOUS
  <2>1. \A c \in Clients : handler[c] = Idle
    BY DEF SoloInit
  <2>2. \A c \in Clients : HandlerInv(handler[c])
    BY <2>1 DEF HandlerInv, Idle, Stamped
  <2>3. handler \in [Clients -> {handler[c] : c \in Clients}]
    BY DEF SoloInit
  <2> QED BY <2>2, <2>3 DEF SoloInit, SoloInv, NeverPanics, Genesis
<1>2. SoloInv /\ [SoloNext]_soloVars => SoloInv'
  <2> SUFFICES ASSUME SoloInv, [SoloNext]_soloVars PROVE SoloInv'
    OBVIOUS
  <2>0. config.sequence \in Nat /\ \A c \in Clients : HandlerInv(handler[c])
    BY DEF SoloInv
  <2>i. HandlerInv(Idle)
    BY DEF HandlerInv, Idle, Stamped
  <2>1. ASSUME NEW c \in Clients, PrepareUpdate(c)
        PROVE  SoloInv'
    <3>1. PICK u \in Drafts(config.map) :
            handler' = [handler EXCEPT ![c] = [stage |-> "prepared", update |-> u]]
      BY <2>1, Zenon DEF PrepareUpdate
    <3>2. HandlerInv([stage |-> "prepared", update |-> u])
      BY DEF HandlerInv, Stamped
    <3> QED BY <2>1, <3>1, <3>2, HandlerSteps, Zenon
            DEF PrepareUpdate, chainVars
  <2>2. ASSUME NEW c \in Clients, ReadSequence(c)
        PROVE  SoloInv'
    <3>1. config' = config /\ main' = main
      BY <2>2 DEF ReadSequence, chainVars
    <3>2. ASSUME NEW env \in Envelopes,
                 handler' = [handler EXCEPT ![c] =
                               [stage |-> "filter", env |-> env,
                                configSeq |-> config.sequence]]
          PROVE  SoloInv'
      <4>1. HandlerInv([stage |-> "filter", env |-> env,
                        configSeq |-> config.sequence])
        BY <2>0 DEF HandlerInv, Stamped
      <4> QED BY <3>1, <3>2, <4>1, HandlerSteps, Zenon
    <3>3. ASSUME handler' = [handler EXCEPT ![c] =
                               [stage |-> "propose", update |-> handler[c].update,
                                configSeq |-> config.sequence]]
          PROVE  SoloInv'
      <4>1. HandlerInv([stage |-> "propose", update |-> handler[c].update,
                        configSeq |-> config.sequence])
        BY <2>0 DEF HandlerInv, Stamped
      <4> QED BY <3>1, <3>3, <4>1, HandlerSteps, Zenon
    <3> QED BY <2>2, <3>2, <3>3 DEF ReadSequence
  <2>3. ASSUME NEW c \in Clients, ApplyFilters(c)
        PROVE  SoloInv'
    <3> DEFINE h == IF Admits(config.map, handler[c].env)
                      THEN [handler[c] EXCEPT !.stage = "order"] ELSE Idle
    <3>1. /\ handler[c] \in [stage : {"filter", "order"}, env : Envelopes,
                             configSeq : Nat]
          /\ handler[c].configSeq <= config.sequence
      BY <2>0, <2>3 DEF ApplyFilters, HandlerInv, Stamped
    <3>2. HandlerInv([handler[c] EXCEPT !.stage = "order"])
      BY <3>1 DEF HandlerInv, Stamped
    <3>3. HandlerInv(h)
      BY <2>i, <3>2
    <3>4. handler' = [handler EXCEPT ![c] = h]
      BY <2>3 DEF ApplyFilters, SoloInv
    <3> HIDE DEF h
    <3> QED BY <2>3, <3>3, <3>4, HandlerSteps, Zenon DEF ApplyFilters, chainVars
  <2>4. ASSUME NEW c \in Clients, ProposeConfigUpdate(c)
        PROVE  SoloInv'
    <3> DEFINE u == handler[c].update
               p == [stage |-> "configure", configSeq |-> handler[c].configSeq,
                     env |-> proposeConfigUpdate(config, u)]
               h == IF Authorized(config.map, u) THEN p ELSE Idle
    <3>1. /\ handler[c].configSeq \in Nat
          /\ handler[c].configSeq <= config.sequence
      BY <2>0, <2>4 DEF ProposeConfigUpdate, HandlerInv, Stamped
    <3>2. ASSUME Authorized(config.map, u) PROVE HandlerInv(p)
      <4>1. Validate(config, proposeConfigUpdate(config, u))
        BY <3>2, ProposedIsValid
      <4> QED BY <3>1, <4>1 DEF HandlerInv, Stamped
    <3>3. HandlerInv(h)
      BY <2>i, <3>2
    <3>4. handler' = [handler EXCEPT ![c] = h]
      BY <2>4 DEF ProposeConfigUpdate, SoloInv
    <3> HIDE DEF h
    <3> QED BY <2>4, <3>3, <3>4, HandlerSteps, Zenon
            DEF ProposeConfigUpdate, chainVars
  <2>5. ASSUME NEW c \in Clients, OrderFails(c)
        PROVE  SoloInv'
    BY <2>5, <2>i, HandlerSteps, Zenon DEF OrderFails, chainVars
  <2>6. ASSUME NEW c \in Clients, HandleNormal(c)
        PROVE  SoloInv'
    BY <2>6, <2>i, HandlerSteps, Zenon DEF HandleNormal, Take
  <2>7. ASSUME NEW c \in Clients, HandleConfig(c)
        PROVE  SoloInv'
    <3> DEFINE msg == handler[c]
               again == proposeConfigUpdate(config, msg.env.lastUpdate)
    <3>1. msg.stage = "configure" /\ handler' = [handler EXCEPT ![c] = Idle]
      BY <2>7 DEF HandleConfig, Take
    <3>2. CASE ~Stale(msg)
      <4>1. msg.configSeq = config.sequence
        BY <2>0, <3>1, <3>2 DEF Stale, HandlerInv, Stamped
      <4>2. Validate(config, msg.env)
        BY <2>0, <3>1, <4>1 DEF HandlerInv
      <4> QED BY <2>7, <3>1, <3>2, <4>2, CommitKeeps, Zenon DEF HandleConfig
    <3>3. CASE Stale(msg) /\ Authorized(config.map, msg.env.lastUpdate)
      <4>1. Validate(config, again)
        BY <3>3, ProposedIsValid
      <4>2. CommitConfig(again)
        BY <2>7, <3>3 DEF HandleConfig
      <4> HIDE DEF again
      <4> QED BY <3>1, <4>1, <4>2, CommitKeeps, Zenon
    <3>4. CASE Stale(msg) /\ ~Authorized(config.map, msg.env.lastUpdate)
      BY <2>7, <2>i, <3>1, <3>4, HandlerSteps, Zenon DEF HandleConfig
    <3> QED BY <3>2, <3>3, <3>4
  <2>8. CASE TimerFires \/ Exit \/ Halt \/ UNCHANGED soloVars
    <3>1. config' = config /\ handler' = handler
          /\ (main' = main \/ main' = "exited")
      BY <2>8 DEF TimerFires, Exit, Halt, soloVars, chainVars
    <3> QED BY <3>1 DEF SoloInv, HandlerInv, NeverPanics
  <2> QED BY <2>1, <2>2, <2>3, <2>4, <2>5, <2>6, <2>7, <2>8 DEF SoloNext
<1> QED BY <1>1, <1>2, PTL DEF SoloSpec

(* The consenter never panics in WriteConfigBlock, for any clients, any    *)
(* configuration tree, any policies and any updates: a config message that *)
(* is not stale was proposed under the configuration in force, and a stale *)
(* one is proposed anew by the main loop itself.                           *)
THEOREM SoloNeverPanics == SoloSpec => []NeverPanics
<1>1. SoloInv => NeverPanics
  BY DEF SoloInv
<1> QED BY <1>1, SoloInvariant, PTL

-----------------------------------------------------------------------------
(* The configurations a channel can have: a set that holds the genesis     *)
(* configuration, every member of which has an admissible batch size (what *)
(* the validation of the orderer config ensures), and which the updates    *)
(* clients draft from its members do not leave.                            *)
Updates(Maps) == UNION {Drafts(m) : m \in Maps}

ClosedUnderDrafts(Maps) ==
  /\ InitialMap \in Maps
  /\ \A m \in Maps : BatchSizeOf(m) \in BatchSizes
  /\ \A u \in Updates(Maps) : DOMAIN u.writeSet \subseteq Seq(STRING)
  /\ \A m \in Maps : \A u \in Updates(Maps) :
       Authorized(m, u) => UpdatedMap(m, u) \in Maps

Proposals(Maps) == [sequence : Nat, map : Maps, lastUpdate : Updates(Maps)]

Bundles(Maps) == Proposals(Maps) \cup {Genesis}

HandlerMaps(h, Maps) ==
  /\ h.stage \in {"prepared", "propose"} => h.update \in Updates(Maps)
  /\ h.stage = "configure" => h.env \in Proposals(Maps)

MapsInv(Maps) ==
  /\ config \in Bundles(Maps)
  /\ \A c \in Clients : HandlerMaps(handler[c], Maps)

(* A bundle's map is one of the configurations.                            *)
LEMMA BundleMap ==
  ASSUME NEW Maps, ClosedUnderDrafts(Maps), NEW b \in Bundles(Maps)
  PROVE  b.sequence \in Nat /\ b.map \in Maps
<1>1. CASE b \in Proposals(Maps)
  BY <1>1 DEF Proposals
<1>2. CASE b = Genesis
  BY <1>2 DEF Genesis, ClosedUnderDrafts
<1> QED BY <1>1, <1>2 DEF Bundles

(* A proposal made from one of the configurations is one of them.          *)
LEMMA ProposalType ==
  ASSUME NEW Maps, ClosedUnderDrafts(Maps), NEW c \in Bundles(Maps),
         NEW u \in Updates(Maps), Authorized(c.map, u)
  PROVE  proposeConfigUpdate(c, u) \in Proposals(Maps)
<1>1. c.sequence \in Nat /\ c.map \in Maps
  BY BundleMap
<1>2. UpdatedMap(c.map, u) \in Maps
  BY <1>1, Zenon DEF ClosedUnderDrafts
<1> QED BY <1>1, <1>2 DEF proposeConfigUpdate, Proposals

(* The envelope CommitConfig is called with is a valid proposal.           *)
LEMMA CommittedIsProposal ==
  ASSUME NEW Maps, ClosedUnderDrafts(Maps), SoloInv, MapsInv(Maps),
         NEW c \in Clients, HandleConfig(c)
  PROVE  \/ \E env \in Proposals(Maps) :
              /\ Validate(config, env)
              /\ CommitConfig(env)
              /\ env.lastUpdate = handler[c].env.lastUpdate
         \/ UNCHANGED <<vars, config, ledger, timer, main>>
<1> DEFINE msg == handler[c]
           again == proposeConfigUpdate(config, msg.env.lastUpdate)
<1>1. msg.stage = "configure" /\ HandlerInv(msg) /\ HandlerMaps(msg, Maps)
      /\ config.sequence \in Nat
  BY DEF HandleConfig, Take, SoloInv, MapsInv
<1>2. msg.env \in Proposals(Maps) /\ msg.env.lastUpdate \in Updates(Maps)
  BY <1>1 DEF HandlerMaps, Proposals
<1>3. CASE ~Stale(msg)
  <2>1. msg.configSeq = config.sequence
    BY <1>1, <1>3 DEF Stale, HandlerInv, Stamped
  <2>2. Validate(config, msg.env)
    BY <1>1, <2>1 DEF HandlerInv
  <2>3. CommitConfig(msg.env)
    BY <1>3 DEF HandleConfig
  <2> HIDE DEF msg
  <2> QED BY <1>2, <2>2, <2>3, Zenon DEF msg
<1>4. CASE Stale(msg) /\ Authorized(config.map, msg.env.lastUpdate)
  <2>1. Validate(config, again)
    BY <1>4, ProposedIsValid
  <2>2. CommitConfig(again)
    BY <1>4 DEF HandleConfig
  <2>3. again \in Proposals(Maps)
    BY <1>2, <1>4, ProposalType DEF MapsInv
  <2>4. again.lastUpdate = msg.env.lastUpdate
    BY DEF proposeConfigUpdate
  <2> HIDE DEF again, msg
  <2> QED BY <2>1, <2>2, <2>3, <2>4, Zenon DEF msg
<1>5. CASE Stale(msg) /\ ~Authorized(config.map, msg.env.lastUpdate)
  BY <1>5 DEF HandleConfig
<1> QED BY <1>3, <1>4, <1>5

(* The steps of a handler that leave the chain alone.                      *)
HandlerStep(c) == \/ PrepareUpdate(c) \/ ReadSequence(c) \/ ApplyFilters(c)
                  \/ ProposeConfigUpdate(c) \/ OrderFails(c)

(* They change neither the cutter nor the chain.                           *)
LEMMA HandlerStepChain ==
  ASSUME NEW c, HandlerStep(c)
  PROVE  UNCHANGED <<vars, chainVars>>
BY DEF HandlerStep, PrepareUpdate, ReadSequence, ApplyFilters,
       ProposeConfigUpdate, OrderFails

(* What such a step makes of its handler.                                  *)
HandlerForm(c, h) ==
  /\ handler' = [handler EXCEPT ![c] = h]
  /\ \/ h = Idle
     \/ \E u \in Drafts(config.map) : h = [stage |-> "prepared", update |-> u]
     \/ \E env \in Envelopes :
          h = [stage |-> "filter", env |-> env, configSeq |-> config.sequence]
     \/ /\ handler[c].stage = "prepared"
        /\ h = [stage |-> "propose", update |-> handler[c].update,
                configSeq |-> config.sequence]
     \/ /\ handler[c].stage = "filter"
        /\ Admits(config.map, handler[c].env)
        /\ h = [stage |-> "order", env |-> handler[c].env,
                configSeq |-> handler[c].configSeq]
     \/ /\ handler[c].stage = "propose"
        /\ Authorized(config.map, handler[c].update)
        /\ h = [stage |-> "configure", configSeq |-> handler[c].configSeq,
                env |-> proposeConfigUpdate(config, handler[c].update)]

(* A handler step has no other effect on the handlers.                     *)
LEMMA HandlerStepForms ==
  ASSUME SoloInv, NEW c \in Clients, HandlerStep(c)
  PROVE  \E h : HandlerForm(c, h)
<1> USE DEF HandlerForm
<1>0. HandlerInv(handler[c])
  BY DEF SoloInv
<1>1. CASE PrepareUpdate(c)
  BY <1>1, Zenon DEF PrepareUpdate
<1>2. CASE ReadSequence(c)
  BY <1>2, Zenon DEF ReadSequence
<1>3. CASE ApplyFilters(c)
  <2>1. handler[c] \in [stage : {"filter", "order"}, env : Envelopes, configSeq : Nat]
        /\ handler[c].stage = "filter"
    BY <1>0, <1>3 DEF ApplyFilters, HandlerInv
  <2>2. [handler[c] EXCEPT !.stage = "order"]
          = [stage |-> "order", env |-> handler[c].env,
             configSeq |-> handler[c].configSeq]
    BY <2>1
  <2>3. handler' = [handler EXCEPT ![c] =
                      IF Admits(config.map, handler[c].env)
                        THEN [handler[c] EXCEPT !.stage = "order"] ELSE Idle]
    BY <1>3 DEF ApplyFilters, SoloInv
  <2>4. CASE Admits(config.map, handler[c].env)
    <3>1. handler' = [handler EXCEPT ![c] =
                        [stage |-> "order", env |-> handler[c].env,
                         configSeq |-> handler[c].configSeq]]
      BY <2>2, <2>3, <2>4, Zenon
    <3> QED BY <2>1, <2>4, <3>1, Zenon
  <2>5. CASE ~Admits(config.map, handler[c].env)
    BY <2>3, <2>5, Zenon
  <2> QED BY <2>4, <2>5
<1>4. CASE ProposeConfigUpdate(c)
  <2> DEFINE u == handler[c].update
             p == [stage |-> "configure", configSeq |-> handler[c].configSeq,
                   env |-> proposeConfigUpdate(config, u)]
  <2>1. /\ handler[c].stage = "propose"
        /\ handler' = [handler EXCEPT ![c] =
                         IF Authorized(config.map, u) THEN p ELSE Idle]
    BY <1>4 DEF ProposeConfigUpdate, SoloInv
  <2>2. CASE Authorized(config.map, u)
    BY <2>1, <2>2, Zenon
  <2>3. CASE ~Authorized(config.map, u)
    BY <2>1, <2>3, Zenon
  <2> QED BY <2>2, <2>3
<1>5. CASE OrderFails(c)
  BY <1>5, Zenon DEF OrderFails
<1> QED BY <1>1, <1>2, <1>3, <1>4, <1>5, Zenon DEF HandlerStep

(* The steps of SoloNext, sorted by what they do to the chain.             *)
LEMMA SoloSteps ==
  ASSUME [SoloNext]_soloVars
  PROVE  \/ \E c \in Clients : HandlerStep(c) \/ HandleNormal(c) \/ HandleConfig(c)
         \/ TimerFires
         \/ UNCHANGED <<vars, config, ledger, timer, handler>>
<1>1. CASE Exit \/ Halt \/ UNCHANGED soloVars
  BY <1>1 DEF Exit, Halt, soloVars, chainVars
<1> QED BY <1>1 DEF SoloNext, HandlerStep

(* Every configuration in force, and every one that was proposed, is one   *)
(* the channel can have.                                                   *)
LEMMA SoloMaps ==
  ASSUME NEW CONSTANT Maps, ClosedUnderDrafts(Maps)
  PROVE  SoloSpec => []MapsInv(Maps)
<1>1. SoloInit => MapsInv(Maps)
  <2> SUFFICES ASSUME SoloInit PROVE MapsInv(Maps)
    OBVIOUS
  <2>1. \A c \in Clients : handler[c] = Idle
    BY DEF SoloInit
  <2> QED BY <2>1 DEF MapsInv, HandlerMaps, Idle, SoloInit, Bundles
<1>2. SoloInv /\ MapsInv(Maps) /\ [SoloNext]_soloVars => MapsInv(Maps)'
  <2> SUFFICES ASSUME SoloInv, MapsInv(Maps), [SoloNext]_soloVars
               PROVE  MapsInv(Maps)'
    OBVIOUS
  <2>0. /\ config \in Bundles(Maps) /\ config.map \in Maps
        /\ \A c \in Clients : HandlerMaps(handler[c], Maps)
    BY BundleMap DEF MapsInv
  <2>1. HandlerMaps(Idle, Maps)
    BY DEF HandlerMaps, Idle
  <2>2. ASSUME NEW c \in Clients, NEW h, HandlerMaps(h, Maps),
               handler' = [handler EXCEPT ![c] = h]
        PROVE  \A d \in Clients : HandlerMaps(handler'[d], Maps)
    <3>1. \A d \in Clients : handler'[d] = IF d = c THEN h ELSE handler[d]
      BY <2>2 DEF SoloInv
    <3> QED BY <2>0, <2>2, <3>1
  <2>3. ASSUME NEW c \in Clients, HandlerStep(c)
        PROVE  MapsInv(Maps)'
    <3>1. config' = config
      BY <2>3, HandlerStepChain DEF chainVars
    <3>2. PICK h : HandlerForm(c, h)
      BY <2>3, HandlerStepForms
    <3>3. ASSUME NEW u \in Drafts(config.map) PROVE u \in Updates(Maps)
      BY <2>0 DEF Updates
    <3>4. handler[c].stage \in {"prepared", "propose"}
            => handler[c].update \in Updates(Maps)
      BY <2>0 DEF HandlerMaps
    <3>5. handler[c].stage = "propose" /\ Authorized(config.map, handler[c].update)
            => proposeConfigUpdate(config, handler[c].update) \in Proposals(Maps)
      BY <2>0, <3>4, ProposalType, Zenon
    <3>6. HandlerMaps(h, Maps)
      BY <2>1, <3>2, <3>3, <3>4, <3>5 DEF HandlerForm, HandlerMaps
    <3>7. handler' = [handler EXCEPT ![c] = h]
      BY <3>2 DEF HandlerForm
    <3> QED BY <2>0, <2>2, <3>1, <3>6, <3>7, Zenon DEF MapsInv
  <2>4. ASSUME NEW c \in Clients, HandleNormal(c)
        PROVE  MapsInv(Maps)'
    <3>1. config' = config /\ handler' = [handler EXCEPT ![c] = Idle]
      BY <2>4 DEF HandleNormal, Take
    <3> QED BY <2>0, <2>1, <2>2, <3>1 DEF MapsInv
  <2>5. ASSUME NEW c \in Clients, HandleConfig(c)
        PROVE  MapsInv(Maps)'
    <3>1. handler' = [handler EXCEPT ![c] = Idle]
      BY <2>5 DEF HandleConfig, Take
    <3>2. config' \in Bundles(Maps)
      BY <2>0, <2>5, CommittedIsProposal, Zenon DEF CommitConfig, Bundles
    <3> QED BY <2>1, <2>2, <3>1, <3>2, Zenon DEF MapsInv
  <2>6. CASE TimerFires \/ UNCHANGED <<vars, config, ledger, timer, handler>>
    <3>1. UNCHANGED <<config, handler>>
      BY <2>6 DEF TimerFires
    <3> QED BY <3>1 DEF MapsInv, HandlerMaps
  <2> QED BY <2>3, <2>4, <2>5, <2>6, SoloSteps, Zenon
<1> QED BY <1>1, <1>2, SoloInvariant, PTL DEF SoloSpec

(* Every step of the consenter is a step of the block cutter's             *)
(* specification or leaves the cutter alone, if the configurations the     *)
(* channel can have hold admissible batch sizes.                           *)
THEOREM SoloImplementsCutter ==
  ASSUME NEW CONSTANT Maps, ClosedUnderDrafts(Maps)
  PROVE  SoloSpec => CutterContract
<1>1. SoloInit => Init
  BY DEF SoloInit
<1>2. SoloInv /\ MapsInv(Maps) /\ [SoloNext]_soloVars => [Next]_vars
  <2> SUFFICES ASSUME SoloInv, MapsInv(Maps), [SoloNext]_soloVars
               PROVE  [Next]_vars
    OBVIOUS
  <2>1. ASSUME NEW env \in Proposals(Maps), CommitConfig(env)
        PROVE  [Next]_vars
    <3>0. BatchSizeOf(env.map) \in BatchSizes
      BY DEF Proposals, ClosedUnderDrafts
    <3>1. \/ batchSize' = batchSize
          \/ batchSize' \in BatchSizes \ {batchSize}
      BY <2>1, <3>0, Zenon DEF CommitConfig
    <3>2. CASE batchSize' = batchSize
      BY <2>1, <3>2, Zenon DEF CommitConfig, Next, CallCut
    <3>3. CASE batchSize' \in BatchSizes \ {batchSize}
      BY <2>1, <3>3 DEF CommitConfig, Next, Reconfigure
    <3> QED BY <3>1, <3>2, <3>3
  <2>2. ASSUME NEW c \in Clients, HandleNormal(c)
        PROVE  [Next]_vars
    <3>1. handler[c].env \in Envelopes
      BY <2>2, Zenon DEF HandleNormal, Take, SoloInv, HandlerInv
    <3> QED BY <2>2, <3>1 DEF HandleNormal, Next
  <2>3. ASSUME NEW c \in Clients, HandleConfig(c)
        PROVE  [Next]_vars
    BY <2>1, <2>3, CommittedIsProposal, Zenon
  <2>4. CASE TimerFires
    BY <2>4 DEF TimerFires, Next
  <2>5. ASSUME NEW c \in Clients, HandlerStep(c)
        PROVE  UNCHANGED vars
    BY <2>5, HandlerStepChain
  <2> QED BY <2>2, <2>3, <2>4, <2>5, SoloSteps, Zenon
<1> QED BY <1>1, <1>2, SoloInvariant, SoloMaps, PTL
        DEF SoloSpec, CutterContract, Spec

(* Whatever clients send and however the configuration changes meanwhile,  *)
(* an envelope the consenter took is in a block or pending, in order.      *)
THEOREM SoloNothingLost ==
  ASSUME NEW CONSTANT Maps, ClosedUnderDrafts(Maps)
  PROVE  SoloSpec => [](TypeOK /\ NothingLost)
BY SoloImplementsCutter, BlockCutterConserves, PTL DEF CutterContract

(* The pending flag Ordered returns is exact.                              *)
LEMMA OrderedPending ==
  ASSUME NEW r \in Receivers, NEW env \in Envelopes, NEW size \in Nat,
         NEW b \in BatchSizes
  PROVE  LET res == Ordered(r, env, size, b)
         IN  /\ res.pending \in BOOLEAN
             /\ res.pending <=> res.receiver.pendingBatch # <<>>
<1>1. /\ Append(r.pendingBatch, env) # <<>>
      /\ Append(<<>>, env) # <<>>
  BY DEF Receivers
<1>2. CASE size > b.preferredMaxBytes
  BY <1>2, Zenon DEF Ordered, OrderedIsolated, Cut, NewReceiver
<1>3. CASE ~(size > b.preferredMaxBytes)
  BY <1>1, <1>3, Zenon DEF Ordered, OrderedBatched, Cut, NewReceiver
<1> QED BY <1>2, <1>3

(* The batch timer runs exactly while envelopes are pending, so it cannot  *)
(* expire on an empty batch and no pending batch is left without a timer.  *)
THEOREM SoloTimer ==
  ASSUME NEW CONSTANT Maps, ClosedUnderDrafts(Maps)
  PROVE  SoloSpec => []TimerIffPending
<1> DEFINE IInv == timer \in BOOLEAN /\ TimerIffPending
<1>1. SoloInit => IInv
  <2>1. SoloInit => timer = FALSE /\ receiver.pendingBatch = <<>>
    BY DEF SoloInit, Init, NewReceiver
  <2>2. timer = FALSE /\ receiver.pendingBatch = <<>> => IInv
    BY Zenon DEF TimerIffPending
  <2> QED BY <2>1, <2>2
<1>2. TypeOK /\ SoloInv /\ IInv /\ [SoloNext]_soloVars => IInv'
  <2> SUFFICES ASSUME TypeOK, SoloInv, IInv, [SoloNext]_soloVars PROVE IInv'
    BY Zenon
  <2>0. receiver \in Receivers /\ batchSize \in BatchSizes
    BY DEF TypeOK, Receivers
  <2>1. ASSUME NEW env, CommitConfig(env)
        PROVE  IInv'
    <3>1. receiver'.pendingBatch = <<>>
      BY <2>1, Zenon DEF CommitConfig, Cut, NewReceiver
    <3>2. timer' = FALSE \/ (timer' = timer /\ main' = "panicked")
      BY <2>1 DEF CommitConfig
    <3> QED BY <3>1, <3>2, Zenon DEF TimerIffPending
  <2>2. ASSUME NEW c \in Clients, HandleNormal(c)
        PROVE  IInv'
    <3>1. handler[c].env \in Envelopes /\ main' = main
      BY <2>2, Zenon DEF HandleNormal, Take, SoloInv, HandlerInv
    <3>2. CASE UNCHANGED <<vars, ledger, timer>>
      BY <3>1, <3>2 DEF TimerIffPending, vars
    <3>3. CASE CallOrdered(handler[c].env) /\ timer' = TimerAfter(last'.pending)
      <4> DEFINE res == Ordered(receiver, handler[c].env, Size[handler[c].env],
                                batchSize)
      <4>1. receiver' = res.receiver /\ last'.pending = res.pending
        BY <3>3, Zenon DEF CallOrdered
      <4>2. Size[handler[c].env] \in Nat
        BY <3>1, BlockCutterAssumption
      <4>3. res.pending \in BOOLEAN
            /\ (res.pending <=> res.receiver.pendingBatch # <<>>)
        BY <2>0, <3>1, <4>2, OrderedPending, Zenon
      <4> HIDE DEF res
      <4>4. timer' = res.pending
        BY <3>3, <4>1, <4>3, Zenon DEF TimerAfter
      <4> QED BY <4>1, <4>3, <4>4 DEF TimerIffPending
    <3> QED BY <2>2, <3>2, <3>3, Zenon DEF HandleNormal
  <2>3. ASSUME NEW c \in Clients, HandleConfig(c)
        PROVE  IInv'
    <3>1. CASE UNCHANGED <<vars, config, ledger, timer, main>>
      BY <3>1 DEF TimerIffPending, vars
    <3> QED BY <2>1, <2>3, <3>1, Zenon DEF HandleConfig
  <2>4. CASE TimerFires
    BY <2>4, Zenon DEF TimerFires, CallCut, Cut, NewReceiver, TimerIffPending
  <2>5. ASSUME NEW c \in Clients,
               \/ PrepareUpdate(c) \/ ReadSequence(c) \/ ApplyFilters(c)
               \/ ProposeConfigUpdate(c) \/ OrderFails(c)
        PROVE  UNCHANGED <<receiver, timer, main>>
    BY <2>5 DEF PrepareUpdate, ReadSequence, ApplyFilters, ProposeConfigUpdate,
                OrderFails, vars, chainVars
  <2>6. CASE Exit \/ Halt \/ UNCHANGED soloVars
    <3>1. /\ UNCHANGED <<receiver, timer>>
          /\ main' = main \/ (main = "running" /\ main' = "exited")
      BY <2>6 DEF Exit, Halt, soloVars, vars, chainVars
    <3> QED BY <3>1, Zenon DEF TimerIffPending
  <2>7. ASSUME UNCHANGED <<receiver, timer, main>>
        PROVE  IInv'
    BY <2>7 DEF TimerIffPending
  <2> QED BY <2>2, <2>3, <2>4, <2>5, <2>6, <2>7, Zenon DEF SoloNext
<1>3. IInv => TimerIffPending
  OBVIOUS
<1> QED BY <1>1, <1>2, <1>3, SoloInvariant, SoloNothingLost, PTL DEF SoloSpec

-----------------------------------------------------------------------------
(* The chain of blocks.                                                    *)

ConfigsOf(L) == {i \in DOMAIN L : L[i].kind = "config"}

PrevConfig(L, i) == L[Max({j \in ConfigsOf(L) : j < i})].config

(* The configuration before block i is that of the last config block       *)
(* before it.                                                              *)
LEMMA PrevConfigIs ==
  ASSUME NEW S, NEW L \in Seq(S), NEW i \in Nat, NEW l \in ConfigsOf(L), l < i,
         \A j \in ConfigsOf(L) : j < i => j <= l
  PROVE  PrevConfig(L, i) = L[l].config
<1> DEFINE T == {j \in ConfigsOf(L) : j < i}
<1>1. ConfigsOf(L) \subseteq 1 .. Len(L) /\ Len(L) \in Nat
  BY DEF ConfigsOf
<1>2. T \subseteq 0 .. i /\ T # {} /\ l \in T /\ \A j \in T : j <= l
  BY <1>1
<1>3. l \in Nat
  BY <1>1
<1> HIDE DEF T
<1>4. Max(T) \in T /\ \A j \in T : j <= Max(T)
  BY <1>2, MaxOfNaturals, Zenon
<1>5. Max(T) = l
  <2>1. Max(T) \in 0 .. i /\ Max(T) <= l /\ l <= Max(T)
    BY <1>2, <1>4, Zenon
  <2> QED BY <1>3, <2>1
<1> QED BY <1>5 DEF PrevConfig, T

(* M is L with blocks written after it.                                    *)
Extends(M, L) == /\ Len(L) <= Len(M)
                 /\ \A j \in 1 .. Len(L) : M[j] = L[j]

(* The config blocks of a longer chain: those there were and new ones.     *)
LEMMA ExtendedConfigs ==
  ASSUME NEW S, NEW L \in Seq(S), NEW M \in Seq(S), Extends(M, L)
  PROVE  /\ \A j \in ConfigsOf(L) : j \in ConfigsOf(M) /\ M[j] = L[j]
         /\ \A j \in ConfigsOf(M) : j \in ConfigsOf(L) \/ j \in Len(L) + 1 .. Len(M)
<1>1. /\ DOMAIN L = 1 .. Len(L) /\ DOMAIN M = 1 .. Len(M)
      /\ Len(L) \in Nat /\ Len(M) \in Nat
  OBVIOUS
<1>2. \A j \in 1 .. Len(L) : j \in 1 .. Len(M)
  BY <1>1 DEF Extends
<1>3. \A j \in 1 .. Len(M) : j \in 1 .. Len(L) \/ j \in Len(L) + 1 .. Len(M)
  BY <1>1
<1> QED BY <1>1, <1>2, <1>3 DEF Extends, ConfigsOf

(* Writing blocks does not change the configuration before an earlier one. *)
LEMMA PrevConfigStable ==
  ASSUME NEW S, NEW L \in Seq(S), NEW M \in Seq(S), Extends(M, L),
         1 \in ConfigsOf(L), NEW i \in 2 .. Len(L)
  PROVE  PrevConfig(M, i) = PrevConfig(L, i)
<1> DEFINE T == {j \in ConfigsOf(L) : j < i}
<1>1. ConfigsOf(L) \subseteq 1 .. Len(L) /\ Len(L) \in Nat
  BY DEF ConfigsOf
<1>2. T = {j \in ConfigsOf(M) : j < i}
  <2>1. \A j \in Len(L) + 1 .. Len(M) : ~(j < i)
    BY <1>1
  <2> QED BY <2>1, ExtendedConfigs
<1>3. T \subseteq 0 .. i /\ T # {} /\ i \in Nat /\ T \subseteq ConfigsOf(L)
  BY <1>1
<1>4. PrevConfig(L, i) = L[Max(T)].config
  BY DEF PrevConfig
<1>5. PrevConfig(M, i) = M[Max(T)].config
  BY <1>2, Zenon DEF PrevConfig
<1> HIDE DEF T
<1>6. Max(T) \in T
  BY <1>3, MaxOfNaturals, Zenon
<1>7. M[Max(T)] = L[Max(T)]
  <2>1. \A j \in ConfigsOf(L) : M[j] = L[j]
    BY ExtendedConfigs
  <2> QED BY <1>3, <1>6, <2>1, Zenon
<1> QED BY <1>4, <1>5, <1>7, Zenon

Admitted(map) == {e \in Envelopes : Admits(map, e)}

ChainBlocks(Maps) == [kind : {"config"}, config : Bundles(Maps)]
                       \cup [kind : {"normal"}, txs : Seq(Envelopes)]

Drafted(L, u) == \E j \in ConfigsOf(L) : u \in Drafts(L[j].config.map)

(* A block is in order: its transactions are admitted by the configuration *)
(* before it, or its configuration follows validly from that one, by an    *)
(* update drafted from an earlier one whose versions still vouch for it.   *)
BlockOK(L, i) ==
  IF L[i].kind = "config"
    THEN /\ Validate(PrevConfig(L, i), L[i].config)
         /\ IsTree(PrevConfig(L, i).map)
         /\ \E j \in ConfigsOf(L) :
              /\ L[i].config.lastUpdate \in Drafts(L[j].config.map)
              /\ Vouches(L[j].config.map, PrevConfig(L, i).map)
    ELSE L[i].txs \in Seq(Admitted(PrevConfig(L, i).map))

(* c is the configuration of the last config block of L.                   *)
Newest(L, c) == \E l \in ConfigsOf(L) : /\ L[l].config = c
                                        /\ \A j \in ConfigsOf(L) : j <= l

LedgerOK(L, c, Maps) ==
  /\ L \in Seq(ChainBlocks(Maps))
  /\ 1 \in ConfigsOf(L)
  /\ Newest(L, c)
  /\ \A j \in ConfigsOf(L) : /\ IsTree(L[j].config.map)
                             /\ Vouches(L[j].config.map, c.map)
  /\ \A i \in 2 .. Len(L) : BlockOK(L, i)

(* A block in order stays so when others follow.                           *)
LEMMA BlockStaysOK ==
  ASSUME NEW S, NEW L \in Seq(S), NEW M \in Seq(S), Extends(M, L),
         1 \in ConfigsOf(L), NEW i \in 2 .. Len(L), BlockOK(L, i)
  PROVE  BlockOK(M, i)
<1>1. PrevConfig(M, i) = PrevConfig(L, i)
  BY PrevConfigStable
<1>2. M[i] = L[i]
  <2>1. i \in 1 .. Len(L)
    OBVIOUS
  <2> QED BY <2>1 DEF Extends
<1>3. \A j \in ConfigsOf(L) : j \in ConfigsOf(M) /\ M[j] = L[j]
  BY ExtendedConfigs
<1> QED BY <1>1, <1>2, <1>3 DEF BlockOK

(* What was drafted from a configuration of the chain remains so.          *)
LEMMA DraftedStays ==
  ASSUME NEW S, NEW L \in Seq(S), NEW M \in Seq(S), Extends(M, L),
         NEW u, Drafted(L, u)
  PROVE  Drafted(M, u)
BY ExtendedConfigs DEF Drafted

(* The chain with batches written after it.                                *)
Written(L, batches) == L \o [i \in DOMAIN batches |-> NormalBlock(batches[i])]

(* Batches of admitted envelopes may be written.                           *)
LEMMA NormalBlocksOK ==
  ASSUME NEW Maps, NEW L, NEW c, LedgerOK(L, c, Maps),
         NEW batches \in Seq(Seq(Admitted(c.map))),
         NEW M, M = Written(L, batches)
  PROVE  LedgerOK(M, c, Maps) /\ Extends(M, L)
<1> DEFINE S == ChainBlocks(Maps)
           A == Seq(Admitted(c.map))
           B == [i \in DOMAIN batches |-> NormalBlock(batches[i])]
<1>0. L \in Seq(S) /\ Len(L) \in Nat
  BY DEF LedgerOK
<1>1. \A b \in A : b \in Seq(Envelopes)
  BY DEF Admitted
<1>2. \A b \in A : NormalBlock(b) \in S
  BY <1>1 DEF NormalBlock, ChainBlocks
<1>3. /\ DOMAIN batches = 1 .. Len(batches) /\ Len(batches) \in Nat
      /\ \A i \in 1 .. Len(batches) : batches[i] \in A
  OBVIOUS
<1> HIDE DEF S, A
<1>4. B \in Seq(S) /\ Len(B) = Len(batches)
  <2>1. B \in [1 .. Len(batches) -> S]
    BY <1>2, <1>3, Zenon
  <2> QED BY <1>3, <2>1
<1>5. /\ M \in Seq(S) /\ Len(M) = Len(L) + Len(batches)
      /\ \A i \in 1 .. Len(L) : M[i] = L[i]
      /\ \A i \in Len(L) + 1 .. Len(M) : M[i] = B[i - Len(L)]
  <2> HIDE DEF B
  <2>1. M = L \o B
    BY DEF B, Written
  <2>2. /\ L \o B \in Seq(S) /\ Len(L \o B) = Len(L) + Len(B)
        /\ \A i \in 1 .. Len(L) + Len(B) :
             (L \o B)[i] = IF i <= Len(L) THEN L[i] ELSE B[i - Len(L)]
    BY <1>0, <1>4, ConcatSequences, Zenon
  <2>3. /\ M \in Seq(S) /\ Len(M) = Len(L) + Len(batches)
        /\ \A i \in 1 .. Len(L) + Len(batches) :
             M[i] = IF i <= Len(L) THEN L[i] ELSE B[i - Len(L)]
    BY <1>4, <2>1, <2>2, Zenon
  <2>4. /\ \A i \in 1 .. Len(L) : i \in 1 .. Len(L) + Len(batches) /\ i <= Len(L)
        /\ \A i \in Len(L) + 1 .. Len(L) + Len(batches) :
             i \in 1 .. Len(L) + Len(batches) /\ ~(i <= Len(L))
    BY <1>0, <1>3
  <2> QED BY <2>3, <2>4, Zenon
<1>6. ASSUME NEW i \in Len(L) + 1 .. Len(M)
      PROVE  M[i].kind = "normal" /\ M[i].txs \in A
  <2>1. i - Len(L) \in 1 .. Len(batches)
    BY <1>0, <1>3, <1>5
  <2>2. M[i] = NormalBlock(batches[i - Len(L)])
    BY <1>3, <1>5, <2>1, Zenon
  <2> QED BY <1>3, <2>1, <2>2 DEF NormalBlock
<1> HIDE DEF B
<1>7. Extends(M, L)
  BY <1>0, <1>3, <1>5 DEF Extends
<1>8. ConfigsOf(M) = ConfigsOf(L) /\ \A j \in ConfigsOf(L) : M[j] = L[j]
  <2>1. \A j \in Len(L) + 1 .. Len(M) : j \notin ConfigsOf(M)
    BY <1>6 DEF ConfigsOf
  <2>2. /\ \A j \in ConfigsOf(L) : j \in ConfigsOf(M) /\ M[j] = L[j]
        /\ \A j \in ConfigsOf(M) : j \in ConfigsOf(L) \/ j \in Len(L) + 1 .. Len(M)
    <3>1. M \in Seq(S)
      BY <1>5
    <3> QED BY <1>0, <1>7, <3>1, ExtendedConfigs
  <2> QED BY <2>1, <2>2, Zenon
<1>9. PICK l \in ConfigsOf(L) : L[l].config = c /\ \A j \in ConfigsOf(L) : j <= l
  BY Zenon DEF LedgerOK, Newest
<1>10. l \in 1 .. Len(L)
  BY <1>0 DEF ConfigsOf
<1>11. ASSUME NEW i \in 2 .. Len(M)
       PROVE  BlockOK(M, i)
  <2>1. CASE i \in 2 .. Len(L)
    <3>1. BlockOK(L, i) /\ 1 \in ConfigsOf(L)
      BY <2>1 DEF LedgerOK
    <3> QED BY <1>0, <1>5, <1>7, <2>1, <3>1, BlockStaysOK, Zenon
  <2>2. CASE i \notin 2 .. Len(L)
    <3>1. i \in Len(L) + 1 .. Len(M) /\ l < i /\ i \in Nat
      BY <1>0, <1>3, <1>5, <1>10, <2>2
    <3>2. l \in ConfigsOf(M) /\ M[l].config = c /\ \A j \in ConfigsOf(M) : j <= l
      BY <1>8, <1>9
    <3>3. PrevConfig(M, i) = c
      BY <1>5, <3>1, <3>2, PrevConfigIs, Zenon
    <3>4. M[i].kind # "config" /\ M[i].txs \in Seq(Admitted(c.map))
      BY <1>6, <3>1, Zenon DEF A
    <3> QED BY <3>3, <3>4, Zenon DEF BlockOK
  <2> QED BY <2>1, <2>2, Zenon
<1>12. Newest(M, c)
  BY <1>8, <1>9, Zenon DEF Newest
<1>13. \A j \in ConfigsOf(M) : /\ IsTree(M[j].config.map)
                               /\ Vouches(M[j].config.map, c.map)
  BY <1>8, Zenon DEF LedgerOK
<1>14. 1 \in ConfigsOf(M)
  BY <1>8 DEF LedgerOK
<1> QED BY <1>5, <1>7, <1>11, <1>12, <1>13, <1>14, Zenon DEF LedgerOK, S

(* A validated configuration may be written.                               *)
LEMMA ConfigBlockOK ==
  ASSUME NEW Maps, ClosedUnderDrafts(Maps),
         NEW L, NEW c, LedgerOK(L, c, Maps),
         NEW env \in Proposals(Maps), Validate(c, env),
         Drafted(L, env.lastUpdate),
         NEW M, M = Append(L, ConfigBlock(env))
  PROVE  LedgerOK(M, env, Maps) /\ Extends(M, L)
<1> DEFINE S == ChainBlocks(Maps)
<1>0. L \in Seq(S) /\ Len(L) \in Nat
  BY DEF LedgerOK
<1>1. ConfigBlock(env) \in S
  BY Zenon DEF ConfigBlock, ChainBlocks, Bundles
<1>2. /\ M \in Seq(S) /\ Len(M) = Len(L) + 1
      /\ \A i \in 1 .. Len(L) : M[i] = L[i]
      /\ M[Len(L) + 1] = ConfigBlock(env)
  <2> HIDE DEF S
  <2> QED BY <1>0, <1>1, AppendElement
<1> HIDE DEF S
<1> DEFINE n == Len(L) + 1
<1>3. M[n].kind = "config" /\ M[n].config = env /\ n \in ConfigsOf(M)
  BY <1>0, <1>2 DEF ConfigBlock, ConfigsOf
<1>4. Extends(M, L)
  BY <1>0, <1>2 DEF Extends
<1>5. /\ \A j \in ConfigsOf(L) : j \in ConfigsOf(M) /\ M[j] = L[j]
      /\ \A j \in ConfigsOf(M) : j \in ConfigsOf(L) \/ j = n
  <2>1. \A j \in Len(L) + 1 .. Len(M) : j = n
    BY <1>0, <1>2
  <2> QED BY <1>0, <1>2, <1>4, <2>1, ExtendedConfigs, Zenon
<1>6. \A j \in ConfigsOf(L) : j \in 1 .. Len(L)
  BY <1>0 DEF ConfigsOf
<1>7. PICK l \in ConfigsOf(L) : L[l].config = c /\ \A j \in ConfigsOf(L) : j <= l
  BY DEF LedgerOK, Newest
<1>8. /\ \A j \in ConfigsOf(L) : /\ IsTree(L[j].config.map)
                                 /\ Vouches(L[j].config.map, c.map)
      /\ IsTree(c.map)
  BY <1>7 DEF LedgerOK
<1>9. /\ Authorized(c.map, env.lastUpdate)
      /\ env.map = UpdatedMap(c.map, env.lastUpdate)
      /\ DOMAIN env.lastUpdate.writeSet \subseteq Seq(STRING)
  BY DEF Validate, Proposals, ClosedUnderDrafts
<1>10. IsTree(env.map) /\ Vouches(env.map, env.map)
  BY <1>8, <1>9, UpdatedIsTree, VouchesReflexive, Zenon
<1>11. \A j \in ConfigsOf(L) : Vouches(L[j].config.map, env.map)
  BY <1>8, <1>9, VouchesStep, Zenon
<1>12. PrevConfig(M, n) = c
  <2>1. /\ l \in ConfigsOf(M) /\ M[l].config = c /\ l < n /\ n \in Nat
        /\ ~(n < n)
    BY <1>0, <1>5, <1>6, <1>7
  <2>2. \A j \in ConfigsOf(M) : j < n => j <= l
    BY <1>5, <1>7, <2>1
  <2> HIDE DEF n
  <2> QED BY <1>2, <2>1, <2>2, PrevConfigIs, Zenon
<1> HIDE DEF n
<1>13. BlockOK(M, n)
  <2>1. PICK j \in ConfigsOf(L) : env.lastUpdate \in Drafts(L[j].config.map)
    BY DEF Drafted
  <2>2. /\ j \in ConfigsOf(M) /\ env.lastUpdate \in Drafts(M[j].config.map)
        /\ Vouches(M[j].config.map, c.map)
    BY <1>5, <1>8, <2>1, Zenon
  <2> QED BY <1>3, <1>8, <1>12, <2>2, Zenon DEF BlockOK
<1>14. ASSUME NEW i \in 2 .. Len(M)
       PROVE  BlockOK(M, i)
  <2>1. CASE i \in 2 .. Len(L)
    <3>1. BlockOK(L, i) /\ 1 \in ConfigsOf(L)
      BY <2>1 DEF LedgerOK
    <3> QED BY <1>0, <1>2, <1>4, <2>1, <3>1, BlockStaysOK, Zenon
  <2>2. CASE i \notin 2 .. Len(L)
    <3>1. i = n
      BY <1>0, <1>2, <2>2 DEF n
    <3> QED BY <1>13, <3>1, Zenon
  <2> QED BY <2>1, <2>2
<1>15. Newest(M, env)
  <2>1. n \in Nat /\ \A j \in 1 .. Len(L) : j <= n
    BY <1>0 DEF n
  <2>2. \A j \in ConfigsOf(M) : j <= n
    BY <1>5, <1>6, <2>1
  <2> QED BY <1>3, <2>2, Zenon DEF Newest
<1>16. \A j \in ConfigsOf(M) : /\ IsTree(M[j].config.map)
                               /\ Vouches(M[j].config.map, env.map)
  BY <1>3, <1>5, <1>8, <1>10, <1>11, Zenon
<1>17. 1 \in ConfigsOf(M)
  BY <1>5 DEF LedgerOK
<1> QED BY <1>2, <1>4, <1>14, <1>15, <1>16, <1>17, Zenon DEF LedgerOK, S

(* What Ordered hands out and what it keeps was pending or is the new      *)
(* envelope.                                                               *)
LEMMA OrderedKeepsTo ==
  ASSUME NEW P, P \subseteq Envelopes,
         NEW r \in Receivers, r.pendingBatch \in Seq(P), NEW env \in P,
         NEW size \in Nat, NEW b \in BatchSizes
  PROVE  /\ Ordered(r, env, size, b).batches \in Seq(Seq(P))
         /\ Ordered(r, env, size, b).receiver.pendingBatch \in Seq(P)
<1> DEFINE p == r.pendingBatch
           one == <<env>>
           full == Append(p, env)
           res == Ordered(r, env, size, b)
           Q == Seq(P)
<1>1. p \in Q /\ one \in Q /\ full \in Q /\ <<>> \in Q
  BY AppendElement
<1>2. OrderedForm(r, env, size, b, res)
  BY OrderedForms, Zenon
<1>3. /\ NewReceiver.pendingBatch = <<>>
      /\ \A bs, pd, rc : /\ OrderedResult(bs, pd, rc).batches = bs
                         /\ OrderedResult(bs, pd, rc).receiver = rc
  BY DEF NewReceiver, OrderedResult
<1>4. /\ res.batches \in {<<one>>, <<p, one>>, <<p>>, <<full>>, <<>>}
      /\ res.receiver.pendingBatch \in {p, <<>>, one, full}
  <2> DEFINE sum == (r.pendingBatchSizeBytes + size) % Uint32Size
             mod == (0 + size) % Uint32Size
             alone == [pendingBatch |-> one, pendingBatchSizeBytes |-> mod]
             joined == [pendingBatch |-> full, pendingBatchSizeBytes |-> sum]
  <2>1. \/ res = OrderedResult(<<one>>, FALSE, r)
        \/ res = OrderedResult(<<p, one>>, FALSE, NewReceiver)
        \/ res = OrderedResult(<<p>>, TRUE, alone)
        \/ res = OrderedResult(<<full>>, FALSE, NewReceiver)
        \/ res = OrderedResult(<<>>, TRUE, joined)
    <3> HIDE DEF res
    <3> QED BY <1>2, Zenon DEF OrderedForm
  <2>2. alone.pendingBatch = one /\ joined.pendingBatch = full
    OBVIOUS
  <2>3. r.pendingBatch = p
    BY Zenon
  <2> HIDE DEF res, alone, joined, one, full, p
  <2>4. \/ res.batches = <<one>> /\ res.receiver = r
        \/ res.batches = <<p, one>> /\ res.receiver = NewReceiver
        \/ res.batches = <<p>> /\ res.receiver = alone
        \/ res.batches = <<full>> /\ res.receiver = NewReceiver
        \/ res.batches = <<>> /\ res.receiver = joined
    BY <2>1 DEF OrderedResult
  <2> QED BY <1>3, <2>2, <2>3, <2>4, Zenon
<1> HIDE DEF Q, p, one, full, res
<1>5. /\ <<one>> \in Seq(Q) /\ <<p, one>> \in Seq(Q) /\ <<p>> \in Seq(Q)
      /\ <<full>> \in Seq(Q) /\ <<>> \in Seq(Q)
  BY <1>1
<1>6. res.batches \in Seq(Q)
  BY <1>4, <1>5, Zenon
<1>7. res.receiver.pendingBatch \in Q
  BY <1>1, <1>4
<1> QED BY <1>6, <1>7, Zenon DEF Q, res

-----------------------------------------------------------------------------
(* The chain while handlers and the main loop interleave.  An envelope     *)
(* waiting to be ordered under the current sequence was admitted by the    *)
(* current configuration, since the sequence was read before the filters   *)
(* were applied; an update under way was drafted from a configuration that *)
(* is in the chain.                                                        *)
HandlerLedger(h, L, c) ==
  /\ h.stage = "order" /\ h.configSeq = c.sequence => Admits(c.map, h.env)
  /\ h.stage \in {"prepared", "propose"} => Drafted(L, h.update)
  /\ h.stage = "configure" => Drafted(L, h.env.lastUpdate)

LedgerInv(Maps) ==
  /\ LedgerOK(ledger, config, Maps)
  /\ receiver.pendingBatch \in Seq(Admitted(config.map))
  /\ \A c \in Clients : HandlerLedger(handler[c], ledger, config)

(* A handler that takes a step, while the chain grows by normal blocks or  *)
(* not at all, keeps the other handlers' invariant.                        *)
LEMMA LedgerHandlers ==
  ASSUME NEW Maps, SoloInv, LedgerInv(Maps), NEW c \in Clients, NEW h,
         handler' = [handler EXCEPT ![c] = h], config' = config,
         LedgerOK(ledger', config, Maps), Extends(ledger', ledger),
         HandlerLedger(h, ledger', config)
  PROVE  \A d \in Clients : HandlerLedger(handler'[d], ledger', config')
<1> SUFFICES ASSUME NEW d \in Clients
             PROVE  HandlerLedger(handler'[d], ledger', config')
  OBVIOUS
<1>1. handler'[d] = IF d = c THEN h ELSE handler[d]
  BY Zenon DEF SoloInv
<1>2. ledger \in Seq(ChainBlocks(Maps)) /\ ledger' \in Seq(ChainBlocks(Maps))
  BY DEF LedgerInv, LedgerOK
<1>3. \A u : Drafted(ledger, u) => Drafted(ledger', u)
  BY <1>2, DraftedStays, Zenon
<1>4. HandlerLedger(handler[d], ledger, config)
  BY Zenon DEF LedgerInv
<1> QED BY <1>1, <1>3, <1>4, Zenon DEF HandlerLedger

(* Writing the pending batch, if there is one, keeps the chain in order.   *)
LEMMA PendingBlockOK ==
  ASSUME NEW Maps, LedgerInv(Maps), NEW M,
         M = Written(ledger, IF receiver.pendingBatch = <<>> THEN <<>>
                             ELSE <<receiver.pendingBatch>>)
  PROVE  LedgerOK(M, config, Maps) /\ Extends(M, ledger)
<1> DEFINE p == receiver.pendingBatch
           bs == IF p = <<>> THEN <<>> ELSE <<p>>
           A == Seq(Admitted(config.map))
<1>1. p \in A
  BY DEF LedgerInv
<1>2. bs \in Seq(A)
  <2> HIDE DEF A, p
  <2> QED BY <1>1
<1>3. LedgerOK(ledger, config, Maps)
  BY DEF LedgerInv
<1>4. M = Written(ledger, bs)
  OBVIOUS
<1> HIDE DEF bs
<1> QED BY <1>2, <1>3, <1>4, NormalBlocksOK, Zenon DEF A

(* An unchanged chain extends itself.                                      *)
LEMMA ExtendsItself ==
  ASSUME NEW S, NEW L \in Seq(S)
  PROVE  Extends(L, L)
BY DEF Extends

(* What the invariant says of the chain and of the calls in progress.      *)
LEMMA LedgerFacts ==
  ASSUME NEW Maps, LedgerInv(Maps)
  PROVE  /\ LedgerOK(ledger, config, Maps)
         /\ receiver.pendingBatch \in Seq(Admitted(config.map))
         /\ \A d \in Clients : HandlerLedger(handler[d], ledger, config)
         /\ ledger \in Seq(ChainBlocks(Maps)) /\ Extends(ledger, ledger)
BY ExtendsItself, Zenon DEF LedgerInv, LedgerOK

(* An idle handler asks nothing of the chain.                              *)
LEMMA IdleHandler == \A L, c : HandlerLedger(Idle, L, c)
BY DEF HandlerLedger, Idle

(* A client's own step leaves the chain alone.                             *)
LEMMA LedgerHandlerStep ==
  ASSUME NEW Maps, ClosedUnderDrafts(Maps), TypeOK, SoloInv, MapsInv(Maps),
         LedgerInv(Maps), NEW c \in Clients, HandlerStep(c)
  PROVE  LedgerInv(Maps)'
<1>0. /\ LedgerOK(ledger, config, Maps)
      /\ receiver.pendingBatch \in Seq(Admitted(config.map))
      /\ \A d \in Clients : HandlerLedger(handler[d], ledger, config)
      /\ ledger \in Seq(ChainBlocks(Maps)) /\ Extends(ledger, ledger)
  BY LedgerFacts, Zenon
<1>1. UNCHANGED <<receiver, config, ledger>>
  BY HandlerStepChain DEF chainVars, vars
<1>2. PICK h : HandlerForm(c, h)
  BY HandlerStepForms
<1>3. handler' = [handler EXCEPT ![c] = h]
  BY <1>2, Zenon DEF HandlerForm
<1>4. \A u \in Drafts(config.map) : Drafted(ledger, u)
  BY <1>0, Zenon DEF LedgerOK, Newest, Drafted
<1>5. HandlerLedger(handler[c], ledger, config)
  BY <1>0
<1>6. proposeConfigUpdate(config, handler[c].update).lastUpdate
        = handler[c].update
  BY Zenon DEF proposeConfigUpdate
<1>7. HandlerLedger(h, ledger, config)
  BY IdleHandler, <1>2, <1>4, <1>5, <1>6 DEF HandlerForm, HandlerLedger
<1>8. \A d \in Clients : HandlerLedger(handler'[d], ledger', config')
  BY <1>0, <1>1, <1>3, <1>7, LedgerHandlers, Zenon
<1> QED BY <1>0, <1>1, <1>8, Zenon DEF LedgerInv

(* The main loop orders a normal message.                                  *)
LEMMA LedgerHandleNormal ==
  ASSUME NEW Maps, ClosedUnderDrafts(Maps), TypeOK, SoloInv, MapsInv(Maps),
         LedgerInv(Maps), NEW c \in Clients, HandleNormal(c)
  PROVE  LedgerInv(Maps)'
<1>0. /\ LedgerOK(ledger, config, Maps)
      /\ receiver.pendingBatch \in Seq(Admitted(config.map))
      /\ \A d \in Clients : HandlerLedger(handler[d], ledger, config)
      /\ ledger \in Seq(ChainBlocks(Maps)) /\ Extends(ledger, ledger)
  BY LedgerFacts, Zenon
<1> DEFINE env == handler[c].env
           res == Ordered(receiver, env, Size[env], batchSize)
<1>1. /\ config' = config /\ handler' = [handler EXCEPT ![c] = Idle]
      /\ handler[c].stage = "order"
  BY DEF HandleNormal, Take
<1>2. CASE UNCHANGED <<vars, ledger, timer>>
  <2>1. UNCHANGED <<receiver, ledger>>
    BY <1>2 DEF vars
  <2>2. \A d \in Clients : HandlerLedger(handler'[d], ledger', config')
    BY <1>0, IdleHandler, <1>1, <2>1, LedgerHandlers, Zenon
  <2> QED BY <1>0, <1>1, <2>1, <2>2, Zenon DEF LedgerInv
<1>3. CASE /\ ~(Stale(handler[c]) /\ ~Admits(config.map, env))
           /\ CallOrdered(env)
           /\ ledger' = WriteBlocks(last'.batches)
  <2>1. /\ HandlerInv(handler[c]) /\ config.sequence \in Nat
        /\ HandlerLedger(handler[c], ledger, config)
    BY <1>0, Zenon DEF SoloInv
  <2>2. /\ env \in Envelopes /\ handler[c].configSeq \in Nat
        /\ handler[c].configSeq <= config.sequence
    BY <1>1, <2>1, Zenon DEF HandlerInv, Stamped
  <2>3. Admits(config.map, env)
    <3>1. CASE handler[c].configSeq = config.sequence
      BY <1>1, <2>1, <3>1, Zenon DEF HandlerLedger
    <3>2. CASE handler[c].configSeq # config.sequence
      <4>1. handler[c].configSeq < config.sequence
        BY <2>1, <2>2, <3>2
      <4> QED BY <1>3, <4>1, Zenon DEF Stale
    <3> QED BY <3>1, <3>2
  <2>4. env \in Admitted(config.map) /\ Admitted(config.map) \subseteq Envelopes
    BY <2>2, <2>3, Zenon DEF Admitted
  <2>5. /\ receiver \in Receivers /\ batchSize \in BatchSizes
        /\ Size[env] \in Nat
    BY <2>2, BlockCutterAssumption, Zenon DEF TypeOK, Receivers
  <2>6. /\ res.batches \in Seq(Seq(Admitted(config.map)))
        /\ res.receiver.pendingBatch \in Seq(Admitted(config.map))
    <3> HIDE DEF env
    <3> QED BY <1>0, <2>4, <2>5, OrderedKeepsTo
  <2>7. /\ receiver' = res.receiver
        /\ ledger' = Written(ledger, res.batches)
    BY <1>3, Zenon DEF CallOrdered, WriteBlocks, Written
  <2> HIDE DEF res
  <2>8. LedgerOK(ledger', config, Maps) /\ Extends(ledger', ledger)
    BY <1>0, <2>6, <2>7, NormalBlocksOK
  <2>9. \A d \in Clients : HandlerLedger(handler'[d], ledger', config')
    BY IdleHandler, <1>1, <2>8, LedgerHandlers, Zenon
  <2> QED BY <1>1, <2>6, <2>7, <2>8, <2>9, Zenon DEF LedgerInv
<1> QED BY <1>2, <1>3 DEF HandleNormal

(* The main loop commits a configuration.                                  *)
LEMMA LedgerHandleConfig ==
  ASSUME NEW Maps, ClosedUnderDrafts(Maps), TypeOK, SoloInv, MapsInv(Maps),
         LedgerInv(Maps), NEW c \in Clients, HandleConfig(c)
  PROVE  LedgerInv(Maps)'
<1>0. /\ LedgerOK(ledger, config, Maps)
      /\ receiver.pendingBatch \in Seq(Admitted(config.map))
      /\ \A d \in Clients : HandlerLedger(handler[d], ledger, config)
      /\ ledger \in Seq(ChainBlocks(Maps)) /\ Extends(ledger, ledger)
  BY LedgerFacts, Zenon
<1>1. /\ handler' = [handler EXCEPT ![c] = Idle]
      /\ handler[c].stage = "configure"
  BY Zenon DEF HandleConfig, Take
<1>2. CASE UNCHANGED <<vars, config, ledger, timer, main>>
  <2>1. UNCHANGED <<receiver, ledger, config>>
    BY <1>2 DEF vars
  <2>2. \A d \in Clients : HandlerLedger(handler'[d], ledger', config')
    BY <1>0, IdleHandler, <1>1, <2>1, LedgerHandlers, Zenon
  <2> QED BY <1>0, <2>1, <2>2, Zenon DEF LedgerInv
<1>3. ASSUME NEW env \in Proposals(Maps), Validate(config, env),
             CommitConfig(env), env.lastUpdate = handler[c].env.lastUpdate
      PROVE  LedgerInv(Maps)'
  <2> DEFINE cut == Written(ledger, IF receiver.pendingBatch = <<>> THEN <<>>
                                    ELSE <<receiver.pendingBatch>>)
  <2>1. /\ receiver'.pendingBatch = <<>> /\ config' = env
        /\ ledger' = Append(cut, ConfigBlock(env))
    BY <1>3, Zenon DEF CommitConfig, Cut, NewReceiver, WriteBlocks, Written
  <2>2. LedgerOK(cut, config, Maps) /\ Extends(cut, ledger)
    <3> HIDE DEF cut
    <3> QED BY PendingBlockOK, Zenon DEF cut
  <2> HIDE DEF cut
  <2>3. cut \in Seq(ChainBlocks(Maps))
    BY <2>2 DEF LedgerOK
  <2>4. \A u : Drafted(ledger, u) => Drafted(cut, u)
    BY <1>0, <2>2, <2>3, DraftedStays
  <2>5. Drafted(cut, env.lastUpdate)
    BY <1>0, <1>1, <1>3, <2>4, Zenon DEF HandlerLedger
  <2>6. LedgerOK(ledger', env, Maps) /\ Extends(ledger', cut)
    BY <1>3, <2>1, <2>2, <2>5, ConfigBlockOK, Zenon
  <2>7. ledger' \in Seq(ChainBlocks(Maps))
    BY <2>6 DEF LedgerOK
  <2>8. \A u : Drafted(ledger, u) => Drafted(ledger', u)
    BY <2>3, <2>4, <2>6, <2>7, DraftedStays, Zenon
  <2>9. ASSUME NEW d \in Clients
        PROVE  HandlerLedger(handler'[d], ledger', config')
    <3>1. handler'[d] = IF d = c THEN Idle ELSE handler[d]
      BY <1>1 DEF SoloInv
    <3>2. /\ HandlerInv(handler[d]) /\ config.sequence \in Nat
          /\ HandlerLedger(handler[d], ledger, config)
      BY <1>0, Zenon DEF SoloInv
    <3>3. handler[d].stage = "order" => handler[d].configSeq # env.sequence
      <4>1. handler[d].stage = "order" =>
              /\ handler[d].configSeq \in Nat
              /\ handler[d].configSeq <= config.sequence
        BY <3>2 DEF HandlerInv, Stamped
      <4>2. env.sequence = config.sequence + 1
        BY <1>3, Zenon DEF Validate
      <4> QED BY <3>2, <4>1, <4>2
    <3>4. HandlerLedger(handler[d], ledger', env)
      BY <2>8, <3>2, <3>3, Zenon DEF HandlerLedger
    <3> QED BY IdleHandler, <2>1, <3>1, <3>4, Zenon
  <2>10. receiver'.pendingBatch \in Seq(Admitted(env.map))
    BY <2>1, EmptyIsSequence, Zenon
  <2> QED BY <2>1, <2>6, <2>9, <2>10, Zenon DEF LedgerInv
<1> QED BY <1>2, <1>3, CommittedIsProposal, Zenon

(* The batch timer cuts what is pending.                                   *)
LEMMA LedgerTimerFires ==
  ASSUME NEW Maps, ClosedUnderDrafts(Maps), TypeOK, SoloInv, MapsInv(Maps),
         LedgerInv(Maps), TimerFires
  PROVE  LedgerInv(Maps)'
<1>0. /\ LedgerOK(ledger, config, Maps)
      /\ receiver.pendingBatch \in Seq(Admitted(config.map))
      /\ \A d \in Clients : HandlerLedger(handler[d], ledger, config)
      /\ ledger \in Seq(ChainBlocks(Maps)) /\ Extends(ledger, ledger)
  BY LedgerFacts, Zenon
<1>1. /\ receiver'.pendingBatch = <<>> /\ UNCHANGED <<config, handler>>
      /\ ledger' = Written(ledger, IF receiver.pendingBatch = <<>> THEN <<>>
                                   ELSE <<receiver.pendingBatch>>)
  BY DEF TimerFires, CallCut, Cut, NewReceiver, WriteBlocks, Written
<1>2. LedgerOK(ledger', config, Maps) /\ Extends(ledger', ledger)
  BY <1>1, PendingBlockOK, Zenon
<1>3. ledger' \in Seq(ChainBlocks(Maps))
  BY <1>2, Zenon DEF LedgerOK
<1>4. \A u : Drafted(ledger, u) => Drafted(ledger', u)
  BY <1>0, <1>2, <1>3, DraftedStays, Zenon
<1>5. \A d \in Clients : HandlerLedger(handler'[d], ledger', config')
  BY <1>0, <1>1, <1>4, Zenon DEF HandlerLedger
<1>6. receiver'.pendingBatch \in Seq(Admitted(config.map)) /\ config' = config
  BY <1>1, EmptyIsSequence, Zenon
<1>7. LedgerOK(ledger', config', Maps)
      /\ receiver'.pendingBatch \in Seq(Admitted(config'.map))
  BY <1>2, <1>6, Zenon
<1> QED BY <1>5, <1>7, Zenon DEF LedgerInv

(* Every block of the chain is in order, whatever clients send and however *)
(* their handlers interleave with the main loop.                           *)
THEOREM SoloLedger ==
  ASSUME NEW CONSTANT Maps, ClosedUnderDrafts(Maps)
  PROVE  SoloSpec => []LedgerInv(Maps)
<1>1. SoloInit => LedgerInv(Maps)
  <2> SUFFICES ASSUME SoloInit PROVE LedgerInv(Maps)
    OBVIOUS
  <2> DEFINE g == ConfigBlock(Genesis)
  <2>1. ledger = <<g>> /\ config = Genesis /\ receiver.pendingBatch = <<>>
    BY Zenon DEF SoloInit, Init, NewReceiver
  <2>2. g.kind = "config" /\ g.config = Genesis /\ g \in ChainBlocks(Maps)
    BY DEF ConfigBlock, ChainBlocks, Bundles
  <2> HIDE DEF g
  <2>3. /\ ledger \in Seq(ChainBlocks(Maps)) /\ Len(ledger) = 1
        /\ ledger[1] = g /\ DOMAIN ledger = {1}
    BY <2>1, <2>2
  <2>4. ConfigsOf(ledger) = {1}
    BY <2>2, <2>3, Zenon DEF ConfigsOf
  <2>5. IsTree(config.map) /\ Vouches(config.map, config.map)
    BY <2>1, SoloAssumption, VouchesReflexive, Zenon DEF Genesis
  <2>6. Newest(ledger, config)
    BY <2>1, <2>2, <2>3, <2>4 DEF Newest
  <2>7. 2 .. Len(ledger) = {}
    BY <2>3
  <2>8. LedgerOK(ledger, config, Maps)
    BY <2>1, <2>2, <2>3, <2>4, <2>5, <2>6, <2>7, Zenon DEF LedgerOK
  <2>9. \A c \in Clients : handler[c] = Idle
    BY DEF SoloInit
  <2>10. \A c \in Clients : HandlerLedger(handler[c], ledger, config)
    BY <2>9 DEF HandlerLedger, Idle
  <2> QED BY <2>1, <2>8, <2>10 DEF LedgerInv
<1>2. /\ TypeOK /\ SoloInv /\ MapsInv(Maps) /\ LedgerInv(Maps)
      /\ [SoloNext]_soloVars
      => LedgerInv(Maps)'
  <2> SUFFICES ASSUME TypeOK, SoloInv, MapsInv(Maps), LedgerInv(Maps),
                      [SoloNext]_soloVars
               PROVE  LedgerInv(Maps)'
    OBVIOUS
  <2>2. ASSUME NEW c \in Clients, HandlerStep(c)
        PROVE  LedgerInv(Maps)'
    BY <2>2, LedgerHandlerStep, Zenon
  <2>3. ASSUME NEW c \in Clients, HandleNormal(c)
        PROVE  LedgerInv(Maps)'
    BY <2>3, LedgerHandleNormal, Zenon
  <2>4. ASSUME NEW c \in Clients, HandleConfig(c)
        PROVE  LedgerInv(Maps)'
    BY <2>4, LedgerHandleConfig, Zenon
  <2>5. CASE TimerFires
    BY <2>5, LedgerTimerFires, Zenon
  <2>6. CASE UNCHANGED <<vars, config, ledger, timer, handler>>
    <3>1. UNCHANGED <<receiver, config, ledger, handler>>
      BY <2>6 DEF vars
    <3> QED BY <3>1, LedgerFacts, Zenon DEF LedgerInv
  <2> QED BY <2>2, <2>3, <2>4, <2>5, <2>6, SoloSteps, Zenon
<1> QED BY <1>1, <1>2, SoloInvariant, SoloMaps, SoloNothingLost, PTL DEF SoloSpec

-----------------------------------------------------------------------------
(* What follows for the run's properties.  They speak of the blocks of     *)
(* ledger by their index, LedgerOK of those of any chain.                  *)
LEMMA LedgerBlocks ==
  ASSUME NEW Maps, LedgerInv(Maps)
  PROVE  /\ ConfigBlocks = ConfigsOf(ledger)
         /\ \A i \in Blocks : ConfigBefore(i) = PrevConfig(ledger, i)
         /\ \A i \in Blocks \ {1} : BlockOK(ledger, i)
         /\ \A i \in ConfigBlocks : ledger[i].config \in Bundles(Maps)
         /\ 1 \in ConfigBlocks
<1>1. LedgerOK(ledger, config, Maps)
  BY DEF LedgerInv
<1>2. ledger \in Seq(ChainBlocks(Maps)) /\ DOMAIN ledger = 1 .. Len(ledger)
      /\ Len(ledger) \in Nat
  BY <1>1 DEF LedgerOK
<1>3. ConfigBlocks = ConfigsOf(ledger)
  BY DEF ConfigBlocks, Blocks, ConfigsOf
<1>4. \A i \in Blocks : ConfigBefore(i) = PrevConfig(ledger, i)
  BY <1>3 DEF ConfigBefore, PrevConfig
<1>5. \A i \in Blocks \ {1} : i \in 2 .. Len(ledger)
  BY <1>2 DEF Blocks
<1>6. \A i \in ConfigsOf(ledger) : ledger[i].config \in Bundles(Maps)
  <2>1. \A i \in DOMAIN ledger : ledger[i] \in ChainBlocks(Maps)
    BY <1>2
  <2>2. \A b \in ChainBlocks(Maps) : b.kind = "config" => b.config \in Bundles(Maps)
    BY DEF ChainBlocks
  <2> QED BY <2>1, <2>2 DEF ConfigsOf
<1> QED BY <1>1, <1>3, <1>4, <1>5, <1>6, Zenon DEF LedgerOK

(* A transaction in a block satisfies the configuration in force at that   *)
(* point of the chain: what Order admitted under an older sequence is      *)
(* filtered again, and a config message cuts what is pending first.        *)
THEOREM SoloOrderedUnderCurrentConfig ==
  ASSUME NEW CONSTANT Maps, ClosedUnderDrafts(Maps)
  PROVE  SoloSpec => []OrderedUnderCurrentConfig
<1>1. LedgerInv(Maps) => OrderedUnderCurrentConfig
  <2> SUFFICES ASSUME LedgerInv(Maps), NEW i \in Blocks \ ConfigBlocks,
                      NEW k \in DOMAIN ledger[i].txs
               PROVE  Admits(ConfigBefore(i).map, ledger[i].txs[k])
    BY Zenon DEF OrderedUnderCurrentConfig
  <2> DEFINE m == PrevConfig(ledger, i).map
             t == ledger[i].txs
  <2>1. /\ i \in Blocks \ {1} /\ BlockOK(ledger, i)
        /\ ConfigBefore(i).map = m /\ ledger[i].kind # "config"
    <3>1. 1 \in ConfigBlocks
      BY LedgerBlocks, Zenon
    <3> QED BY <3>1, LedgerBlocks DEF ConfigBlocks
  <2>2. t \in Seq(Admitted(m))
    BY <2>1 DEF BlockOK
  <2> HIDE DEF m, t
  <2>3. k \in DOMAIN t
    BY Zenon DEF t
  <2>4. t[k] \in Admitted(m)
    BY <2>2, <2>3
  <2> QED BY <2>1, <2>4 DEF Admitted, t
<1> QED BY <1>1, SoloLedger, PTL

(* Nothing in the configuration of the channel changes without the consent *)
(* its previous state asks for, though the update was authorized by a      *)
(* handler under what may have been another configuration.                 *)
THEOREM SoloChangesAuthorized ==
  ASSUME NEW CONSTANT Maps, ClosedUnderDrafts(Maps)
  PROVE  SoloSpec => []ChangesAuthorized
<1>1. LedgerInv(Maps) => ChangesAuthorized
  <2> SUFFICES ASSUME LedgerInv(Maps) PROVE ChangesAuthorized
    OBVIOUS
  <2>1. ASSUME NEW i \in ConfigBlocks \ {1},
               NEW old, old = ConfigBefore(i).map,
               NEW new, new = ledger[i].config.map,
               NEW u, u = ledger[i].config.lastUpdate
        PROVE  /\ \A p \in DOMAIN old \cap DOMAIN new :
                    old[p] # new[p] => May(old, u, p)
               /\ \A p \in (DOMAIN old \ DOMAIN new) \cup (DOMAIN new \ DOMAIN old) :
                    \E n \in 0 .. Len(p) - 1 : May(old, u, Above(p, n))
    <3>1. /\ BlockOK(ledger, i) /\ ledger[i].kind = "config"
          /\ old = PrevConfig(ledger, i).map
      BY <2>1, LedgerBlocks, Zenon DEF ConfigBlocks
    <3>2. /\ IsTree(old) /\ Authorized(old, u) /\ new = UpdatedMap(old, u)
          /\ \E j \in ConfigsOf(ledger) : u \in Drafts(ledger[j].config.map)
      BY <2>1, <3>1, Zenon DEF BlockOK, Validate
    <3>3. DOMAIN u.writeSet \subseteq Seq(STRING)
      <4>1. PICK j \in ConfigsOf(ledger) : u \in Drafts(ledger[j].config.map)
        BY <3>2
      <4>2. ledger[j].config.map \in Maps
        <5>1. ledger[j].config \in Bundles(Maps)
          BY LedgerBlocks
        <5> QED BY <5>1, BundleMap, Zenon
      <4> QED BY <4>1, <4>2, Zenon DEF Updates, ClosedUnderDrafts
    <3> QED BY <3>2, <3>3, UpdateIsAuthorized, Zenon
  <2> QED BY <2>1, Zenon DEF ChangesAuthorized, May, Above
<1> QED BY <1>1, SoloLedger, PTL

(* Clients that draft honestly: a read set repeats elements of the         *)
(* configuration the client read, each with the groups above it, as a      *)
(* ConfigGroup cannot hold an element without them.                        *)
HonestDrafts(Maps) ==
  \A m \in Maps : \A u \in Drafts(m) : \A p \in DOMAIN u.readSet :
    /\ p \in DOMAIN m
    /\ m[p].version = u.readSet[p].version
    /\ m[p].content = u.readSet[p].content
    /\ \A n \in 0 .. Len(p) - 1 : Above(p, n) \in DOMAIN u.readSet

(* An update takes effect only if all its author read still has the very   *)
(* content they saw: verifyReadSet compares versions only, and versions    *)
(* start again at 0 when an element is removed and added, but then the     *)
(* version of a group above it, which was read as well, has gone up.       *)
THEOREM SoloUpdatesSeeWhatTheyRead ==
  ASSUME NEW CONSTANT Maps, ClosedUnderDrafts(Maps), HonestDrafts(Maps)
  PROVE  SoloSpec => []UpdatesSeeWhatTheyRead
<1>1. LedgerInv(Maps) => UpdatesSeeWhatTheyRead
  <2> SUFFICES ASSUME LedgerInv(Maps), NEW i \in ConfigBlocks \ {1},
                      NEW p \in DOMAIN ledger[i].config.lastUpdate.readSet
               PROVE  ConfigBefore(i).map[p].content
                        = ledger[i].config.lastUpdate.readSet[p].content
    BY DEF UpdatesSeeWhatTheyRead
  <2> DEFINE old == PrevConfig(ledger, i).map
             u == ledger[i].config.lastUpdate
  <2>1. /\ BlockOK(ledger, i) /\ ledger[i].kind = "config"
        /\ ConfigBefore(i).map = old
    BY LedgerBlocks, Zenon DEF ConfigBlocks
  <2>2. PICK j \in ConfigsOf(ledger) : /\ u \in Drafts(ledger[j].config.map)
                                       /\ Vouches(ledger[j].config.map, old)
    BY <2>1, Zenon DEF BlockOK
  <2> DEFINE m == ledger[j].config.map
  <2>3. m \in Maps
    <3>1. ledger[j].config \in Bundles(Maps)
      BY LedgerBlocks
    <3> QED BY <3>1, BundleMap, Zenon DEF m
  <2>4. \A q \in DOMAIN u.readSet : /\ q \in DOMAIN old
                                    /\ old[q].version = u.readSet[q].version
    BY <2>1, Zenon DEF BlockOK, Validate, Authorized, verifyReadSet
  <2> HIDE DEF old, u, m
  <2>5. \A q \in DOMAIN u.readSet :
          /\ q \in DOMAIN m
          /\ m[q].version = u.readSet[q].version
          /\ m[q].content = u.readSet[q].content
          /\ \A n \in 0 .. Len(q) - 1 : Above(q, n) \in DOMAIN u.readSet
    BY <2>2, <2>3, Zenon DEF HonestDrafts, m
  <2>6. p \in DOMAIN u.readSet
    BY Zenon DEF u
  <2>7. SameAbove(m, old, p)
    BY <2>4, <2>5, <2>6 DEF SameAbove
  <2>8. m[p] = old[p]
    BY <2>2, <2>4, <2>5, <2>6, <2>7, Zenon DEF Vouches, m
  <2>9. old[p].content = u.readSet[p].content
    BY <2>5, <2>6, <2>8, Zenon
  <2> QED BY <2>1, <2>9, Zenon DEF u
<1> QED BY <1>1, SoloLedger, PTL

(* Under the solo consenter, too, the batches stay within the limits of    *)
(* the configuration in force and the running byte count is exact.         *)
THEOREM SoloBatchesBounded ==
  ASSUME NEW CONSTANT Maps, ClosedUnderDrafts(Maps)
  PROVE  SoloSpec => []BatchesBounded
BY SoloImplementsCutter, BlockCutterBounds, PTL DEF CutterContract
=============================================================================

------------------------- MODULE MinerLifecycleProofs -------------------------
(***************************************************************************)
(* What holds between two requests, for any number of handlers, mining loops  *)
(* and accounts: the payment monitor follows the configuration, and the       *)
(* status tells whether a mining loop runs.                                  *)
(***************************************************************************)
EXTENDS MinerLifecycle, TLAPS, FiniteSetTheorems

(* The steps of a call, and those of a goroutine. *)
CallStep(a) ==
  \/ BeginStart(a) \/ BeginStop(a) \/ BeginConfig(a)
  \/ StartStep(a) \/ StopStep(a) \/ ConfigStep(a)

LEMMA LifeCases ==
  ASSUME [LifeNext]_lifeVars
  PROVE  \/ \E a \in Actor : CallStep(a)
         \/ \E l \in Loop : LoopStep(l)
         \/ RetireTuner \/ UNCHANGED lifeVars
BY DEF LifeNext, CallStep

-----------------------------------------------------------------------------
(* Types, and that only the handlers of a configuration configure. *)

ConfigPlaces == {"stopped", "update", "update.monitor", "update.store"}

Roles ==
  \A a \in Actor \ Configurer : pc[a] \notin ConfigPlaces /\ back[a] = "idle"

LEMMA LifeInitTypes == LifeInit => LifeTypeOK
<1> SUFFICES ASSUME LifeInit PROVE LifeTypeOK
  OBVIOUS
<1>1. config.account \in Account \cup {None} /\ config \in Config
  BY DEF LifeInit, Config
<1>2. monitor \in [account : Account \cup {None}, of : {"none", "main", "own", "left"} \cup Configurer]
  BY <1>1 DEF LifeInit, NewMinerP2POnly, NewMiner, BareMiner, NoMonitor
<1>3. fetcher \in {"none", "open", "closed"} /\ tunerStop \in {"absent", "open", "closed"}
  BY DEF LifeInit, NewMinerP2POnly, NewMiner, BareMiner
<1>4. NoConfig \in Config
  BY DEF NoConfig, Config
<1> QED
  BY <1>1, <1>2, <1>3, <1>4 DEF LifeInit, LifeTypeOK

LEMMA LifeTypeStep ==
  ASSUME LifeTypeOK, Roles, [LifeNext]_lifeVars
  PROVE  LifeTypeOK'
<1> USE DEF LifeTypeOK, goroutines, tuners, args, calling, Go
<1>1. ASSUME NEW a \in Actor, BeginStart(a) \/ BeginStop(a)
      PROVE  LifeTypeOK'
  BY <1>1 DEF BeginStart, BeginStop
<1>2. ASSUME NEW a \in Actor, BeginConfig(a)
      PROVE  LifeTypeOK'
  <2>1. restart' \in [Actor -> BOOLEAN]
    <3>1. (status = "running") \in BOOLEAN
      OBVIOUS
    <3> QED
      BY <1>2, <3>1, Zenon DEF BeginConfig
  <2>2. order' \in {"tidy", "messy", "crossed"}
    BY <1>2 DEF BeginConfig
  <2> QED
    BY <1>2, <2>1, <2>2 DEF BeginConfig
<1>3. ASSUME NEW a \in Actor, StartStep(a)
      PROVE  LifeTypeOK'
  <2>1. CASE OpenStopChan(a)
    BY <2>1 DEF OpenStopChan
  <2>2. CASE Launch(a)
    <3>1. tuning' \in BOOLEAN
      BY <2>2, Zenon DEF Launch
    <3>2. \E l : loop' = [loop EXCEPT ![l] = "select"]
      BY <2>2 DEF Launch
    <3>3. loop' \in [Loop -> {"none", "select", "work"}]
      BY <3>2
    <3> QED
      BY <2>2, <3>1, <3>3 DEF Launch
  <2> QED
    BY <1>3, <2>1, <2>2 DEF StartStep
<1>4. NoConfig \in Config
  BY DEF NoConfig, Config
<1>5. ASSUME NEW a \in Actor, StopStep(a)
      PROVE  LifeTypeOK'
  <2>1. CASE CloseStopChan(a)
    BY <2>1 DEF CloseStopChan, LeaveLoops
  <2>2. CASE CloseFetcher(a) \/ AwaitLoops(a)
    BY <2>2 DEF CloseFetcher, AwaitLoops
  <2>3. CASE CloseFetcherTwice(a)
    BY <2>3, <1>4 DEF CloseFetcherTwice, Return
  <2>4. CASE SayStopped(a)
    BY <2>4 DEF SayStopped
  <2> QED
    BY <1>5, <2>1, <2>2, <2>3, <2>4 DEF StopStep
<1>6. ASSUME NEW a \in Actor, ConfigStep(a)
      PROVE  LifeTypeOK'
  <2>1. CASE SayStoppedAgain(a)
    BY <2>1 DEF SayStoppedAgain
  <2>2. CASE AcceptConfig(a)
    BY <2>2 DEF AcceptConfig
  <2>3. CASE RefuseConfig(a)
    BY <2>3, <1>4 DEF RefuseConfig, Return
  <2>4. CASE ReplaceMonitor(a)
    <3>1. a \in Configurer
      BY <2>4 DEF ReplaceMonitor, Roles, ConfigPlaces
    <3>2. PICK c \in Config, new \in BOOLEAN :
            /\ want' = [want EXCEPT ![a] = c]
            /\ monitor' = IF new THEN [account |-> c.account, of |-> IF c.mode = "p2p" THEN a ELSE "own"]
                          ELSE monitor
      BY <2>4 DEF ReplaceMonitor
    <3>3. c.account \in Account \cup {None}
      BY DEF Config
    <3>4. monitor' \in [account : Account \cup {None}, of : {"none", "main", "own", "left"} \cup Configurer]
      BY <3>1, <3>2, <3>3
    <3>5. want' \in [Actor -> Config]
      BY <3>2, <3>3
    <3> QED
      BY <2>4, <3>4, <3>5 DEF ReplaceMonitor
  <2>5. CASE StoreConfig(a)
    <3>1. want[a] \in Config /\ fetcher' \in {"none", "open", "closed"}
      BY <2>5 DEF StoreConfig
    <3>2. monitor' \in [account : Account \cup {None}, of : {"none", "main", "own", "left"} \cup Configurer]
      BY <2>5 DEF StoreConfig
    <3> QED
      BY <2>5, <1>4, <3>1, <3>2 DEF StoreConfig
  <2> QED
    BY <1>6, <2>1, <2>2, <2>3, <2>4, <2>5 DEF ConfigStep
<1>7. ASSUME NEW l \in Loop, LoopStep(l)
      PROVE  LifeTypeOK'
  BY <1>7 DEF LoopStep, BeginRound, EndRound, PanicInRound, LeaveLoops
<1>8. CASE RetireTuner
  BY <1>8 DEF RetireTuner
<1>9. CASE UNCHANGED lifeVars
  BY <1>9 DEF lifeVars
<1> QED
  BY <1>1, <1>2, <1>3, <1>5, <1>6, <1>7, <1>8, <1>9, LifeCases DEF CallStep

LEMMA RolesStep ==
  ASSUME LifeTypeOK, Roles, [LifeNext]_lifeVars
  PROVE  Roles'
<1> USE DEF LifeTypeOK, Roles, ConfigPlaces, goroutines, tuners, args, calling, Go
<1>1. ASSUME NEW a \in Actor, CallStep(a)
      PROVE  Roles'
  <2>1. CASE BeginStart(a) \/ BeginStop(a) \/ BeginConfig(a) \/ StartStep(a)
    BY <2>1 DEF BeginStart, BeginStop, BeginConfig, StartStep, OpenStopChan, Launch
  <2>2. CASE StopStep(a)
    BY <2>2 DEF StopStep, CloseStopChan, CloseFetcher, AwaitLoops, CloseFetcherTwice, Return, SayStopped
  <2>3. CASE ConfigStep(a)
    BY <2>3 DEF ConfigStep, SayStoppedAgain, RefuseConfig, Return, AcceptConfig, ReplaceMonitor, StoreConfig
  <2> QED
    BY <1>1, <2>1, <2>2, <2>3 DEF CallStep
<1>2. ASSUME NEW l \in Loop, LoopStep(l)
      PROVE  Roles'
  BY <1>2 DEF LoopStep, BeginRound, EndRound, PanicInRound
<1>3. CASE RetireTuner \/ UNCHANGED lifeVars
  BY <1>3 DEF RetireTuner, lifeVars
<1> QED
  BY <1>1, <1>2, <1>3, LifeCases

(* Every call, goroutine and setting is in one of its states; the monitor's client
   is one of those that there are, because only a configuration makes one. *)
THEOREM LifeTypeCorrect == LifeSpec => [](LifeTypeOK /\ Roles)
<1>1. LifeInit => LifeTypeOK /\ Roles
  BY LifeInitTypes DEF LifeInit, Roles, ConfigPlaces
<1> QED
  BY <1>1, LifeTypeStep, RolesStep, PTL DEF LifeSpec

-----------------------------------------------------------------------------
(* The monitor.  While a handler is between replacing it and storing what it
   replaced it for, the monitor is ahead of the configuration. *)

Settled ==
  /\ monitor.of # "none" => monitor.account = config.account
  /\ monitor.of \notin Configurer
  /\ monitor.of = "main" => config.mode = "p2p"

Ahead(a) ==
  /\ monitor.of # "none" => monitor.account = want[a].account
  /\ monitor.of \in Configurer => monitor.of = a /\ want[a].mode = "p2p"

Storing(a) == pc[a] = "update.store"

MonitorInv ==
  order # "crossed" =>
    /\ \A a, b \in Configurer : Configuring(a) /\ Configuring(b) => a = b
    /\ \A a \in Configurer : Storing(a) => Ahead(a)
    /\ (\A a \in Configurer : ~Storing(a)) => Settled

(* Once crossed, for ever. *)
LEMMA CrossedStays ==
  ASSUME [LifeNext]_lifeVars, order = "crossed"
  PROVE  order' = "crossed"
<1> USE DEF calling
<1>1. ASSUME NEW a \in Actor, CallStep(a)
      PROVE  order' = "crossed"
  <2>1. CASE BeginStart(a) \/ BeginStop(a) \/ BeginConfig(a)
    BY <2>1 DEF BeginStart, BeginStop, BeginConfig
  <2>2. CASE StartStep(a) \/ StopStep(a)
    BY <2>2 DEF StartStep, OpenStopChan, Launch, StopStep, CloseStopChan, CloseFetcher, AwaitLoops,
                CloseFetcherTwice, SayStopped
  <2>3. CASE ConfigStep(a)
    BY <2>3 DEF ConfigStep, SayStoppedAgain, RefuseConfig, AcceptConfig, ReplaceMonitor, StoreConfig
  <2> QED
    BY <1>1, <2>1, <2>2, <2>3 DEF CallStep
<1>2. ASSUME NEW l \in Loop, LoopStep(l)
      PROVE  order' = "crossed"
  BY <1>2 DEF LoopStep, BeginRound, EndRound, PanicInRound
<1>3. CASE RetireTuner \/ UNCHANGED lifeVars
  BY <1>3 DEF RetireTuner, lifeVars
<1> QED
  BY <1>1, <1>2, <1>3, LifeCases

(* Only the request itself begins a configuration. *)
LEMMA ConfiguringGoesOn ==
  ASSUME LifeTypeOK, Roles, NEW a \in Actor, CallStep(a), ~BeginConfig(a), NEW b \in Configurer,
         Configuring(b)'
  PROVE  Configuring(b)
<1> USE LifecycleAssumption DEF LifeTypeOK, Actor, Configuring, Stopping, Go, args
<1>1. CASE BeginStart(a) \/ BeginStop(a) \/ StartStep(a)
  BY <1>1 DEF BeginStart, BeginStop, StartStep, OpenStopChan, Launch
<1>2. CASE StopStep(a)
  <2>1. CASE CloseStopChan(a) \/ CloseFetcher(a) \/ AwaitLoops(a)
    BY <2>1 DEF CloseStopChan, CloseFetcher, AwaitLoops
  <2>2. CASE CloseFetcherTwice(a)
    BY <2>2 DEF CloseFetcherTwice, Return
  <2>3. CASE SayStopped(a)
    BY <2>3 DEF SayStopped
  <2> QED
    BY <1>2, <2>1, <2>2, <2>3 DEF StopStep
<1>3. CASE ConfigStep(a)
  <2>1. CASE SayStoppedAgain(a) \/ ReplaceMonitor(a)
    BY <2>1 DEF SayStoppedAgain, ReplaceMonitor
  <2>2. CASE RefuseConfig(a)
    BY <2>2 DEF RefuseConfig, Return
  <2>3. CASE AcceptConfig(a)
    BY <2>3 DEF AcceptConfig
  <2>4. CASE StoreConfig(a)
    BY <2>4 DEF StoreConfig
  <2> QED
    BY <1>3, <2>1, <2>2, <2>3, <2>4 DEF ConfigStep
<1> QED
  BY <1>1, <1>2, <1>3 DEF CallStep

(* A step that neither begins a configuration nor comes to or from its storing
   leaves the monitor as right as it was. *)
LEMMA MonitorLeftAlone ==
  ASSUME MonitorInv, UNCHANGED <<monitor, config>>, order' # "crossed" => order # "crossed",
         \A b \in Configurer : /\ Configuring(b)' => Configuring(b)
                               /\ Storing(b)' <=> Storing(b)
                               /\ Storing(b) => want'[b] = want[b]
  PROVE  MonitorInv'
<1> USE DEF Configuring, Stopping, Storing
<1> SUFFICES ASSUME order' # "crossed" PROVE MonitorInv'
  BY DEF MonitorInv
<1>1. \A a, b \in Configurer : Configuring(a)' /\ Configuring(b)' => a = b
  BY DEF MonitorInv
<1>2. ASSUME NEW b \in Configurer, Storing(b)'
      PROVE  Ahead(b)'
  BY <1>2 DEF MonitorInv, Ahead
<1>3. ASSUME \A b \in Configurer : ~Storing(b)'
      PROVE  Settled'
  BY <1>3 DEF MonitorInv, Settled
<1> QED
  BY <1>1, <1>2, <1>3 DEF MonitorInv

LEMMA MonitorStep ==
  ASSUME LifeTypeOK, Roles, MonitorInv, [LifeNext]_lifeVars
  PROVE  MonitorInv'
<1> USE LifecycleAssumption DEF LifeTypeOK, Go, goroutines, tuners, args, calling
<1>1. ASSUME NEW a \in Actor, BeginConfig(a)
      PROVE  MonitorInv'
  <2> SUFFICES ASSUME order' # "crossed" PROVE MonitorInv'
    BY DEF MonitorInv
  <2>1. order # "crossed" /\ \A b \in Configurer \ {a} : ~Configuring(b)
    BY <1>1 DEF BeginConfig
  <2>2. \A b \in Configurer : b # a => (Configuring(b)' <=> Configuring(b)) /\ (Storing(b)' <=> Storing(b))
    <3>1. \A b \in Configurer : b # a => pc'[b] = pc[b] /\ back'[b] = back[b]
      BY <1>1 DEF BeginConfig, Actor
    <3> QED
      BY <3>1 DEF Configuring, Stopping, Storing
  <2>3. ~Storing(a) /\ ~Storing(a)' /\ UNCHANGED <<monitor, config, want>>
    BY <1>1 DEF BeginConfig, Storing
  <2> QED
    BY <2>1, <2>2, <2>3 DEF MonitorInv, Settled, Ahead
<1>2. ASSUME NEW a \in Actor, ReplaceMonitor(a)
      PROVE  MonitorInv'
  <2> SUFFICES ASSUME order' # "crossed" PROVE MonitorInv'
    BY DEF MonitorInv
  <2>1. a \in Configurer /\ Configuring(a) /\ order # "crossed"
    BY <1>2 DEF ReplaceMonitor, Roles, ConfigPlaces, Configuring
  <2>2. \A b \in Configurer : Storing(b) => b = a
    BY <2>1 DEF MonitorInv, Configuring, Storing
  <2>3. Settled
    BY <1>2, <2>1, <2>2 DEF MonitorInv, ReplaceMonitor, Storing
  <2>4. PICK c \in Config, new \in BOOLEAN :
          /\ c.account # config.account => new
          /\ want' = [want EXCEPT ![a] = c]
          /\ monitor' = IF new THEN [account |-> c.account, of |-> IF c.mode = "p2p" THEN a ELSE "own"]
                        ELSE monitor
    BY <1>2 DEF ReplaceMonitor
  <2>5. want'[a] = c
    BY <2>4
  <2>6. Ahead(a)'
    BY <2>3, <2>4, <2>5 DEF Settled, Ahead
  <2>7. \A b \in Configurer : (Configuring(b)' => Configuring(b)) /\ (Storing(b)' => b = a)
    <3>1. CallStep(a) /\ ~BeginConfig(a)
      BY <1>2 DEF CallStep, ConfigStep, ReplaceMonitor, BeginConfig
    <3>2. \A b \in Configurer : Storing(b)' => b = a
      BY <1>2, <2>2 DEF ReplaceMonitor, Storing
    <3> QED
      BY <3>1, <3>2, ConfiguringGoesOn
  <2>8. Storing(a)'
    BY <1>2 DEF ReplaceMonitor, Storing
  <2> QED
    BY <2>1, <2>6, <2>7, <2>8 DEF MonitorInv
<1>3. ASSUME NEW a \in Actor, StoreConfig(a)
      PROVE  MonitorInv'
  <2> SUFFICES ASSUME order' # "crossed" PROVE MonitorInv'
    BY DEF MonitorInv
  <2>1. a \in Configurer /\ Storing(a) /\ order # "crossed"
    BY <1>3 DEF StoreConfig, Roles, ConfigPlaces, Storing
  <2>2. Ahead(a)
    BY <2>1 DEF MonitorInv
  <2>3. \A b \in Configurer : Storing(b) => b = a
    BY <2>1 DEF MonitorInv, Configuring, Storing
  <2>4. \A b \in Configurer : ~Storing(b)'
    BY <1>3, <2>1, <2>3 DEF StoreConfig, Storing, Actor
  <2>5. config' = want[a]
    BY <1>3 DEF StoreConfig
  <2>6. Settled'
    <3>1. CASE monitor.of = a
      <4>1. monitor' = [monitor EXCEPT !.of = "main"]
        BY <1>3, <2>1, <3>1 DEF StoreConfig
      <4> QED
        BY <2>1, <2>2, <2>5, <3>1, <4>1 DEF Settled, Ahead
    <3>2. CASE monitor.of = "main"
      <4>1. monitor' = [monitor EXCEPT !.of = "left"]
        BY <1>3, <2>1, <3>2 DEF StoreConfig
      <4> QED
        BY <2>2, <2>5, <3>2, <4>1 DEF Settled, Ahead
    <3>3. CASE monitor.of # a /\ monitor.of # "main"
      <4>1. monitor' = monitor
        BY <1>3, <3>3 DEF StoreConfig
      <4> QED
        BY <2>2, <2>5, <3>3, <4>1 DEF Settled, Ahead
    <3> QED
      BY <3>1, <3>2, <3>3
  <2>7. \A b \in Configurer : Configuring(b)' => Configuring(b)
    <3>1. CallStep(a) /\ ~BeginConfig(a)
      BY <1>3 DEF CallStep, ConfigStep, StoreConfig, BeginConfig
    <3> QED
      BY <3>1, ConfiguringGoesOn
  <2> QED
    BY <2>1, <2>4, <2>6, <2>7 DEF MonitorInv
<1>4. ASSUME NEW a \in Actor, CallStep(a), ~BeginConfig(a), ~ReplaceMonitor(a), ~StoreConfig(a)
      PROVE  MonitorInv'
  <2>1. /\ UNCHANGED <<monitor, config>>
        /\ \A b \in Configurer : /\ Storing(b)' <=> Storing(b)
                                 /\ Storing(b) => want'[b] = want[b]
    <3> USE DEF Storing, Actor
    <3>1. CASE BeginStart(a) \/ BeginStop(a) \/ StartStep(a)
      BY <3>1 DEF BeginStart, BeginStop, StartStep, OpenStopChan, Launch
    <3>2. CASE StopStep(a)
      <4>1. CASE CloseStopChan(a) \/ CloseFetcher(a) \/ AwaitLoops(a)
        BY <4>1 DEF CloseStopChan, CloseFetcher, AwaitLoops
      <4>2. CASE CloseFetcherTwice(a)
        BY <4>2 DEF CloseFetcherTwice, Return
      <4>3. CASE SayStopped(a)
        BY <4>3 DEF SayStopped
      <4> QED
        BY <3>2, <4>1, <4>2, <4>3 DEF StopStep
    <3>3. CASE SayStoppedAgain(a)
      BY <3>3 DEF SayStoppedAgain
    <3>4. CASE RefuseConfig(a)
      BY <3>4 DEF RefuseConfig, Return
    <3>5. CASE AcceptConfig(a)
      BY <3>5 DEF AcceptConfig
    <3> QED
      BY <1>4, <3>1, <3>2, <3>3, <3>4, <3>5 DEF CallStep, ConfigStep
  <2>2. \A b \in Configurer : Configuring(b)' => Configuring(b)
    BY <1>4, ConfiguringGoesOn
  <2> QED
    BY <2>1, <2>2, CrossedStays, MonitorLeftAlone, Zenon
<1>5. CASE (\E l \in Loop : LoopStep(l)) \/ RetireTuner \/ UNCHANGED lifeVars
  <2>1. UNCHANGED <<monitor, config, pc, back, want, order>>
    BY <1>5 DEF LoopStep, BeginRound, EndRound, PanicInRound, RetireTuner, lifeVars
  <2> QED
    BY <2>1 DEF MonitorInv, Settled, Ahead, Storing, Configuring, Stopping
<1> QED
  BY <1>1, <1>2, <1>3, <1>4, <1>5, LifeCases

(* Between two requests the payment monitor watches the configured network and
   address, whatever handlers did between them, unless two configurations were
   saved at once; and it never reads a client that was made and not stored. *)
THEOREM MonitorAlwaysFollows == LifeSpec => []MonitorFollows
<1>1. ASSUME LifeInit PROVE MonitorInv
  <2>1. \A a \in Configurer : ~Configuring(a) /\ ~Storing(a)
    BY <1>1 DEF LifeInit, Configuring, Stopping, Storing, Actor
  <2>2. Settled
    BY <1>1, LifecycleAssumption DEF LifeInit, NewMinerP2POnly, NewMiner, BareMiner, NoMonitor, Settled
  <2> QED
    BY <2>1, <2>2 DEF MonitorInv
<1>2. MonitorInv => MonitorFollows
  BY DEF MonitorInv, MonitorFollows, Settled, AllIdle, Storing, Actor
<1> QED
  BY <1>1, <1>2, LifeTypeCorrect, MonitorStep, PTL DEF LifeSpec

-----------------------------------------------------------------------------
(* The status, while it is tidy: one call at a time, and what that call has
   taken apart or not put together yet. *)

Solo == \A a, b \in Actor : pc[a] # "idle" /\ pc[b] # "idle" => a = b
OneLoop == \A l, m \in Alive : l = m
Truth == status = "running" <=> Alive # {}
Taking(a) == pc[a] \in {"stop.rest", "stop.wait"}

StatusInv ==
  order = "tidy" =>
    /\ Solo /\ OneLoop
    /\ (\A a \in Actor : ~Starting(a) /\ ~Taking(a) /\ pc[a] # "stop.status") => Truth
    /\ \A a \in Actor : Starting(a) => Alive = {} /\ Loop # {}
    /\ \A a \in Actor : pc[a] = "start.launch" => stopChan = "open"
    /\ \A a \in Actor : pc[a] \in {"stop.status", "stopped"} => Alive = {}
    /\ stopChan = "closed" /\ (\A a \in Actor : ~Taking(a)) => Alive = {}

LEMMA StatusInit == LifeInit => StatusInv
<1> SUFFICES ASSUME LifeInit PROVE StatusInv
  OBVIOUS
<1>1. Alive = {} /\ status = "stopped" /\ \A a \in Actor : pc[a] = "idle"
  BY DEF LifeInit, Alive
<1> QED
  BY <1>1 DEF StatusInv, Solo, OneLoop, Truth, Starting, Taking

(* Who begins a call finds the miner tidy behind it only if nobody else is in one. *)
LEMMA StatusBegin ==
  ASSUME LifeTypeOK, Roles, StatusInv, NEW a \in Actor, BeginStart(a) \/ BeginStop(a) \/ BeginConfig(a)
  PROVE  StatusInv'
<1> USE DEF LifeTypeOK, Go, Alive, goroutines, tuners
<1> SUFFICES ASSUME order' = "tidy" PROVE StatusInv'
  BY DEF StatusInv
<1>1. UNCHANGED <<status, stopChan, loop>> /\ order = "tidy"
  BY DEF BeginStart, BeginStop, BeginConfig
<1>2. \/ BeginStart(a) /\ config.account = None /\ pc' = [pc EXCEPT ![a] = "idle"]
      \/ BeginStart(a) /\ Alone(a) /\ Alive = {} /\ pc' = [pc EXCEPT ![a] = "start.open"]
      \/ Alone(a) /\ \E q \in {"stop.close", "update"} : pc' = [pc EXCEPT ![a] = q]
  BY <1>1 DEF BeginStart, BeginStop, BeginConfig
<1>3. pc[a] \in {"idle", "restart"}
  BY DEF BeginStart, BeginStop, BeginConfig
<1>4. CASE pc' = [pc EXCEPT ![a] = "idle"]
  <2>1. \A b \in Actor : pc'[b] = pc[b] \/ (b = a /\ pc'[b] = "idle")
    BY <1>4
  <2> QED
    BY <1>1, <1>3, <2>1 DEF StatusInv, Solo, OneLoop, Truth, Starting, Taking
<1>5. ASSUME Alone(a), NEW q \in {"stop.close", "update"}, pc' = [pc EXCEPT ![a] = q]
      PROVE  StatusInv'
  <2>1. \A b \in Actor : IF b = a THEN pc'[b] = q ELSE pc[b] = "idle" /\ pc'[b] = "idle"
    BY <1>5 DEF Alone
  <2>2. Truth /\ OneLoop /\ (stopChan = "closed" => Alive = {})
    BY <1>1, <1>3, <2>1 DEF StatusInv, Starting, Taking
  <2> QED
    BY <1>1, <2>1, <2>2 DEF StatusInv, Solo, OneLoop, Truth, Starting, Taking
<1>6. ASSUME BeginStart(a), Alone(a), Alive = {}, pc' = [pc EXCEPT ![a] = "start.open"]
      PROVE  StatusInv'
  <2>1. \A b \in Actor : IF b = a THEN pc'[b] = "start.open" ELSE pc[b] = "idle" /\ pc'[b] = "idle"
    BY <1>6 DEF Alone
  <2>2. Loop # {}
    <3>1. {b \in Actor : Starting(b)} = {}
      BY <1>3, <2>1 DEF Starting
    <3>2. Cardinality(Alive) + Cardinality({b \in Actor : Starting(b)}) < Cardinality(Loop)
      BY <1>6 DEF BeginStart, HasRoom
    <3>3. 0 < Cardinality(Loop)
      BY <1>6, <3>1, <3>2, FS_EmptySet
    <3>4. Cardinality({}) = 0
      BY FS_EmptySet
    <3> QED
      BY <3>3, <3>4
  <2> QED
    BY <1>1, <1>6, <2>1, <2>2 DEF StatusInv, Solo, OneLoop, Truth, Starting, Taking
<1> QED
  BY <1>2, <1>4, <1>5, <1>6

LEMMA StatusStart ==
  ASSUME LifeTypeOK, Roles, StatusInv, NEW a \in Actor, StartStep(a)
  PROVE  StatusInv'
<1> USE DEF LifeTypeOK, Go, goroutines, tuners
<1> SUFFICES ASSUME order' = "tidy" PROVE StatusInv'
  BY DEF StatusInv
<1>1. order = "tidy" /\ pc[a] \in {"start.open", "start.launch"}
  BY DEF StartStep, OpenStopChan, Launch
<1>2. Alive = {} /\ Loop # {} /\ \A b \in Actor : b # a => pc[b] = "idle"
  BY <1>1 DEF StatusInv, Starting, Solo
<1>3. CASE OpenStopChan(a)
  <2>1. Alive' = {} /\ stopChan' = "open"
    BY <1>2, <1>3 DEF OpenStopChan, Alive
  <2>2. \A b \in Actor : IF b = a THEN pc'[b] = "start.launch" ELSE pc'[b] = "idle"
    BY <1>2, <1>3 DEF OpenStopChan
  <2> QED
    BY <1>2, <2>1, <2>2 DEF StatusInv, Solo, OneLoop, Starting, Taking
<1>4. CASE Launch(a)
  <2> DEFINE l == CHOOSE l \in Loop \ Alive : TRUE
  <2>1. l \in Loop
    BY <1>2
  <2>2. loop' = [loop EXCEPT ![l] = "select"] /\ status' = "running" /\ stopChan' = stopChan
    BY <1>4 DEF Launch
  <2> HIDE DEF l
  <2>3. Alive' = {l}
    BY <1>2, <2>1, <2>2 DEF Alive
  <2>4. stopChan = "open"
    BY <1>1, <1>4 DEF StatusInv, Launch
  <2>5. \A b \in Actor : pc'[b] = "idle"
    BY <1>2, <1>4 DEF Launch
  <2> QED
    BY <2>2, <2>3, <2>4, <2>5 DEF StatusInv, Solo, OneLoop, Truth, Starting
<1> QED
  BY <1>3, <1>4 DEF StartStep

LEMMA StatusStop ==
  ASSUME LifeTypeOK, Roles, StatusInv, NEW a \in Actor, StopStep(a)
  PROVE  StatusInv'
<1> USE DEF LifeTypeOK, Go, goroutines, tuners, args
<1> SUFFICES ASSUME order' = "tidy" PROVE StatusInv'
  BY DEF StatusInv
<1>1. CASE SayStopped(a)
  <2>1. Alive' = Alive /\ status' = "stopped"
    BY <1>1 DEF SayStopped, Alive
  <2>2. Alive = {} /\ \A b \in Actor : b # a => pc[b] = "idle"
    BY <1>1 DEF SayStopped, StatusInv, Solo, Alone
  <2>3. \A b \in Actor : IF b = a THEN pc'[b] \in {"idle", "stopped", "update.monitor"} ELSE pc'[b] = "idle"
    BY <1>1, <2>2 DEF SayStopped
  <2> QED
    BY <2>1, <2>2, <2>3 DEF StatusInv, Solo, OneLoop, Truth, Starting, Taking
<1>2. CASE ~SayStopped(a)
  <2>1. order = "tidy" /\ pc[a] \in {"stop.close", "stop.rest", "stop.wait"}
    BY <1>2 DEF StopStep, CloseStopChan, CloseFetcher, CloseFetcherTwice, AwaitLoops
  <2>2. OneLoop /\ \A b \in Actor : b # a => pc[b] = "idle"
    BY <2>1 DEF StatusInv, Solo
  <2>3. CASE CloseStopChan(a)
    <3>1. Alive' \subseteq Alive
      BY <2>3 DEF CloseStopChan, LeaveLoops, Alive
    <3>2. \A b \in Actor : IF b = a THEN pc'[b] = "stop.rest" ELSE pc'[b] = "idle"
      BY <2>2, <2>3 DEF CloseStopChan
    <3> QED
      BY <2>2, <3>1, <3>2 DEF StatusInv, Solo, OneLoop, Starting, Taking
  <2>4. CASE CloseFetcher(a)
    <3>1. Alive' = Alive
      BY <2>4 DEF CloseFetcher, Alive
    <3>2. \A b \in Actor : IF b = a THEN pc'[b] = "stop.wait" ELSE pc'[b] = "idle"
      BY <2>2, <2>4 DEF CloseFetcher
    <3> QED
      BY <2>2, <3>1, <3>2 DEF StatusInv, Solo, OneLoop, Starting, Taking
  <2>5. CASE AwaitLoops(a)
    <3>1. Alive' = {}
      BY <2>5 DEF AwaitLoops, Alive
    <3>2. \A b \in Actor : IF b = a THEN pc'[b] = "stop.status" ELSE pc'[b] = "idle"
      BY <2>2, <2>5 DEF AwaitLoops
    <3> QED
      BY <3>1, <3>2 DEF StatusInv, Solo, OneLoop, Starting, Taking
  <2>6. CASE CloseFetcherTwice(a)
    BY <2>1, <2>6 DEF CloseFetcherTwice
  <2> QED
    BY <1>2, <2>3, <2>4, <2>5, <2>6 DEF StopStep
<1> QED
  BY <1>1, <1>2

LEMMA StatusConfig ==
  ASSUME LifeTypeOK, Roles, StatusInv, NEW a \in Actor, ConfigStep(a)
  PROVE  StatusInv'
<1> USE DEF LifeTypeOK, Go, goroutines, tuners, args
<1> SUFFICES ASSUME order' = "tidy" PROVE StatusInv'
  BY DEF StatusInv
<1>1. order = "tidy" /\ UNCHANGED <<stopChan, loop>> /\ pc[a] \in ConfigPlaces
  BY DEF ConfigStep, SayStoppedAgain, RefuseConfig, AcceptConfig, ReplaceMonitor, StoreConfig, ConfigPlaces
<1>2. Alive' = Alive
  BY <1>1 DEF Alive
<1>3. /\ OneLoop /\ Truth /\ (stopChan = "closed" => Alive = {})
      /\ \A b \in Actor : b # a => pc[b] = "idle"
  <2>1. \A b \in Actor : b # a => pc[b] = "idle"
    BY <1>1 DEF StatusInv, Solo, ConfigPlaces
  <2>2. \A b \in Actor : ~Starting(b) /\ ~Taking(b) /\ pc[b] # "stop.status"
    BY <1>1, <2>1 DEF Starting, Taking, ConfigPlaces
  <2> QED
    BY <1>1, <2>1, <2>2 DEF StatusInv
<1>4. status' = status \/ (status' = "stopped" /\ Alive = {})
  BY <1>1 DEF ConfigStep, SayStoppedAgain, RefuseConfig, AcceptConfig, ReplaceMonitor, StoreConfig, StatusInv
<1>5. Truth'
  BY <1>2, <1>3, <1>4 DEF Truth
<1>6. \E c \in Actor : \A b \in Actor :
        IF b = c THEN pc'[b] \in {"idle", "restart", "stop.close", "update", "update.monitor", "update.store"}
        ELSE pc'[b] = "idle"
  <2>1. CASE StoreConfig(a)
    <3>1. Restarter \in Actor
      BY DEF Actor
    <3> QED
      BY <1>3, <2>1, <3>1 DEF StoreConfig
  <2>2. CASE RefuseConfig(a)
    BY <1>3, <2>2 DEF RefuseConfig, Return
  <2>3. CASE SayStoppedAgain(a) \/ AcceptConfig(a) \/ ReplaceMonitor(a)
    BY <1>3, <2>3 DEF SayStoppedAgain, AcceptConfig, ReplaceMonitor
  <2> QED
    BY <2>1, <2>2, <2>3 DEF ConfigStep
<1> QED
  BY <1>1, <1>2, <1>3, <1>5, <1>6 DEF StatusInv, Solo, OneLoop, Starting, Taking

LEMMA StatusLoops ==
  ASSUME LifeTypeOK, StatusInv, NEW l \in Loop, LoopStep(l)
  PROVE  StatusInv'
<1> USE DEF LifeTypeOK, calling
<1> SUFFICES ASSUME order' = "tidy" PROVE StatusInv'
  BY DEF StatusInv
<1>1. order = "tidy" /\ UNCHANGED <<pc, stopChan>> /\ l \in Alive
  BY DEF LoopStep, BeginRound, EndRound, PanicInRound, Alive
<1>2. Alive' = Alive \/ Alive' = Alive \ {l}
  BY DEF LoopStep, BeginRound, EndRound, PanicInRound, LeaveLoops, Alive
<1>3. Alive' = Alive \/ Alive' = {}
  BY <1>1, <1>2 DEF StatusInv, OneLoop
<1>4. CASE BeginRound(l) \/ EndRound(l)
  <2>1. status' = status /\ (Alive' = Alive \/ stopChan = "closed")
    BY <1>4 DEF BeginRound, EndRound, Alive
  <2>2. Alive' = Alive \/ \E a \in Actor : Taking(a)
    BY <1>1, <2>1 DEF StatusInv
  <2> QED
    BY <1>1, <1>3, <2>1, <2>2 DEF StatusInv, Solo, OneLoop, Truth, Starting, Taking
<1>5. CASE PanicInRound(l)
  <2>1. status' = "error" /\ l \notin Alive'
    BY <1>5 DEF PanicInRound, LeaveLoops, Alive
  <2>2. Alive' = {}
    BY <1>1, <1>3, <2>1
  <2>3. Truth'
    BY <2>1, <2>2 DEF Truth
  <2> QED
    BY <1>1, <2>2, <2>3 DEF StatusInv, Solo, OneLoop, Starting, Taking
<1> QED
  BY <1>4, <1>5 DEF LoopStep

LEMMA StatusStep ==
  ASSUME LifeTypeOK, Roles, StatusInv, [LifeNext]_lifeVars
  PROVE  StatusInv'
<1>1. CASE RetireTuner \/ UNCHANGED lifeVars
  <2>1. UNCHANGED <<status, stopChan, loop, pc, order>>
    BY <1>1 DEF RetireTuner, lifeVars, goroutines, calling
  <2> QED
    BY <2>1 DEF StatusInv, Solo, OneLoop, Truth, Starting, Taking, Alive
<1> QED
  BY <1>1, LifeCases, StatusBegin, StatusStart, StatusStop, StatusConfig, StatusLoops DEF CallStep

(* Between two requests the miner says that it runs exactly when one mining loop
   runs, unless requests overlapped, a Start met a running loop or a Stop broke off
   and no Stop has cleared up since: whatever is asked of it in turn, and whenever
   a round panics. *)
THEOREM StatusIsAlwaysTrue == LifeSpec => []StatusIsTrue
<1>1. ASSUME StatusInv PROVE StatusIsTrue
  <2> SUFFICES ASSUME AllIdle, order = "tidy"
               PROVE  Cardinality(Alive) <= 1 /\ Truth
    BY DEF StatusIsTrue, Truth
  <2>1. OneLoop /\ Truth
    BY <1>1 DEF StatusInv, AllIdle, Starting, Taking
  <2>2. Cardinality(Alive) <= 1
    <3>1. CASE Alive = {}
      BY <3>1, FS_EmptySet
    <3>2. ASSUME NEW l \in Alive
          PROVE  Cardinality(Alive) <= 1
      <4>1. Alive = {l}
        BY <2>1 DEF OneLoop
      <4> QED
        BY <4>1, FS_Singleton
    <3> QED
      BY <3>1, <3>2
  <2> QED
    BY <2>1, <2>2
<1> QED
  BY <1>1, StatusInit, LifeTypeCorrect, StatusStep, PTL DEF LifeSpec
=============================================================================

--------------------------- MODULE MinerLifecycle ---------------------------
(***************************************************************************)
(* Starting, stopping and configuring the miner (main.go): the handlers of   *)
(* the web interface and the restart that a configuration leaves behind run  *)
(* Start, Stop and UpdateConfig at the same time, with no lock but those of  *)
(* single fields, around the mining loop, the RPC header fetcher, the        *)
(* optimizer and the payment monitor.                                       *)
(*                                                                          *)
(* What the mining loop does in a round, and what Stop's Disconnect does to  *)
(* it, are MiningLoop's and PeerNetwork's; a round here ends by itself, with *)
(* or without a panic.  The settings that are not shown are data.            *)
(***************************************************************************)
EXTENDS Integers, FiniteSets

CONSTANTS
  Button,      \* goroutines that handle requests to start or stop (bound)
  Configurer,  \* goroutines that handle requests to configure (bound)
  Restarter,   \* the goroutine that starts the miner after a configuration
  Account,     \* network and payout address, as one value; None without an address
  Loop,        \* mining loops alive at a time (bound)
  None

Actor == Button \cup Configurer \cup {Restarter}

ASSUME LifecycleAssumption ==
  /\ Button \cap Configurer = {} /\ Restarter \notin Button \cup Configurer
  /\ None \notin Account \cup Actor
  /\ Configurer \cap {"none", "main", "own", "left"} = {}

VARIABLES
  status,    \* stats.Status
  stopChan,  \* the channel in m.stopChan: open or closed
  config,    \* mode and account
  monitor,   \* the payment monitor: its account and whose client it reads
  fetcher,   \* the header fetcher: none, or its stop channel
  loop,      \* the mining loops
  tunerStop, \* the optimizer's stop channel, which is made once
  tuning,    \* goroutines of the optimizer may change the settings
  pc,        \* where each call is
  back,      \* where its Stop goes on
  want,      \* the configuration it applies ...
  restart,   \* ... and whether the miner ran before
  order      \* history: "tidy" while, since a Stop ended with no other call under
             \* way and no loop, no two calls have overlapped, no Start met a
             \* running loop and no Stop broke off; "crossed" for ever once two
             \* configurations overlapped

tuners == <<tunerStop, tuning>>
goroutines == <<fetcher, loop, tuners>>
args == <<back, want, restart>>
lifeVars == <<status, stopChan, config, monitor, goroutines, pc, args, order>>

Config == [mode : {"p2p", "rpc"}, account : Account \cup {None}]
NoConfig == [mode |-> "p2p", account |-> None]

Alive == {l \in Loop : loop[l] # "none"}
AllIdle == \A a \in Actor : pc[a] = "idle"
Alone(a) == \A b \in Actor \ {a} : pc[b] = "idle"
Starting(a) == pc[a] \in {"start.open", "start.launch"}
Stopping(a) == pc[a] \in {"stop.close", "stop.rest", "stop.wait", "stop.status"}
Configuring(a) ==
  \/ pc[a] \in {"stopped", "update", "update.monitor", "update.store"}
  \/ Stopping(a) /\ back[a] # "idle"

Go(a, next) == pc' = [pc EXCEPT ![a] = next]

(* The call is over, and its arguments are forgotten. *)
Return(a) ==
  /\ Go(a, "idle") /\ back' = [back EXCEPT ![a] = "idle"]
  /\ want' = [want EXCEPT ![a] = NoConfig] /\ restart' = [restart EXCEPT ![a] = FALSE]

NoMonitor == [account |-> None, of |-> "none"]

(* A miner whose configuration is in P2P mode ... *)
NewMinerP2POnly ==
  /\ config.mode = "p2p" /\ fetcher = "none" /\ tunerStop = "open"
  /\ monitor = [account |-> config.account, of |-> "main"]

(* ... whose configured node answers ... *)
NewMiner ==
  /\ config.mode = "rpc" /\ fetcher = "open" /\ tunerStop = "open"
  /\ monitor = [account |-> config.account, of |-> "own"]

(* ... or, on a first run or if the node does not answer, one in P2P mode that has
   no client, no monitor and no optimizer. *)
BareMiner ==
  /\ config.mode = "p2p" /\ fetcher = "none" /\ tunerStop = "absent"
  /\ monitor = NoMonitor

LifeInit ==
  /\ config \in Config
  /\ NewMinerP2POnly \/ NewMiner \/ BareMiner
  /\ status = "stopped" /\ stopChan = "open"
  /\ loop = [l \in Loop |-> "none"] /\ tuning = FALSE
  /\ pc = [a \in Actor |-> "idle"] /\ back = [a \in Actor |-> "idle"]
  /\ want = [a \in Actor |-> NoConfig] /\ restart = [a \in Actor |-> FALSE]
  /\ order = "tidy"

-----------------------------------------------------------------------------
(* Start.  It does not ask whether the miner runs; without a payout address it
   refuses.  The bound leaves room for the loop it will start. *)
HasRoom == Cardinality(Alive) + Cardinality({a \in Actor : Starting(a)}) < Cardinality(Loop)

BeginStart(a) ==
  /\ a \notin Configurer /\ pc[a] = (IF a = Restarter THEN "restart" ELSE "idle")
  /\ HasRoom
  /\ IF config.account = None THEN Go(a, "idle") /\ UNCHANGED <<fetcher, order>>
     ELSE /\ Go(a, "start.open")
          /\ fetcher' = IF config.mode = "p2p" THEN "none" ELSE fetcher
          /\ order' = (IF order = "tidy" /\ (Alive # {} \/ ~Alone(a)) THEN "messy" ELSE order)
  /\ UNCHANGED <<status, stopChan, config, monitor, loop, tuners, args>>

OpenStopChan(a) ==
  /\ pc[a] = "start.open" /\ Go(a, "start.launch")
  /\ stopChan' = "open"
  /\ UNCHANGED <<status, config, monitor, goroutines, args, order>>

(* The optimizer's goroutine looks at the machine, waits two seconds and then for
   its stop channel, which is closed for good by the first Stop, or for its
   ticker, behind which it changes ThreadCount, MaxHashes and intensity. *)
Launch(a) ==
  /\ pc[a] = "start.launch" /\ Go(a, "idle")
  /\ status' = "running"
  /\ tuning' = (tuning \/ tunerStop = "open")
  /\ LET l == CHOOSE l \in Loop \ Alive : TRUE IN loop' = [loop EXCEPT ![l] = "select"]
  /\ UNCHANGED <<stopChan, config, monitor, fetcher, tunerStop, args, order>>

-----------------------------------------------------------------------------
(* Stop, behind which its caller goes on at back[a].  Its Disconnect is
   PeerNetwork's Yank. *)
BeginStop(a) ==
  /\ a \in Button /\ pc[a] = "idle" /\ Go(a, "stop.close")
  /\ order' = (IF order = "tidy" /\ ~Alone(a) THEN "messy" ELSE order)
  /\ UNCHANGED <<status, stopChan, config, monitor, goroutines, args>>

LeaveLoops(L) == loop' = [l \in Loop |-> IF l \in L THEN "none" ELSE loop[l]]

(* A mining loop that waits on the channel leaves. *)
CloseStopChan(a) ==
  /\ pc[a] = "stop.close" /\ Go(a, "stop.rest")
  /\ stopChan' = "closed"
  /\ IF stopChan = "open" THEN LeaveLoops({l \in Loop : loop[l] = "select"}) ELSE UNCHANGED loop
  /\ UNCHANGED <<status, config, monitor, fetcher, tuners, args, order>>

(* Mutant of CloseFetcher: the optimizer is not stopped. *)
CloseFetcherOnly(a) ==
  /\ pc[a] = "stop.rest" /\ fetcher # "closed" /\ Go(a, "stop.wait")
  /\ fetcher' = IF fetcher = "open" THEN "closed" ELSE fetcher
  /\ UNCHANGED <<status, stopChan, config, monitor, loop, tuners, args, order>>

(* The fetcher's channel is made with it and closed without a question: a second
   close panics, net/http drops the request, and the rest of Stop with it.  The
   fetch loops, which it waits for, leave within a poll.  The optimizer's channel
   is closed once and for all. *)
CloseFetcher(a) ==
  /\ pc[a] = "stop.rest" /\ fetcher # "closed" /\ Go(a, "stop.wait")
  /\ fetcher' = IF fetcher = "open" THEN "closed" ELSE fetcher
  /\ tunerStop' = IF tunerStop = "open" THEN "closed" ELSE tunerStop
  /\ UNCHANGED <<status, stopChan, config, monitor, loop, tuning, args, order>>

CloseFetcherTwice(a) ==
  /\ pc[a] = "stop.rest" /\ fetcher = "closed" /\ Return(a)
  /\ order' = (IF order = "tidy" THEN "messy" ELSE order)
  /\ UNCHANGED <<status, stopChan, config, monitor, goroutines>>

(* Once no mining loop is left the channel is made anew. *)
AwaitLoops(a) ==
  /\ pc[a] = "stop.wait" /\ Alive = {} /\ Go(a, "stop.status")
  /\ stopChan' = "open"
  /\ UNCHANGED <<status, config, monitor, goroutines, args, order>>

SayStopped(a) ==
  /\ pc[a] = "stop.status" /\ Go(a, back[a])
  /\ status' = "stopped"
  /\ order' = (IF order = "messy" /\ Alone(a) /\ Alive = {} THEN "tidy" ELSE order)
  /\ UNCHANGED <<stopChan, config, monitor, goroutines, args>>

-----------------------------------------------------------------------------
(* POST /api/config stops a miner that runs ... *)
BeginConfig(a) ==
  /\ a \in Configurer /\ pc[a] = "idle"
  /\ restart' = [restart EXCEPT ![a] = status = "running"]
  /\ back' = [back EXCEPT ![a] = "stopped"]
  /\ IF status = "running" THEN Go(a, "stop.close") ELSE Go(a, "update")
  /\ order' = IF \E b \in Configurer \ {a} : Configuring(b) THEN "crossed"
              ELSE IF order = "tidy" /\ ~Alone(a) THEN "messy" ELSE order
  /\ UNCHANGED <<status, stopChan, config, monitor, goroutines, want>>

(* ... says so once more, a moment after Stop did ... *)
SayStoppedAgain(a) ==
  /\ pc[a] = "stopped" /\ Go(a, "update")
  /\ status' = "stopped"
  /\ UNCHANGED <<stopChan, config, monitor, goroutines, args, order>>

(* ... refuses one without a payout address, or whose node does not answer,
   and does not start the miner again ... *)
RefuseConfig(a) ==
  /\ pc[a] = "update" /\ Return(a)
  /\ UNCHANGED <<status, stopChan, config, monitor, goroutines, order>>

(* ... and calls UpdateConfig, which stops a miner that runs again, or still.  It
   takes the payout address of the network, which may be empty where another was
   posted. *)
AcceptConfig(a) ==
  /\ pc[a] = "update"
  /\ back' = [back EXCEPT ![a] = "update.monitor"]
  /\ IF status = "running"
     THEN Go(a, "stop.close") /\ order' = (IF order = "tidy" /\ ~Alone(a) THEN "messy" ELSE order)
     ELSE Go(a, "update.monitor") /\ UNCHANGED order
  /\ UNCHANGED <<status, stopChan, config, monitor, goroutines, want, restart>>

(* Mutants of ReplaceMonitor: the monitor gets the client that RPC mode has not,
   or is replaced when the mode changes. *)
ReplaceMonitorNil(a) ==
  /\ pc[a] = "update.monitor" /\ Go(a, "update.store")
  /\ \E c \in Config, new \in BOOLEAN :
       /\ c.account # config.account => new
       /\ new => c.account # config.account \/ c.account = None
       /\ want' = [want EXCEPT ![a] = c]
       /\ monitor' = IF new THEN [account |-> c.account, of |-> IF c.mode = "p2p" THEN a ELSE None]
                     ELSE monitor
  /\ UNCHANGED <<status, stopChan, config, goroutines, back, restart, order>>

ReplaceMonitorByMode(a) ==
  /\ pc[a] = "update.monitor" /\ Go(a, "update.store")
  /\ \E c \in Config :
       /\ want' = [want EXCEPT ![a] = c]
       /\ monitor' =
            IF c.mode = config.mode THEN monitor
            ELSE [account |-> c.account, of |-> IF c.mode = "p2p" THEN a ELSE "own"]
  /\ UNCHANGED <<status, stopChan, config, goroutines, back, restart, order>>

(* What was posted, which is looked at from here on.  A new monitor only for
   another network or address (where both have no address, the network may be
   another): with the client made for the configuration, or in RPC mode with one
   of its own. *)
ReplaceMonitor(a) ==
  /\ pc[a] = "update.monitor" /\ Go(a, "update.store")
  /\ \E c \in Config, new \in BOOLEAN :
       /\ c.account # config.account => new
       /\ new => c.account # config.account \/ c.account = None
       /\ want' = [want EXCEPT ![a] = c]
       /\ monitor' = IF new THEN [account |-> c.account, of |-> IF c.mode = "p2p" THEN a ELSE "own"]
                     ELSE monitor
  /\ UNCHANGED <<status, stopChan, config, goroutines, back, restart, order>>

(* The new configuration, clients and miner settings are stored under
   configMutex and saved; a miner that ran is started again later.  The monitor
   that shared the old client keeps it. *)
StoreConfig(a) ==
  /\ pc[a] = "update.store" /\ (restart[a] => pc[Restarter] = "idle")
  /\ config' = want[a]
  /\ monitor' = CASE monitor.of = a -> [monitor EXCEPT !.of = "main"]
                  [] monitor.of = "main" -> [monitor EXCEPT !.of = "left"]
                  [] OTHER -> monitor
  /\ fetcher' = IF want[a].mode = "rpc" THEN "open" ELSE "none"
  /\ want' = [want EXCEPT ![a] = NoConfig] /\ restart' = [restart EXCEPT ![a] = FALSE]
  /\ back' = [back EXCEPT ![a] = "idle"]
  /\ pc' = [pc EXCEPT ![a] = "idle", ![Restarter] = IF restart[a] THEN "restart" ELSE @]
  /\ UNCHANGED <<status, stopChan, loop, tuners, order>>

-----------------------------------------------------------------------------
(* A mining loop, in its select on the stop channel or in a round.  Back from a
   round it looks at the channel that m.stopChan holds by then. *)
calling == <<pc, args, order>>

BeginRound(l) ==
  /\ loop[l] = "select" /\ loop' = [loop EXCEPT ![l] = "work"]
  /\ UNCHANGED <<status, stopChan, config, monitor, fetcher, tuners, calling>>

(* Mutant of EndRound: the channel is looked at when the wait is over only. *)
EndRoundBlindly(l) ==
  /\ loop[l] = "work" /\ loop' = [loop EXCEPT ![l] = "select"]
  /\ UNCHANGED <<status, stopChan, config, monitor, fetcher, tuners, calling>>

EndRound(l) ==
  /\ loop[l] = "work"
  /\ IF stopChan = "open" THEN loop' = [loop EXCEPT ![l] = "select"]
     ELSE LeaveLoops({l})
  /\ UNCHANGED <<status, stopChan, config, monitor, fetcher, tuners, calling>>

(* Mutant of PanicInRound: the recovered panic is only logged. *)
PanicInRoundSilently(l) ==
  /\ loop[l] = "work" /\ LeaveLoops({l})
  /\ UNCHANGED <<status, stopChan, config, monitor, fetcher, tuners, calling>>

PanicInRound(l) ==
  /\ loop[l] = "work" /\ LeaveLoops({l})
  /\ status' = "error"
  /\ UNCHANGED <<stopChan, config, monitor, fetcher, tuners, calling>>

-----------------------------------------------------------------------------
RetireTuner ==
  /\ tuning /\ tunerStop = "closed" /\ tuning' = FALSE
  /\ UNCHANGED <<status, stopChan, config, monitor, fetcher, loop, tunerStop, calling>>

-----------------------------------------------------------------------------
StartStep(a) == OpenStopChan(a) \/ Launch(a)
StopStep(a) ==
  \/ CloseStopChan(a) \/ CloseFetcher(a) \/ CloseFetcherTwice(a) \/ AwaitLoops(a) \/ SayStopped(a)
ConfigStep(a) == SayStoppedAgain(a) \/ RefuseConfig(a) \/ AcceptConfig(a) \/ ReplaceMonitor(a) \/ StoreConfig(a)
LoopStep(l) == BeginRound(l) \/ EndRound(l) \/ PanicInRound(l)

LifeNext ==
  \/ \E a \in Actor : BeginStart(a) \/ BeginStop(a) \/ BeginConfig(a)
  \/ \E a \in Actor : StartStep(a) \/ StopStep(a) \/ ConfigStep(a)
  \/ \E l \in Loop : LoopStep(l)
  \/ RetireTuner

(* Goroutines run, and every round ends; nobody has to make a request. *)
LifeFairness ==
  /\ \A a \in Button \cup Configurer : WF_lifeVars(StopStep(a))
  /\ \A l \in Loop : WF_lifeVars(BeginRound(l) \/ EndRound(l))
  /\ WF_lifeVars(RetireTuner)

LifeSpec == LifeInit /\ [][LifeNext]_lifeVars /\ LifeFairness

-----------------------------------------------------------------------------
LifeTypeOK ==
  /\ status \in {"stopped", "running", "error"} /\ stopChan \in {"open", "closed"}
  /\ config \in Config
  /\ monitor \in [account : Account \cup {None}, of : {"none", "main", "own", "left"} \cup Configurer]
  /\ fetcher \in {"none", "open", "closed"}
  /\ loop \in [Loop -> {"none", "select", "work"}]
  /\ tunerStop \in {"absent", "open", "closed"} /\ tuning \in BOOLEAN
  /\ pc \in [Actor -> {"idle", "restart", "start.open", "start.launch", "stop.close", "stop.rest",
                       "stop.wait", "stop.status",
                       "stopped", "update", "update.monitor", "update.store"}]
  /\ back \in [Actor -> {"idle", "stopped", "update.monitor"}]
  /\ want \in [Actor -> Config] /\ restart \in [Actor -> BOOLEAN]
  /\ order \in {"tidy", "messy", "crossed"}

(* Between two requests the miner says that it runs when one mining loop runs,
   and says something else when none does: unless requests overlapped, a Start
   met a running loop, or a Stop broke off, and no Stop has cleared up since. *)
StatusIsTrue ==
  AllIdle /\ order = "tidy" =>
    /\ Cardinality(Alive) <= 1
    /\ status = "running" <=> Alive # {}

(* Between two requests the payment monitor, if there is one, watches the
   configured network and address, and it reads the client that the miner has
   in P2P mode, one of its own, or one that it shared before: unless two
   configurations were saved at once. *)
MonitorFollows ==
  AllIdle /\ order # "crossed" =>
    /\ monitor.of # "none" => monitor.account = config.account
    /\ monitor.of \notin Configurer
    /\ monitor.of = "main" => config.mode = "p2p"

(* A Stop that waits for the mining loop gets through, unless a Start makes the
   channel anew meanwhile: the loop then looks at an open channel for ever. *)
StopReturns ==
  \A a \in Button \cup Configurer :
    pc[a] = "stop.wait" /\ stopChan = "closed" ~> pc[a] # "stop.wait" \/ stopChan = "open"

(* A miner that stays stopped is sooner or later left alone: no optimizer changes
   its settings, however often it was started before. *)
StoppedIsLeftAlone ==
  <>[](AllIdle /\ status = "stopped") => <>[]~tuning
=============================================================================

------------------------------ MODULE Lifecycle ------------------------------
(***************************************************************************)
(* func main of cmd/bot/main.go, from config.Load to the last deferred     *)
(* call, with what runs beside it: the reader of the Lavalink websocket    *)
(* (LavalinkClient), the metrics poller, onReady, signals.  Several        *)
(* processes share the commands of one Discord application: a process and  *)
(* the one that is started when it has stopped or crashed, or shards of    *)
(* the bot, side by side.                                                  *)
(*                                                                         *)
(* log.Fatal ends a process at once: no deferred call runs.                *)
(***************************************************************************)
EXTENDS LavalinkClient, Settings

CONSTANTS
  Envs,      \* the environments each process may be started with
  Beside,    \* the processes each one may run beside
  Command    \* the slash commands

(* "Register commands from only one process in multi-shard operation"      *)
(* (docs/project-overview.en.md:475).                                      *)
ASSUME DeploymentAssumption ==
  /\ Envs \in [Process -> SUBSET Environment]
  /\ Beside \in [Process -> SUBSET Process]
  /\ \A p, q \in Process : q \in Beside[p] =>
       /\ p \in Beside[q]
       /\ \A e \in Envs[p], f \in Envs[q] : ~(Load(e).registration /\ Load(f).registration)

VARIABLES
  pc,           \* where each main is
  cfg,          \* its configuration
  signalled,    \* rootCtx is done
  gateway,      \* its Discord session is open
  ready,        \* discordReady is closed
  created,      \* createdCommands, without the deleted ones
  poller,       \* where the metrics poller is
  polled,       \* the value it read
  gauge,        \* hnmo_lavalink_connected
  registry,     \* Discord: the registered commands
  undeleted     \* history: the commands whose deletion failed

discord == <<gateway, ready, created, registry>>
metrics == <<poller, polled, gauge>>
vars == <<pc, cfg, signalled, discord, metrics, client, undeleted>>

Startup ==
  {"metrics", "version", "open", "ready", "dial", "await", "gauge", "register"}

Shutdown == {"cleanup", "unset", "close", "exit"}

Alive == Startup \cup {"run"} \cup Shutdown

NoConfig ==
  [ port |-> 0, interval |-> 0, shardID |-> 0, shardCount |-> 0,
    metrics |-> FALSE, registration |-> FALSE, cleanup |-> FALSE ]

TypeOK ==
  /\ pc \in [Process -> Alive \cup {"new", "exited", "dead"}]
  /\ cfg \in [Process -> Config]
  /\ signalled \in [Process -> BOOLEAN]
  /\ gateway \in [Process -> BOOLEAN]
  /\ ready \in [Process -> BOOLEAN]
  /\ created \in [Process -> SUBSET Command]
  /\ poller \in [Process -> {"off", "read", "set", "idle"}]
  /\ polled \in [Process -> BOOLEAN]
  /\ gauge \in [Process -> BOOLEAN]
  /\ registry \in SUBSET Command
  /\ undeleted \in [Process -> SUBSET Command]
  /\ client \in [Process -> Client]

Init ==
  /\ pc = [p \in Process |-> "new"]
  /\ cfg = [p \in Process |-> NoConfig]
  /\ signalled = [p \in Process |-> FALSE]
  /\ gateway = [p \in Process |-> FALSE]
  /\ ready = [p \in Process |-> FALSE]
  /\ created = [p \in Process |-> {}]
  /\ poller = [p \in Process |-> "off"]
  /\ polled = [p \in Process |-> FALSE]
  /\ gauge = [p \in Process |-> FALSE]
  /\ registry = {}
  /\ undeleted = [p \in Process |-> {}]
  /\ client = [p \in Process |-> NewClient]

------------------------------------------------------------------------------
Goto(p, label) == pc' = [pc EXCEPT ![p] = label]

(* The process is gone, one way or the other, with its goroutines, sockets *)
(* and memory.                                                             *)
Gone(p, label) ==
  /\ Goto(p, label)
  /\ Vanish(p)
  /\ cfg' = [cfg EXCEPT ![p] = NoConfig]
  /\ created' = [created EXCEPT ![p] = {}]
  /\ undeleted' = [undeleted EXCEPT ![p] = {}]
  /\ poller' = [poller EXCEPT ![p] = "off"]
  /\ LET no(f) == [f EXCEPT ![p] = FALSE] IN
       /\ signalled' = no(signalled) /\ gateway' = no(gateway) /\ ready' = no(ready)
       /\ polled' = no(polled) /\ gauge' = no(gauge)

(* Its commands are not.                                                   *)
Ends(p, label) == Gone(p, label) /\ UNCHANGED registry

(* A step that may fail for reasons of its own.                            *)
OrFatal(p, step) == step \/ Ends(p, "dead")

------------------------------------------------------------------------------
(* Plausible slips in the actions below, to see which property notices     *)
(* each one.                                                               *)
AwaitNothing(p) ==
  /\ pc[p] = "await"
  /\ Goto(p, "gauge")
  /\ UNCHANGED <<cfg, signalled, discord, metrics, client, undeleted>>

CreateOrLog(p) ==
  /\ pc[p] = "register" /\ cfg[p].registration
  /\ \E c \in Command \ created[p] :
       /\ registry' \in {registry, registry \cup {c}}
       /\ created' = [created EXCEPT ![p] = @ \cup {c}]
       /\ UNCHANGED <<pc, cfg, signalled, gateway, ready, metrics, client, undeleted>>

RunWithExisting(p) ==
  /\ pc[p] = "register"
  /\ cfg[p].registration => Command = created[p] \cup registry
  /\ Goto(p, "run")
  /\ UNCHANGED <<cfg, signalled, discord, metrics, client, undeleted>>

DeleteUntilRefused(p) ==
  /\ pc[p] = "cleanup"
  /\ \E c \in created[p] :
       \/ /\ created' = [created EXCEPT ![p] = @ \ {c}]
          /\ registry' = registry \ {c}
          /\ UNCHANGED undeleted
       \/ /\ created' = [created EXCEPT ![p] = {}]
          /\ registry' \in {registry, registry \ {c}}
          /\ undeleted' = [undeleted EXCEPT ![p] = @ \cup {c}]
  /\ UNCHANGED <<pc, cfg, signalled, gateway, ready, metrics, client>>

ReadyWithoutDeadline(p) ==
  /\ pc[p] = "ready" /\ ready[p]
  /\ Goto(p, "dial")
  /\ UNCHANGED <<cfg, signalled, discord, metrics, client, undeleted>>

PollOnce(p) ==
  /\ poller[p] = "set"
  /\ gauge' = [gauge EXCEPT ![p] = polled[p]]
  /\ poller' = [poller EXCEPT ![p] = "off"]
  /\ UNCHANGED <<pc, cfg, signalled, discord, polled, client, undeleted>>

------------------------------------------------------------------------------
(* The notification of signals is installed first; then config.Load.       *)
Start(p) ==
  /\ pc[p] = "new"
  /\ \A q \in Process : pc[q] \in Alive => q \in Beside[p]
  /\ \E env \in Envs[p] :
       IF Accepted(env)
       THEN /\ cfg' = [cfg EXCEPT ![p] = Load(env)]
            /\ Goto(p, "metrics")
            /\ UNCHANGED <<signalled, discord, metrics, client, undeleted>>
       ELSE Ends(p, "dead")

(* The address may be in use.                                              *)
StartMetrics(p) ==
  /\ pc[p] = "metrics"
  /\ OrFatal(p,
       /\ poller' = [poller EXCEPT ![p] = IF cfg[p].metrics THEN "read" ELSE "off"]
       /\ Goto(p, "version")
       /\ UNCHANGED <<cfg, signalled, discord, polled, gauge, client, undeleted>>)

CheckVersion(p) ==
  /\ pc[p] = "version"
  /\ OrFatal(p,
       /\ Goto(p, "open")
       /\ UNCHANGED <<cfg, signalled, discord, metrics, client, undeleted>>)

(* session.Open; from here on handlers run.                                *)
Open(p) ==
  /\ pc[p] = "open"
  /\ OrFatal(p,
       /\ gateway' = [gateway EXCEPT ![p] = TRUE]
       /\ Goto(p, "ready")
       /\ UNCHANGED <<cfg, signalled, ready, created, registry, metrics, client, undeleted>>)

OnReady(p) ==
  /\ gateway[p] /\ ~ready[p]
  /\ ready' = [ready EXCEPT ![p] = TRUE]
  /\ UNCHANGED <<pc, cfg, signalled, gateway, created, registry, metrics, client, undeleted>>

(* waitForDiscordReady.                                                    *)
WaitReady(p) ==
  /\ pc[p] = "ready"
  /\ OrFatal(p,
       /\ ready[p]
       /\ Goto(p, "dial")
       /\ UNCHANGED <<cfg, signalled, discord, metrics, client, undeleted>>)

(* Connect dials and waits for its own answer or its deadline; what it     *)
(* does on an error, closing the socket, is lost in the Fatal after it.    *)
DialLavalink(p) ==
  /\ pc[p] = "dial"
  /\ OrFatal(p,
       /\ Dial(p)
       /\ Goto(p, "await")
       /\ UNCHANGED <<cfg, signalled, discord, metrics, undeleted>>)

Await(p) ==
  /\ pc[p] = "await"
  /\ OrFatal(p,
       /\ client[p].readyCh = "ready"
       /\ Goto(p, "gauge")
       /\ UNCHANGED <<cfg, signalled, discord, metrics, client, undeleted>>)

SetGauge(p, value) == gauge' = [gauge EXCEPT ![p] = value]

ReportConnected(p) ==
  /\ pc[p] = "gauge"
  /\ SetGauge(p, TRUE)
  /\ Goto(p, "register")
  /\ UNCHANGED <<cfg, signalled, discord, poller, polled, client, undeleted>>

(* ApplicationCommandCreate replaces a command of that name, which keeps   *)
(* its ID: what a process created is what it will delete.  One that fails  *)
(* may have created the command all the same.                              *)
CreateCommand(p) ==
  /\ pc[p] = "register" /\ cfg[p].registration
  /\ \E c \in Command \ created[p] :
       \/ /\ registry' = registry \cup {c}
          /\ created' = [created EXCEPT ![p] = @ \cup {c}]
          /\ UNCHANGED <<pc, cfg, signalled, gateway, ready, metrics, client, undeleted>>
       \/ /\ registry' \in {registry, registry \cup {c}}
          /\ Gone(p, "dead")

Run(p) ==
  /\ pc[p] = "register"
  /\ cfg[p].registration => created[p] = Command
  /\ Goto(p, "run")
  /\ UNCHANGED <<cfg, signalled, discord, metrics, client, undeleted>>

(* <-rootCtx.Done(), the only place where main looks at it.                *)
LeaveRun(p) ==
  /\ pc[p] = "run" /\ signalled[p]
  /\ Goto(p, IF cfg[p].registration /\ cfg[p].cleanup THEN "cleanup" ELSE "unset")
  /\ UNCHANGED <<cfg, signalled, discord, metrics, client, undeleted>>

------------------------------------------------------------------------------
(* The deferred calls, the last one first.  A command is deleted by its    *)
(* ID; an error, which may follow the deletion, is only logged.            *)
DeleteCommand(p) ==
  /\ pc[p] = "cleanup"
  /\ \E c \in created[p] :
       /\ created' = [created EXCEPT ![p] = @ \ {c}]
       /\ \/ registry' = registry \ {c} /\ UNCHANGED undeleted
          \/ /\ registry' \in {registry, registry \ {c}}
             /\ undeleted' = [undeleted EXCEPT ![p] = @ \cup {c}]
  /\ UNCHANGED <<pc, cfg, signalled, gateway, ready, metrics, client>>

EndCleanup(p) ==
  /\ pc[p] = "cleanup" /\ created[p] = {}
  /\ Goto(p, "unset")
  /\ UNCHANGED <<cfg, signalled, discord, metrics, client, undeleted>>

ReportDisconnected(p) ==
  /\ pc[p] = "unset"
  /\ SetGauge(p, FALSE)
  /\ Goto(p, "close")
  /\ UNCHANGED <<cfg, signalled, discord, poller, polled, client, undeleted>>

CloseLavalink(p) ==
  /\ pc[p] = "close"
  /\ Close(p)
  /\ Goto(p, "exit")
  /\ UNCHANGED <<cfg, signalled, discord, metrics, undeleted>>

(* session.Close, and main returns.                                        *)
Exit(p) == pc[p] = "exit" /\ Ends(p, "exited")

Main(p) ==
  \/ StartMetrics(p) \/ CheckVersion(p) \/ Open(p) \/ WaitReady(p) \/ DialLavalink(p) \/ Await(p)
  \/ ReportConnected(p) \/ CreateCommand(p) \/ Run(p) \/ LeaveRun(p)
  \/ DeleteCommand(p) \/ EndCleanup(p) \/ ReportDisconnected(p) \/ CloseLavalink(p) \/ Exit(p)

------------------------------------------------------------------------------
(* StartLavalinkStatsPolling: read Connected, set the gauge, then ask for  *)
(* the statistics and wait for the ticker or the end.                      *)
PollConnected(p) ==
  /\ poller[p] = "read"
  /\ polled' = [polled EXCEPT ![p] = client[p].connected]
  /\ poller' = [poller EXCEPT ![p] = "set"]
  /\ UNCHANGED <<pc, cfg, signalled, discord, gauge, client, undeleted>>

PollSet(p) ==
  /\ poller[p] = "set"
  /\ SetGauge(p, polled[p])
  /\ poller' = [poller EXCEPT ![p] = "idle"]
  /\ UNCHANGED <<pc, cfg, signalled, discord, polled, client, undeleted>>

Tick(p) ==
  /\ poller[p] = "idle"
  /\ poller' = [poller EXCEPT ![p] = "read"]
  /\ UNCHANGED <<pc, cfg, signalled, discord, polled, gauge, client, undeleted>>

PollEnds(p) ==
  /\ poller[p] = "idle" /\ signalled[p]
  /\ poller' = [poller EXCEPT ![p] = "off"]
  /\ UNCHANGED <<pc, cfg, signalled, discord, polled, gauge, client, undeleted>>

Poll(p) == PollConnected(p) \/ PollSet(p) \/ Tick(p) \/ PollEnds(p)

------------------------------------------------------------------------------
(* From outside.                                                           *)
Signal(p) ==
  /\ pc[p] \in Alive /\ ~signalled[p]
  /\ signalled' = [signalled EXCEPT ![p] = TRUE]
  /\ UNCHANGED <<pc, cfg, discord, metrics, client, undeleted>>

Kill(p) == pc[p] \in Alive /\ Ends(p, "dead")

Lavalink(p, step) ==
  step /\ UNCHANGED <<pc, cfg, signalled, discord, metrics, undeleted>>

Next ==
  \E p \in Process :
    \/ Start(p) \/ Main(p) \/ OnReady(p) \/ Poll(p) \/ Signal(p) \/ Kill(p)
    \/ Lavalink(p, Messages(p)) \/ Lavalink(p, Loop(p))

(* main goes on by itself, since each of its waits has a deadline; except  *)
(* that discordgo's Open waits for Discord without one.  The poller's      *)
(* request has a deadline too, and its ticker ticks.  Nobody has to start  *)
(* a process or to stop it.                                                *)
Fairness ==
  \A p \in Process :
    /\ WF_vars(pc[p] # "open" /\ Main(p))
    /\ WF_vars(Poll(p))
    /\ WF_vars(Lavalink(p, Loop(p)))

Spec == Init /\ [][Next]_vars /\ Fairness

------------------------------------------------------------------------------
(* Whoever sees the session up can count on somebody to read it: no        *)
(* failure of the loop leaves the session published (client.go:406-412).   *)
ConnectedIsServed ==
  \A p \in Process : client[p].connected => client[p].reader \notin {"off", "done"}

(* A process has one session and it never comes back (main.go:118,         *)
(* client.go:459).                                                         *)
ImplementsSession == OneSession!Spec

(* A session that Lavalink dropped does not look connected for ever.       *)
DropIsNoticed ==
  \A p \in Process :
    client[p].connected /\ client[p].socket = "closed" ~> ~client[p].connected

(* Nothing is announced before the session has been up: neither to those   *)
(* who watch the gauge nor to the guild, in which a command that is called *)
(* earlier fails (main.go:118-177).                                        *)
NothingBeforeSession ==
  \A p \in Process : gauge[p] \/ created[p] # {} => Phase(p) # "none"

(* A process that registers commands runs with all of them, whatever the   *)
(* one before it left or deleted, as long as no two processes that         *)
(* register run at once (DeploymentAssumption, main.go:170-182).           *)
CommandsServed ==
  \A p \in Process : pc[p] = "run" /\ cfg[p].registration => registry = Command

(* A process that cleans up leaves no command behind, not even one of a    *)
(* process that died before it, except those whose own deletion failed: an *)
(* error does not stop the others (main.go:184-192).                       *)
LeavesNoCommand ==
  \A p \in Process :
    pc[p] \in Shutdown \ {"cleanup"} /\ cfg[p].registration /\ cfg[p].cleanup
      => registry \subseteq undeleted[p]

(* Whatever the environment, a process that goes on to use its numbers has *)
(* usable ones, defaults included (config.go:84-138).                      *)
RunsUsable == \A p \in Process : pc[p] \in Alive => Usable(cfg[p])

(* The gauge settles on the session while the bot runs, although the       *)
(* poller reads and sets it in two steps and main sets it too              *)
(* (recorder.go:175, 185, main.go:121).                                    *)
GaugeConverges ==
  \A p \in Process :
    <>[](pc[p] = "run" /\ cfg[p].metrics => gauge[p] = client[p].connected)

(* A signal ends the process, whatever the state of Lavalink, Discord or   *)
(* the start-up, once the gateway is open (main.go:48, 205).               *)
SignalsHonoured ==
  \A p \in Process : signalled[p] /\ gateway[p] ~> pc[p] \in {"exited", "dead"}
==============================================================================

--------------------------- MODULE LifecycleProofs ---------------------------
(***************************************************************************)
(* Lifecycle for any number of processes, side by side or one after the    *)
(* other, started in any environments that respect DeploymentAssumption.   *)
(***************************************************************************)
EXTENDS Lifecycle, TLAPS

(* config.Load refuses what the program cannot use and nothing else: it    *)
(* accepts an environment that has what is required, switches that are on  *)
(* or off, and numbers that are usable once the defaults are in            *)
(* (config.go:64-157).                                                     *)
THEOREM AcceptedUsable ==
  ASSUME NEW env \in Environment
  PROVE  Accepted(env) <=>
           /\ Unset \notin {env.token, env.guild, env.host, env.password, env.port}
           /\ Load(env) \in Config
           /\ Usable(Load(env))
<1>1. CASE Accepted(env)
  <2>1. /\ Load(env).port \in Int /\ Load(env).port > 0
        /\ Load(env).interval \in Int /\ Load(env).interval > 0
    BY <1>1, SettingsAssumption DEF Accepted, Environment, Load, Or, AtLeast, Number
  <2>2. /\ Load(env).shardID \in Int /\ Load(env).shardCount \in Int
        /\ Load(env).shardID \in 0 .. Load(env).shardCount - 1
    BY <1>1, SettingsAssumption DEF Accepted, Environment, Load, Or, AtLeast, Number
  <2>3. /\ Load(env).metrics \in BOOLEAN /\ Load(env).registration \in BOOLEAN
        /\ Load(env).cleanup \in BOOLEAN
    BY <1>1, SettingsAssumption DEF Accepted, Environment, Load, Or, Switch
  <2>4. Load(env) \in Config
    BY <2>1, <2>2, <2>3 DEF Load, Config
  <2>5. Unset \notin {env.token, env.guild, env.host, env.password, env.port}
    BY <1>1 DEF Accepted
  <2> QED
    BY <1>1, <2>1, <2>2, <2>4, <2>5 DEF Usable
<1>2. ASSUME Unset \notin {env.token, env.guild, env.host, env.password, env.port},
             Load(env) \in Config, Usable(Load(env))
      PROVE  Accepted(env)
  <2>1. /\ Load(env).port \in Int /\ Load(env).interval \in Int
        /\ Load(env).shardID \in Int /\ Load(env).shardCount \in Int
    BY <1>2 DEF Config
  <2>2. /\ AtLeast(Load(env).port, 1) /\ AtLeast(Load(env).interval, 1)
        /\ AtLeast(Load(env).shardID, 0) /\ AtLeast(Load(env).shardCount, 1)
        /\ Load(env).shardID < Load(env).shardCount
    BY <1>2, <2>1, SettingsAssumption DEF Usable, AtLeast
  <2>3. Garbled \notin {Load(env).metrics, Load(env).registration, Load(env).cleanup}
    BY <1>2, SettingsAssumption DEF Config
  <2> QED
    BY <1>2, <2>2, <2>3 DEF Accepted
<1> QED
  BY <1>1, <1>2

------------------------------------------------------------------------------
(* What the shared parts of the actions do to the types.                   *)
Label == Alive \cup {"new", "exited", "dead"}

LEMMA GotoType ==
  ASSUME TypeOK, NEW p \in Process, NEW l \in Label, Goto(p, l)
  PROVE  pc' \in [Process -> Label]
BY DEF TypeOK, Goto, Label

LEMMA NewClientType == NewClient \in Client
BY DEF NewClient, Client

LEMMA GoneType ==
  ASSUME TypeOK, NEW p \in Process, NEW l \in {"exited", "dead"}, Gone(p, l),
         registry' \in SUBSET Command
  PROVE  TypeOK'
<1>1. pc' \in [Process -> Label]
  BY GotoType DEF Gone, Label
<1>2. [NewClient EXCEPT !.reader = "done"] \in Client
  BY DEF NewClient, Client
<1>3. client' \in [Process -> Client]
  BY <1>2 DEF Gone, Vanish, TypeOK
<1>4. NoConfig \in Config /\ cfg' \in [Process -> Config]
  BY DEF Gone, NoConfig, Config, TypeOK
<1>5. /\ created' \in [Process -> SUBSET Command]
      /\ undeleted' \in [Process -> SUBSET Command]
      /\ poller' \in [Process -> {"off", "read", "set", "idle"}]
  BY DEF Gone, TypeOK
<1>6. /\ signalled' \in [Process -> BOOLEAN] /\ gateway' \in [Process -> BOOLEAN]
      /\ ready' \in [Process -> BOOLEAN] /\ polled' \in [Process -> BOOLEAN]
      /\ gauge' \in [Process -> BOOLEAN]
  BY DEF Gone, TypeOK
<1> QED
  BY <1>1, <1>3, <1>4, <1>5, <1>6 DEF TypeOK, Label

LEMMA EndsType ==
  ASSUME TypeOK, NEW p \in Process, NEW l \in {"exited", "dead"}, Ends(p, l)
  PROVE  TypeOK'
<1>1. registry' \in SUBSET Command
  BY DEF TypeOK, Ends
<1> QED
  BY <1>1, GoneType DEF Ends

(* The steps of the client keep it well-formed.                            *)
LEMMA ClientType ==
  ASSUME client \in [Process -> Client], NEW p \in Process,
         Dial(p) \/ Close(p) \/ Messages(p) \/ Loop(p)
  PROVE  client' \in [Process -> Client]
<1>1. client[p] \in Client
  OBVIOUS
<1>2. CASE Dial(p)
  BY <1>1, <1>2 DEF Dial, Client
<1>3. CASE Close(p)
  BY <1>1, <1>3 DEF Close, Client
<1>4. CASE ReadReady(p)
  BY <1>1, <1>4 DEF ReadReady, Client
<1>5. CASE ReadEvent(p)
  BY <1>1, <1>5 DEF ReadEvent, Client
<1>6. CASE HandlerReturns(p)
  BY <1>1, <1>6 DEF HandlerReturns, Client
<1>7. CASE Drop(p)
  BY <1>1, <1>7 DEF Drop, Hangup, Client
<1>8. CASE AnswerReady(p)
  BY <1>1, <1>8 DEF AnswerReady, Client
<1>9. CASE ClearConnection(p)
  BY <1>1, <1>9 DEF ClearConnection, Client
<1>10. CASE GiveUp(p)
  BY <1>1, <1>10 DEF GiveUp, Client
<1> QED
  BY <1>2, <1>3, <1>4, <1>5, <1>6, <1>7, <1>8, <1>9, <1>10
     DEF Messages, Loop, ReadGarbled, ReadFails

(* A step of main that only goes on, with nothing else changed.            *)
LEMMA GoesOnType ==
  ASSUME TypeOK, NEW p \in Process, NEW l \in Label, Goto(p, l),
         UNCHANGED <<cfg, signalled, discord, metrics, client, undeleted>>
  PROVE  TypeOK'
<1>1. pc' \in [Process -> Label]
  BY GotoType
<1> QED
  BY <1>1 DEF TypeOK, Label, discord, metrics

LEMMA StartType ==
  ASSUME TypeOK, NEW p \in Process, Start(p)
  PROVE  TypeOK'
<1>1. PICK env \in Envs[p] :
        IF Accepted(env)
        THEN /\ cfg' = [cfg EXCEPT ![p] = Load(env)]
             /\ Goto(p, "metrics")
             /\ UNCHANGED <<signalled, discord, metrics, client, undeleted>>
        ELSE Ends(p, "dead")
  BY DEF Start
<1>2. env \in Environment
  BY DeploymentAssumption
<1>3. CASE Accepted(env)
  <2>1. Load(env) \in Config
    BY <1>2, <1>3, AcceptedUsable
  <2>2. cfg' \in [Process -> Config]
    BY <1>1, <1>3, <2>1 DEF TypeOK
  <2>3. pc' \in [Process -> Label]
    BY <1>1, <1>3, GotoType DEF Label, Alive, Startup
  <2> QED
    BY <1>1, <1>3, <2>2, <2>3 DEF TypeOK, Label, discord, metrics
<1> QED
  BY <1>1, <1>3, EndsType

LEMMA MainType ==
  ASSUME TypeOK, NEW p \in Process, Main(p)
  PROVE  TypeOK'
<1> USE DEF Label, Alive, Startup, Shutdown
<1>1. CASE Ends(p, "dead") \/ Exit(p)
  BY <1>1, EndsType DEF Exit
<1>2. ASSUME StartMetrics(p), ~Ends(p, "dead")
      PROVE  TypeOK'
  <2>1. pc' \in [Process -> Label]
    BY <1>2, GotoType DEF StartMetrics, OrFatal
  <2> QED
    BY <1>2, <2>1 DEF StartMetrics, OrFatal, TypeOK, discord
<1>3. ASSUME Open(p), ~Ends(p, "dead")
      PROVE  TypeOK'
  <2>1. pc' \in [Process -> Label]
    BY <1>3, GotoType DEF Open, OrFatal
  <2> QED
    BY <1>3, <2>1 DEF Open, OrFatal, TypeOK, metrics
<1>4. ASSUME DialLavalink(p) \/ CloseLavalink(p), ~Ends(p, "dead")
      PROVE  TypeOK'
  <2>1. pc' \in [Process -> Label]
    BY <1>4, GotoType DEF DialLavalink, CloseLavalink, OrFatal
  <2>2. client' \in [Process -> Client]
    BY <1>4, ClientType DEF DialLavalink, CloseLavalink, OrFatal, TypeOK
  <2> QED
    BY <1>4, <2>1, <2>2 DEF DialLavalink, CloseLavalink, OrFatal, TypeOK, discord, metrics
<1>5. ASSUME ReportConnected(p) \/ ReportDisconnected(p)
      PROVE  TypeOK'
  <2>1. pc' \in [Process -> Label]
    BY <1>5, GotoType DEF ReportConnected, ReportDisconnected
  <2> QED
    BY <1>5, <2>1 DEF ReportConnected, ReportDisconnected, SetGauge, TypeOK, discord
<1>6. ASSUME CreateCommand(p)
      PROVE  TypeOK'
  <2>1. PICK c \in Command :
          \/ /\ registry' = registry \cup {c}
             /\ created' = [created EXCEPT ![p] = @ \cup {c}]
             /\ UNCHANGED <<pc, cfg, signalled, gateway, ready, metrics, client, undeleted>>
          \/ /\ registry' \in {registry, registry \cup {c}}
             /\ Gone(p, "dead")
    BY <1>6 DEF CreateCommand
  <2>2. registry' \in SUBSET Command
    BY <2>1 DEF TypeOK
  <2>3. CASE Gone(p, "dead")
    BY <2>2, <2>3, GoneType
  <2>4. CASE /\ created' = [created EXCEPT ![p] = @ \cup {c}]
             /\ UNCHANGED <<pc, cfg, signalled, gateway, ready, metrics, client, undeleted>>
    BY <2>2, <2>4 DEF TypeOK, metrics
  <2> QED
    BY <2>1, <2>3, <2>4
<1>7. ASSUME DeleteCommand(p)
      PROVE  TypeOK'
  <2>1. PICK c \in created[p] :
          /\ created' = [created EXCEPT ![p] = @ \ {c}]
          /\ \/ registry' = registry \ {c} /\ UNCHANGED undeleted
             \/ /\ registry' \in {registry, registry \ {c}}
                /\ undeleted' = [undeleted EXCEPT ![p] = @ \cup {c}]
    BY <1>7 DEF DeleteCommand
  <2>2. created' \in [Process -> SUBSET Command] /\ registry' \in SUBSET Command
    BY <2>1 DEF TypeOK
  <2>3. undeleted' \in [Process -> SUBSET Command]
    BY <2>1 DEF TypeOK
  <2> QED
    BY <1>7, <2>2, <2>3 DEF DeleteCommand, TypeOK, metrics
<1>8. ASSUME \/ CheckVersion(p) \/ WaitReady(p) \/ Await(p) \/ Run(p) \/ LeaveRun(p)
             \/ EndCleanup(p), ~Ends(p, "dead")
      PROVE  TypeOK'
  BY <1>8, GoesOnType DEF CheckVersion, WaitReady, Await, Run, LeaveRun, EndCleanup, OrFatal
<1> QED
  BY <1>1, <1>2, <1>3, <1>4, <1>5, <1>6, <1>7, <1>8 DEF Main

LEMMA TypeStep ==
  ASSUME TypeOK, Next
  PROVE  TypeOK'
<1>1. PICK p \in Process :
        \/ Start(p) \/ Main(p) \/ OnReady(p) \/ Poll(p) \/ Signal(p) \/ Kill(p)
        \/ Lavalink(p, Messages(p)) \/ Lavalink(p, Loop(p))
  BY DEF Next
<1>2. CASE OnReady(p) \/ Signal(p)
  BY <1>2 DEF OnReady, Signal, TypeOK, metrics, discord
<1>3. CASE Poll(p)
  <2>1. client[p].connected \in BOOLEAN
    BY DEF TypeOK, Client
  <2> QED
    BY <1>3, <2>1 DEF Poll, PollConnected, PollSet, SetGauge, Tick, PollEnds, TypeOK, discord
<1>4. CASE Lavalink(p, Messages(p)) \/ Lavalink(p, Loop(p))
  <2>1. client' \in [Process -> Client]
    BY <1>4, ClientType DEF Lavalink, TypeOK
  <2> QED
    BY <1>4, <2>1 DEF Lavalink, TypeOK, discord, metrics
<1> QED
  BY <1>1, <1>2, <1>3, <1>4, StartType, MainType, EndsType DEF Kill

(* Every variable of every process keeps its type (main.go:47-208).        *)
THEOREM TypeCorrect == Spec => []TypeOK
<1>1. Init => TypeOK
  BY NewClientType DEF Init, TypeOK, NoConfig, Config
<1>2. TypeOK /\ [Next]_vars => TypeOK'
  <2>1. CASE UNCHANGED vars
    BY <2>1 DEF vars, discord, metrics, TypeOK
  <2> QED
    BY <2>1, TypeStep
<1> QED
  BY <1>1, <1>2, PTL DEF Spec

------------------------------------------------------------------------------
(* One client by itself.  What makes the session reliable is the order in  *)
(* which readLoop publishes, answers, notes and withdraws.                 *)
Served(p) ==
  /\ client[p].connected => client[p].reader \notin {"off", "done"}
  /\ client[p].connected => client[p].readySent \/ client[p].reader = "answer"
  /\ client[p].reader \in {"handling", "clear"} => client[p].readySent
  /\ client[p].readyCh = "ready" => client[p].readySent

Down(p) ==
  /\ ~client[p].connected
  /\ client[p].reader \in {"done", "answer"} \/ client[p].readySent

PhasesAre ==
  client \in [Process -> Client] =>
    \A p \in Process :
      /\ Phase(p) = "up" <=> client[p].connected
      /\ Phase(p) = "down" <=> Down(p)
      /\ Phase(p) \in {"none", "up", "down"}

LEMMA Phases == PhasesAre
<1> SUFFICES ASSUME client \in [Process -> Client], NEW p \in Process
             PROVE  /\ Phase(p) = "up" <=> client[p].connected
                    /\ Phase(p) = "down" <=> Down(p)
                    /\ Phase(p) \in {"none", "up", "down"}
  BY DEF PhasesAre
<1>1. client[p].connected \in BOOLEAN /\ client[p].readySent \in BOOLEAN
  BY DEF Client
<1>2. CASE client[p].connected
  BY <1>2 DEF Phase, Down
<1>3. CASE ~client[p].connected /\ client[p].reader = "done"
  BY <1>3 DEF Phase, Down
<1>4. CASE ~client[p].connected /\ client[p].reader # "done"
  BY <1>4 DEF Phase, Down
<1> QED
  BY <1>1, <1>2, <1>3, <1>4

(* What the system does to a client: main dials with one that nobody used.  *)
Touched(p) ==
  \/ Dial(p) /\ client[p] = NewClient
  \/ Close(p) \/ Messages(p) \/ Loop(p) \/ Vanish(p)

(* A phase never goes back.                                                *)
Onward(p) ==
  /\ Down(p) => Down(p)'
  /\ client[p].connected => client'[p].connected \/ Down(p)'

LEMMA ClientStep ==
  ASSUME client \in [Process -> Client], NEW p \in Process, Served(p), Touched(p)
  PROVE  /\ Served(p)' /\ Onward(p)
         /\ \A q \in Process \ {p} : client'[q] = client[q]
<1>1. client[p] \in Client
  OBVIOUS
<1>2. CASE Dial(p) /\ client[p] = NewClient
  BY <1>1, <1>2 DEF Dial, NewClient, Client, Served, Onward, Down
<1>3. CASE Close(p)
  BY <1>1, <1>3 DEF Close, Client, Served, Onward, Down
<1>4. CASE ReadReady(p)
  BY <1>1, <1>4 DEF ReadReady, Reading, Client, Served, Onward, Down
<1>5. CASE ReadEvent(p)
  BY <1>1, <1>5 DEF ReadEvent, Reading, Client, Served, Onward, Down
<1>6. CASE HandlerReturns(p)
  BY <1>1, <1>6 DEF HandlerReturns, Client, Served, Onward, Down
<1>7. CASE Drop(p)
  BY <1>1, <1>7 DEF Drop, Hangup, Client, Served, Onward, Down
<1>8. CASE AnswerReady(p)
  BY <1>1, <1>8 DEF AnswerReady, Client, Served, Onward, Down
<1>9. CASE ClearConnection(p)
  BY <1>1, <1>9 DEF ClearConnection, Client, Served, Onward, Down
<1>10. CASE GiveUp(p)
  BY <1>1, <1>10 DEF GiveUp, Client, Served, Onward, Down
<1>11. CASE Vanish(p)
  BY <1>1, <1>11 DEF Vanish, NewClient, Client, Served, Onward, Down
<1> QED
  BY <1>2, <1>3, <1>4, <1>5, <1>6, <1>7, <1>8, <1>9, <1>10, <1>11
     DEF Touched, Messages, Loop, ReadGarbled, ReadFails

LEMMA NewClientStays ==
  ASSUME NEW p \in Process, client[p] = NewClient
  PROVE  ~Messages(p) /\ ~Loop(p)
BY DEF NewClient, Messages, Loop, ReadReady, ReadEvent, ReadGarbled, Reading, Drop, AnswerReady,
       HandlerReturns, ReadFails, ClearConnection

------------------------------------------------------------------------------
(* The clients in the system: main dials once, with a client that nobody   *)
(* has used, and looks at the answer before it goes on.                    *)
BeforeDial == {"new", "metrics", "version", "open", "ready", "dial"}

Connecting ==
  \A p \in Process :
    /\ pc[p] \in BeforeDial => client[p] = NewClient
    /\ pc[p] \in {"gauge", "register", "run"} \cup Shutdown => client[p].connected \/ Down(p)

SessionInv == TypeOK /\ (\A p \in Process : Served(p)) /\ Connecting
(* A step of one process: where its main is afterwards, and that it leaves *)
(* the others alone.                                                       *)
Connected(p) == client[p].connected \/ Down(p)

LEMMA ConnectingKept ==
  ASSUME SessionInv, TypeOK', NEW p \in Process, Touched(p) \/ UNCHANGED client,
         \A q \in Process \ {p} : pc'[q] = pc[q],
         pc'[p] \in BeforeDial => client'[p] = NewClient,
         pc'[p] \in {"gauge", "register", "run"} \cup Shutdown =>
           pc[p] \in {"gauge", "register", "run"} \cup Shutdown \/ Connected(p)
  PROVE  SessionInv' /\ Onward(p) /\ \A q \in Process \ {p} : client'[q] = client[q]
<1>1. /\ Served(p)' /\ Onward(p)
      /\ \A q \in Process \ {p} : client'[q] = client[q]
  BY ClientStep DEF SessionInv, TypeOK, Served, Onward, Down
<1>2. \A q \in Process : Served(q)'
  BY <1>1 DEF SessionInv, Served
<1>3. Connecting'
  BY <1>1 DEF SessionInv, Connecting, Connected, Onward, Down
<1> QED
  BY <1>1, <1>2, <1>3 DEF SessionInv

LEMMA SessionStep ==
  ASSUME SessionInv, Next
  PROVE  /\ SessionInv'
         /\ \E p \in Process : Onward(p) /\ \A q \in Process \ {p} : client'[q] = client[q]
<1>1. TypeOK'
  BY TypeStep DEF SessionInv
<1>2. PICK p \in Process :
        \/ Start(p) \/ Main(p) \/ OnReady(p) \/ Poll(p) \/ Signal(p) \/ Kill(p)
        \/ Lavalink(p, Messages(p)) \/ Lavalink(p, Loop(p))
  BY DEF Next
<1> DEFINE Goal ==
      /\ Touched(p) \/ UNCHANGED client
      /\ \A q \in Process \ {p} : pc'[q] = pc[q]
      /\ pc'[p] \in BeforeDial => client'[p] = NewClient
      /\ pc'[p] \in {"gauge", "register", "run"} \cup Shutdown =>
           pc[p] \in {"gauge", "register", "run"} \cup Shutdown \/ Connected(p)
<1> SUFFICES Goal
  BY <1>1, ConnectingKept
<1>3. /\ pc \in [Process -> Label] /\ client[p] \in Client
      /\ pc[p] \in BeforeDial => client[p] = NewClient
      /\ client[p].readyCh = "ready" => client[p].readySent
  BY DEF SessionInv, TypeOK, Connecting, Served, Label
<1> USE DEF BeforeDial, Shutdown
<1>4. ASSUME NEW l \in {"exited", "dead"}, Ends(p, l) \/ Gone(p, l)
      PROVE  Goal
  <2>1. Gone(p, l)
    BY <1>4 DEF Ends
  <2> QED
    BY <1>3, <2>1 DEF Gone, Goto, Touched
<1>5. CASE Start(p)
  <2>1. pc[p] = "new" /\ (Ends(p, "dead") \/ (Goto(p, "metrics") /\ UNCHANGED client))
    BY <1>5 DEF Start
  <2> QED
    BY <1>3, <1>4, <2>1 DEF Goto
<1>6. CASE StartMetrics(p) \/ CheckVersion(p) \/ Open(p) \/ WaitReady(p)
  <2>1. \/ Ends(p, "dead")
        \/ /\ pc[p] \in BeforeDial /\ UNCHANGED client
           /\ \E l \in {"version", "open", "ready", "dial"} : Goto(p, l)
    BY <1>6 DEF StartMetrics, CheckVersion, Open, WaitReady, OrFatal
  <2> QED
    BY <1>3, <1>4, <2>1 DEF Goto
<1>7. CASE DialLavalink(p)
  BY <1>3, <1>4, <1>7 DEF DialLavalink, OrFatal, Goto, Touched
<1>8. CASE Await(p)
  <2>1. client[p].readyCh = "ready" => Connected(p)
    BY <1>3 DEF Connected, Down
  <2> QED
    BY <1>3, <1>4, <1>8, <2>1 DEF Await, OrFatal, Goto
<1>9. CASE ReportConnected(p) \/ Run(p) \/ LeaveRun(p) \/ EndCleanup(p) \/ ReportDisconnected(p)
  <2>1. /\ pc[p] \in {"gauge", "register", "run"} \cup Shutdown /\ UNCHANGED client
        /\ \E l \in {"register", "run", "cleanup", "unset", "close"} : Goto(p, l)
    BY <1>9 DEF ReportConnected, Run, LeaveRun, EndCleanup, ReportDisconnected
  <2> QED
    BY <1>3, <2>1 DEF Goto
<1>10. CASE CloseLavalink(p)
  BY <1>3, <1>10 DEF CloseLavalink, Goto, Touched
<1>11. CASE CreateCommand(p) \/ DeleteCommand(p) \/ OnReady(p) \/ Poll(p) \/ Signal(p)
  <2>1. Gone(p, "dead") \/ UNCHANGED <<pc, client>>
    BY <1>11 DEF CreateCommand, DeleteCommand, OnReady, Poll, PollConnected, PollSet, Tick,
                 PollEnds, Signal
  <2> QED
    BY <1>3, <1>4, <2>1
<1>12. CASE Lavalink(p, Messages(p)) \/ Lavalink(p, Loop(p))
  <2>1. (Messages(p) \/ Loop(p)) /\ UNCHANGED pc
    BY <1>12 DEF Lavalink
  <2>2. pc[p] \notin BeforeDial
    BY <1>3, <2>1, NewClientStays
  <2> QED
    BY <1>3, <2>1, <2>2 DEF Touched
<1> QED
  BY <1>2, <1>4, <1>5, <1>6, <1>7, <1>8, <1>9, <1>10, <1>11, <1>12 DEF Main, Kill, Exit

LEMMA SessionInvariant == Spec => []SessionInv
<1>1. Init => SessionInv
  <2> SUFFICES ASSUME Init PROVE SessionInv
    OBVIOUS
  <2>1. TypeOK
    BY NewClientType DEF Init, TypeOK, NoConfig, Config
  <2> QED
    BY <2>1 DEF Init, SessionInv, Connecting, Served, NewClient, BeforeDial, Shutdown
<1>2. SessionInv /\ [Next]_vars => SessionInv'
  <2>1. CASE UNCHANGED vars
    BY <2>1 DEF vars, discord, metrics, SessionInv, TypeOK, Connecting, Served, Down
  <2> QED
    BY <2>1, SessionStep
<1> QED
  BY <1>1, <1>2, PTL DEF Spec

(* Whoever sees the session up can count on somebody to read it            *)
(* (client.go:406-468).                                                    *)
THEOREM ConnectedServed == Spec => []ConnectedIsServed
<1>1. SessionInv => ConnectedIsServed
  BY DEF SessionInv, Served, ConnectedIsServed
<1> QED
  BY <1>1, SessionInvariant, PTL

(* The client implements Session: it comes up once, or never, and once it  *)
(* is down it stays down, in each process (client.go:166-210, 406-468).    *)
THEOREM SessionImplemented == Spec => ImplementsSession
<1> DEFINE phases == [p \in Process |-> Phase(p)]
<1>1. Init => OneSession!Init
  <2> SUFFICES ASSUME Init PROVE OneSession!Init
    OBVIOUS
  <2>1. \A p \in Process : Phase(p) = "none"
    BY DEF Init, NewClient, Phase
  <2> QED
    BY <2>1 DEF OneSession!Init
<1>2. SessionInv /\ [Next]_vars => [OneSession!Next]_phases
  <2> SUFFICES ASSUME SessionInv, [Next]_vars
               PROVE  OneSession!Next \/ UNCHANGED phases
    OBVIOUS
  <2>1. CASE UNCHANGED vars
    BY <2>1 DEF vars, Phase
  <2>2. CASE Next
    <3>1. SessionInv' /\ client \in [Process -> Client] /\ client' \in [Process -> Client]
      BY <2>2, SessionStep DEF SessionInv, TypeOK
    <3>2. PICK p \in Process : Onward(p) /\ \A q \in Process \ {p} : client'[q] = client[q]
      BY <2>2, SessionStep
    <3>3. \A q \in Process \ {p} : Phase(q)' = Phase(q)
      BY <3>2 DEF Phase
    <3>4. /\ Phase(p) = "up" <=> client[p].connected
          /\ Phase(p) = "down" <=> Down(p)
          /\ Phase(p) \in {"none", "up", "down"}
      BY <3>1, Phases DEF PhasesAre
    <3>5. /\ Phase(p)' = "up" <=> client'[p].connected
          /\ Phase(p)' = "down" <=> Down(p)'
          /\ Phase(p)' \in {"none", "up", "down"}
      <4>1. PhasesAre'
        BY Phases, PTL
      <4> QED
        BY <3>1, <4>1 DEF PhasesAre
    <3>6. \/ Phase(p)' = Phase(p)
          \/ Phase(p) = "none" /\ Phase(p)' = "up"
          \/ Phase(p) \in {"none", "up"} /\ Phase(p)' = "down"
      BY <3>2, <3>4, <3>5 DEF Onward
    <3>7. phases' = [phases EXCEPT ![p] = Phase(p)']
      BY <3>3
    <3> QED
      BY <3>6, <3>7 DEF OneSession!Next, OneSession!Becomes
  <2> QED
    BY <2>1, <2>2
<1> QED
  BY <1>1, <1>2, SessionInvariant, PTL DEF Spec, ImplementsSession, OneSession!Spec

------------------------------------------------------------------------------
(* What is announced of the session.                                       *)
Announced ==
  \A p \in Process : gauge[p] \/ polled[p] \/ created[p] # {} => Connected(p)

LEMMA AnnouncedStep ==
  ASSUME SessionInv, Announced, Next
  PROVE  Announced'
<1>1. PICK p \in Process :
        \/ Start(p) \/ Main(p) \/ OnReady(p) \/ Poll(p) \/ Signal(p) \/ Kill(p)
        \/ Lavalink(p, Messages(p)) \/ Lavalink(p, Loop(p))
  BY DEF Next
<1> DEFINE New(q) == gauge'[q] \/ polled'[q] \/ created'[q] # {}
           Old(q) == gauge[q] \/ polled[q] \/ created[q] # {}
<1>2. /\ gauge \in [Process -> BOOLEAN] /\ polled \in [Process -> BOOLEAN]
      /\ created \in [Process -> SUBSET Command]
      /\ pc[p] \in {"gauge", "register"} => Connected(p)
      /\ client[p].connected => Connected(p)
  BY DEF SessionInv, TypeOK, Connecting, Connected
<1>3. \A q \in Process : New(q) => Old(q) \/ Connected(q)
  <2>1. ASSUME NEW l \in {"exited", "dead"}, Ends(p, l) \/ Gone(p, l)
        PROVE  \A q \in Process : New(q) => Old(q)
    BY <1>2, <2>1 DEF Ends, Gone
  <2>2. ASSUME UNCHANGED <<gauge, polled, created>>
        PROVE  \A q \in Process : New(q) => Old(q)
    BY <2>2
  <2>3. ASSUME Start(p)
        PROVE  Ends(p, "dead") \/ UNCHANGED <<gauge, polled, created>>
    BY <2>3 DEF Start, discord, metrics
  <2>4. ASSUME \/ StartMetrics(p) \/ CheckVersion(p) \/ Open(p) \/ WaitReady(p)
               \/ DialLavalink(p) \/ Await(p)
        PROVE  Ends(p, "dead") \/ UNCHANGED <<gauge, polled, created>>
    BY <2>4 DEF StartMetrics, CheckVersion, Open, WaitReady, DialLavalink, Await, OrFatal, discord,
                metrics
  <2>5. ASSUME Run(p) \/ LeaveRun(p) \/ EndCleanup(p) \/ CloseLavalink(p)
        PROVE  UNCHANGED <<gauge, polled, created>>
    BY <2>5 DEF Run, LeaveRun, EndCleanup, CloseLavalink, discord, metrics
  <2>6. ASSUME ReportConnected(p)
        PROVE  \A q \in Process : New(q) => Old(q) \/ Connected(q)
    BY <1>2, <2>6 DEF ReportConnected, SetGauge, discord
  <2>7. ASSUME ReportDisconnected(p)
        PROVE  \A q \in Process : New(q) => Old(q)
    BY <1>2, <2>7 DEF ReportDisconnected, SetGauge, discord
  <2>8. ASSUME CreateCommand(p)
        PROVE  \A q \in Process : New(q) => Old(q) \/ Connected(q)
    BY <1>2, <2>1, <2>8 DEF CreateCommand, metrics
  <2>9. ASSUME DeleteCommand(p)
        PROVE  \A q \in Process : New(q) => Old(q)
    BY <1>2, <2>9 DEF DeleteCommand, metrics
  <2>10. ASSUME PollConnected(p)
         PROVE  \A q \in Process : New(q) => Old(q) \/ Connected(q)
    BY <1>2, <2>10 DEF PollConnected, discord
  <2>11. ASSUME PollSet(p)
         PROVE  \A q \in Process : New(q) => Old(q)
    BY <1>2, <2>11 DEF PollSet, SetGauge, discord
  <2>12. ASSUME \/ Tick(p) \/ PollEnds(p) \/ OnReady(p) \/ Signal(p)
                \/ Lavalink(p, Messages(p)) \/ Lavalink(p, Loop(p))
         PROVE  UNCHANGED <<gauge, polled, created>>
    BY <2>12 DEF Tick, PollEnds, OnReady, Signal, Lavalink, discord, metrics
  <2> QED
    BY <1>1, <2>1, <2>2, <2>3, <2>4, <2>5, <2>6, <2>7, <2>8, <2>9, <2>10, <2>11, <2>12
       DEF Main, Poll, Kill, Exit
<1>4. \A q \in Process : Connected(q) => Connected(q)'
  BY SessionStep DEF Connected, Onward, Down
<1> QED
  BY <1>3, <1>4 DEF Announced

(* Nothing is announced before the session has been up: not in the gauge   *)
(* and not as commands of the guild (main.go:118-177).                     *)
THEOREM AnnouncedLate == Spec => []NothingBeforeSession
<1>1. Init => Announced
  BY DEF Init, Announced
<1>2. SessionInv /\ Announced /\ [Next]_vars => Announced'
  <2>1. CASE UNCHANGED vars
    BY <2>1 DEF vars, discord, metrics, Announced, Connected, Down
  <2> QED
    BY <2>1, AnnouncedStep
<1>3. SessionInv /\ Announced => NothingBeforeSession
  BY Phases DEF SessionInv, TypeOK, Announced, Connected, NothingBeforeSession, PhasesAre
<1> QED
  BY <1>1, <1>2, <1>3, SessionInvariant, PTL DEF Spec

------------------------------------------------------------------------------
(* The commands of the guild.  Two processes that run at once do so by     *)
(* agreement, and then only one of them registers.                         *)
ByAgreement ==
  /\ \A p, q \in Process : p # q /\ pc[p] \in Alive /\ pc[q] \in Alive => q \in Beside[p]
  /\ \A p \in Process :
       cfg[p].registration => /\ pc[p] \in Alive
                              /\ \E e \in Envs[p] : Load(e).registration = TRUE

Owns(p) ==
  /\ created[p] # {} => cfg[p].registration
  /\ created[p] \subseteq registry
  /\ pc[p] = "run" /\ cfg[p].registration => created[p] = Command
  /\ pc[p] = "cleanup" => cfg[p].registration
  /\ pc[p] = "cleanup" => registry \subseteq created[p] \cup undeleted[p]
  /\ pc[p] \in {"unset", "close", "exit"} /\ cfg[p].registration /\ cfg[p].cleanup
       => registry \subseteq undeleted[p]

RegistryInv == TypeOK /\ ByAgreement /\ \A p \in Process : Owns(p)

LEMMA OneRegisters ==
  ASSUME ByAgreement, NEW p \in Process, NEW q \in Process, p # q, cfg[p].registration
  PROVE  ~cfg[q].registration
<1> SUFFICES ASSUME cfg[q].registration PROVE FALSE
  OBVIOUS
<1>1. q \in Beside[p]
  BY DEF ByAgreement
<1>2. PICK e \in Envs[p] : Load(e).registration = TRUE
  BY DEF ByAgreement
<1>3. PICK f \in Envs[q] : Load(f).registration = TRUE
  BY DEF ByAgreement
<1> QED
  BY <1>1, <1>2, <1>3, DeploymentAssumption

(* A step of a process changes nothing of the others, and the registry     *)
(* only if it is the one that registers.                                   *)
OnlyOf(p) ==
  /\ \A q \in Process \ {p} : /\ pc'[q] = pc[q] /\ cfg'[q] = cfg[q]
                              /\ created'[q] = created[q] /\ undeleted'[q] = undeleted[q]
  /\ registry' # registry => cfg[p].registration

LEMMA OthersOwn ==
  ASSUME RegistryInv, NEW p \in Process, OnlyOf(p)
  PROVE  \A q \in Process \ {p} : Owns(q)'
<1> SUFFICES ASSUME NEW q \in Process \ {p} PROVE Owns(q)'
  OBVIOUS
<1>1. Owns(q) /\ (cfg[q].registration => registry' = registry)
  BY OneRegisters DEF RegistryInv, OnlyOf
<1>2. /\ pc'[q] = pc[q] /\ cfg'[q] = cfg[q]
      /\ created'[q] = created[q] /\ undeleted'[q] = undeleted[q]
  BY DEF OnlyOf
<1> QED
  BY <1>1, <1>2 DEF Owns

(* What a step may do to the agreement.                                    *)
LEMMA AgreementKept ==
  ASSUME RegistryInv, NEW p \in Process, OnlyOf(p),
         \/ pc'[p] \notin Alive /\ ~cfg'[p].registration
         \/ pc[p] \in Alive /\ pc'[p] \in Alive /\ cfg'[p] = cfg[p]
         \/ pc'[p] = pc[p] /\ cfg'[p] = cfg[p]
         \/ Start(p) /\ pc'[p] \in Alive
  PROVE  ByAgreement'
<1>1. CASE pc'[p] \notin Alive /\ ~cfg'[p].registration
  BY <1>1 DEF RegistryInv, ByAgreement, OnlyOf
<1>2. CASE ((pc[p] \in Alive /\ pc'[p] \in Alive) \/ pc'[p] = pc[p]) /\ cfg'[p] = cfg[p]
  BY <1>2 DEF RegistryInv, ByAgreement, OnlyOf
<1>3. CASE Start(p) /\ pc'[p] \in Alive
  <2>1. \A q \in Process : pc[q] \in Alive => q \in Beside[p] /\ p \in Beside[q]
    BY <1>3, DeploymentAssumption DEF Start
  <2>2. cfg'[p].registration => \E e \in Envs[p] : Load(e).registration = TRUE
    <3>1. PICK e \in Envs[p] : 
            IF Accepted(e)
            THEN cfg' = [cfg EXCEPT ![p] = Load(e)]
            ELSE Ends(p, "dead")
      BY <1>3 DEF Start
    <3>2. ~Ends(p, "dead")
      BY <1>3 DEF Ends, Gone, Goto, Alive, Startup, Shutdown, RegistryInv, TypeOK
    <3>3. Accepted(e) /\ Load(e).registration \in BOOLEAN /\ cfg'[p].registration = Load(e).registration
      BY <3>1, <3>2, AcceptedUsable, DeploymentAssumption DEF Config, RegistryInv, TypeOK
    <3> QED
      BY <3>3
  <2> QED
    BY <1>3, <2>1, <2>2 DEF RegistryInv, ByAgreement, OnlyOf
<1> QED
  BY <1>1, <1>2, <1>3

(* The two lemmas together, for a step that keeps its own process in order.*)
Orderly(p) ==
  /\ OnlyOf(p) /\ Owns(p)'
  /\ \/ pc'[p] \notin Alive /\ ~cfg'[p].registration
     \/ pc[p] \in Alive /\ pc'[p] \in Alive /\ cfg'[p] = cfg[p]
     \/ pc'[p] = pc[p] /\ cfg'[p] = cfg[p]
     \/ Start(p) /\ pc'[p] \in Alive

LEMMA GoneOrderly ==
  ASSUME TypeOK, NEW p \in Process, NEW l \in {"exited", "dead"}, Gone(p, l),
         registry' # registry => cfg[p].registration
  PROVE  Orderly(p)
BY DEF TypeOK, Gone, Goto, NoConfig, Orderly, OnlyOf, Owns, Alive, Startup, Shutdown

LEMMA EndsOrderly ==
  ASSUME TypeOK, NEW p \in Process, NEW l \in {"exited", "dead"}, Ends(p, l)
  PROVE  Orderly(p)
BY GoneOrderly DEF Ends

(* Nearly every step leaves the commands alone.                            *)
Untouched == UNCHANGED <<cfg, created, registry, undeleted>>

LEMMA UntouchedOrderly ==
  ASSUME RegistryInv, NEW p \in Process, Untouched,
         \/ UNCHANGED pc
         \/ pc[p] \in Alive /\ \E l \in Startup : Goto(p, l)
         \/ /\ pc[p] \in {"unset", "close", "exit"}
            /\ \E l \in {"unset", "close", "exit"} : Goto(p, l)
  PROVE  Orderly(p)
<1>1. Owns(p) /\ pc \in [Process -> Label]
  BY DEF RegistryInv, TypeOK, Label
<1>2. CASE UNCHANGED pc
  BY <1>1, <1>2 DEF Untouched, Orderly, OnlyOf, Owns
<1>3. CASE pc[p] \in Alive /\ \E l \in Startup : Goto(p, l)
  BY <1>1, <1>3 DEF Untouched, Orderly, OnlyOf, Owns, Goto, Alive, Startup
<1>4. CASE /\ pc[p] \in {"unset", "close", "exit"}
           /\ \E l \in {"unset", "close", "exit"} : Goto(p, l)
  BY <1>1, <1>4 DEF Untouched, Orderly, OnlyOf, Owns, Goto, Alive, Shutdown
<1> QED
  BY <1>2, <1>3, <1>4

LEMMA StartOrderly ==
  ASSUME RegistryInv, NEW p \in Process, Start(p)
  PROVE  Orderly(p)
<1>1. PICK env \in Envs[p] :
        IF Accepted(env)
        THEN /\ cfg' = [cfg EXCEPT ![p] = Load(env)]
             /\ Goto(p, "metrics")
             /\ UNCHANGED <<signalled, discord, metrics, client, undeleted>>
        ELSE Ends(p, "dead")
  BY DEF Start
<1>2. CASE Accepted(env)
  <2>1. created[p] = {}
    BY DEF Start, RegistryInv, Owns, ByAgreement, Alive, Startup, Shutdown
  <2> QED
    BY <1>1, <1>2, <2>1
       DEF RegistryInv, TypeOK, Orderly, OnlyOf, Owns, Goto, Alive, Startup, discord
<1> QED
  BY <1>1, <1>2, EndsOrderly DEF RegistryInv

LEMMA RegisterOrderly ==
  ASSUME RegistryInv, NEW p \in Process, CreateCommand(p) \/ Run(p) \/ LeaveRun(p)
  PROVE  Orderly(p)
<1>1. /\ Owns(p) /\ pc \in [Process -> Label] /\ registry \in SUBSET Command
      /\ created \in [Process -> SUBSET Command] /\ cfg \in [Process -> Config]
  BY DEF RegistryInv, TypeOK, Label
<1>2. CASE CreateCommand(p)
  <2>1. CASE Gone(p, "dead")
    BY <1>2, <2>1, GoneOrderly DEF CreateCommand, RegistryInv
  <2>2. CASE ~Gone(p, "dead")
    <3>1. PICK c \in Command :
            /\ registry' = registry \cup {c}
            /\ created' = [created EXCEPT ![p] = @ \cup {c}]
            /\ UNCHANGED <<pc, cfg, undeleted>>
      BY <1>2, <2>2 DEF CreateCommand
    <3>2. created'[p] = created[p] \cup {c}
      BY <1>1, <3>1
    <3>3. pc[p] = "register" /\ cfg[p].registration
      BY <1>2 DEF CreateCommand
    <3>4. Owns(p)'
      BY <1>1, <3>1, <3>2, <3>3 DEF Owns
    <3>5. OnlyOf(p)
      BY <1>1, <3>1, <3>3 DEF OnlyOf
    <3> QED
      BY <3>1, <3>4, <3>5 DEF Orderly
  <2> QED
    BY <2>1, <2>2
<1>3. CASE Run(p)
  BY <1>1, <1>3 DEF Run, Orderly, OnlyOf, Owns, Goto, Alive, Startup, discord
<1>4. CASE LeaveRun(p)
  <2>1. CASE cfg[p].registration /\ cfg[p].cleanup
    BY <1>1, <1>4, <2>1 DEF LeaveRun, Orderly, OnlyOf, Owns, Goto, Alive, Shutdown, discord
  <2>2. CASE ~(cfg[p].registration /\ cfg[p].cleanup)
    BY <1>1, <1>4, <2>2 DEF LeaveRun, Orderly, OnlyOf, Owns, Goto, Alive, Shutdown, discord
  <2> QED
    BY <2>1, <2>2
<1> QED
  BY <1>2, <1>3, <1>4

LEMMA CleanupOrderly ==
  ASSUME RegistryInv, NEW p \in Process, DeleteCommand(p) \/ EndCleanup(p)
  PROVE  Orderly(p)
<1>1. /\ Owns(p) /\ pc \in [Process -> Label]
      /\ created \in [Process -> SUBSET Command] /\ undeleted \in [Process -> SUBSET Command]
      /\ pc[p] = "cleanup" /\ cfg[p].registration
  BY DEF RegistryInv, TypeOK, Label, DeleteCommand, EndCleanup, Owns
<1>2. CASE DeleteCommand(p)
  <2>1. PICK c \in created[p] :
          /\ created' = [created EXCEPT ![p] = @ \ {c}]
          /\ \/ registry' = registry \ {c} /\ UNCHANGED undeleted
             \/ /\ registry' \in {registry, registry \ {c}}
                /\ undeleted' = [undeleted EXCEPT ![p] = @ \cup {c}]
    BY <1>2 DEF DeleteCommand
  <2>2. UNCHANGED <<pc, cfg>>
    BY <1>2 DEF DeleteCommand
  <2>3. created'[p] = created[p] \ {c}
    BY <1>1, <2>1
  <2>4. OnlyOf(p)
    BY <1>1, <2>1, <2>2 DEF OnlyOf
  <2>5. Owns(p)'
    BY <1>1, <2>1, <2>2, <2>3 DEF Owns
  <2> QED
    BY <2>2, <2>4, <2>5 DEF Orderly
<1>3. CASE EndCleanup(p)
  <2>1. registry \subseteq undeleted[p]
    BY <1>1, <1>3 DEF EndCleanup, Owns
  <2> QED
    BY <1>1, <1>3, <2>1 DEF EndCleanup, Orderly, OnlyOf, Owns, Goto, Alive, Shutdown, discord
<1> QED
  BY <1>2, <1>3

LEMMA RegistryStep ==
  ASSUME RegistryInv, Next
  PROVE  RegistryInv'
<1>1. PICK p \in Process :
        \/ Start(p) \/ Main(p) \/ OnReady(p) \/ Poll(p) \/ Signal(p) \/ Kill(p)
        \/ Lavalink(p, Messages(p)) \/ Lavalink(p, Loop(p))
  BY DEF Next
<1> SUFFICES Orderly(p)
  BY TypeStep, OthersOwn, AgreementKept DEF RegistryInv, Orderly
<1>2. CASE \/ StartMetrics(p) \/ CheckVersion(p) \/ Open(p) \/ WaitReady(p) \/ DialLavalink(p)
           \/ Await(p) \/ ReportConnected(p)
  <2>1. \/ Ends(p, "dead")
        \/ /\ Untouched /\ pc[p] \in Alive
           /\ \E l \in Startup : Goto(p, l)
    BY <1>2 DEF StartMetrics, CheckVersion, Open, WaitReady, DialLavalink, Await, ReportConnected,
                OrFatal, Untouched, discord, Alive, Startup
  <2> QED
    BY <2>1, EndsOrderly, UntouchedOrderly DEF RegistryInv
<1>3. CASE ReportDisconnected(p) \/ CloseLavalink(p)
  BY <1>3, UntouchedOrderly DEF ReportDisconnected, CloseLavalink, Untouched, discord
<1>4. CASE \/ OnReady(p) \/ Poll(p) \/ Signal(p)
           \/ Lavalink(p, Messages(p)) \/ Lavalink(p, Loop(p))
  <2>1. Untouched /\ UNCHANGED pc
    BY <1>4 DEF OnReady, Poll, PollConnected, PollSet, Tick, PollEnds, Signal, Lavalink, Untouched,
                discord
  <2> QED
    BY <2>1, UntouchedOrderly
<1>5. CASE Exit(p) \/ Kill(p)
  BY <1>5, EndsOrderly DEF Exit, Kill, RegistryInv
<1> QED
  BY <1>1, <1>2, <1>3, <1>4, <1>5, StartOrderly, RegisterOrderly, CleanupOrderly DEF Main

LEMMA RegistryInvariant == Spec => []RegistryInv
<1>1. Init => RegistryInv
  <2> SUFFICES ASSUME Init PROVE RegistryInv
    OBVIOUS
  <2>1. TypeOK
    BY NewClientType DEF Init, TypeOK, NoConfig, Config
  <2> QED
    BY <2>1 DEF Init, RegistryInv, ByAgreement, Owns, NoConfig, Alive, Startup, Shutdown
<1>2. RegistryInv /\ [Next]_vars => RegistryInv'
  <2>1. CASE UNCHANGED vars
    BY <2>1 DEF vars, discord, metrics, RegistryInv, TypeOK, ByAgreement, Owns
  <2> QED
    BY <2>1, RegistryStep
<1> QED
  BY <1>1, <1>2, PTL DEF Spec

(* A process that registers commands runs with all of them, whichever      *)
(* processes run beside it or have run before it (main.go:170-182).        *)
THEOREM AllCommandsServed == Spec => []CommandsServed
<1>1. RegistryInv => CommandsServed
  BY DEF RegistryInv, TypeOK, Owns, CommandsServed
<1> QED
  BY <1>1, RegistryInvariant, PTL

(* A process that cleans up leaves no command behind, except those whose   *)
(* own deletion failed (main.go:184-192).                                  *)
THEOREM NoCommandLeft == Spec => []LeavesNoCommand
<1>1. RegistryInv => LeavesNoCommand
  BY DEF RegistryInv, Owns, LeavesNoCommand, Shutdown
<1> QED
  BY <1>1, RegistryInvariant, PTL

------------------------------------------------------------------------------
(* A process that goes on to use its numbers has usable ones, whatever the *)
(* environment it was started in (config.go:84-138).                       *)
THEOREM NumbersUsable == Spec => []RunsUsable
<1>1. Init => RunsUsable
  BY DEF Init, RunsUsable, Alive, Startup, Shutdown
<1>2. TypeOK /\ RunsUsable /\ [Next]_vars => RunsUsable'
  <2> SUFFICES ASSUME TypeOK, RunsUsable, [Next]_vars
               PROVE  RunsUsable'
    OBVIOUS
  <2> DEFINE Kept(p) == /\ \A q \in Process \ {p} : pc'[q] = pc[q] /\ cfg'[q] = cfg[q]
                        /\ pc'[p] \in Alive => /\ pc[p] \in Alive
                                               /\ cfg'[p] = cfg[p]
  <2>1. CASE UNCHANGED vars
    BY <2>1 DEF vars, RunsUsable
  <2>2. ASSUME NEW p \in Process, Kept(p)
        PROVE  RunsUsable'
    BY <2>2 DEF RunsUsable
  <2>3. ASSUME NEW p \in Process, NEW l \in {"exited", "dead"}, Ends(p, l) \/ Gone(p, l)
        PROVE  Kept(p)
    BY <2>3 DEF Ends, Gone, Goto, Alive, Startup, Shutdown, TypeOK
  <2>4. ASSUME NEW p \in Process, Start(p)
        PROVE  RunsUsable'
    <3>1. PICK env \in Envs[p] :
            IF Accepted(env)
            THEN /\ cfg' = [cfg EXCEPT ![p] = Load(env)]
                 /\ Goto(p, "metrics")
            ELSE Ends(p, "dead")
      BY <2>4 DEF Start
    <3>2. Accepted(env) => Usable(Load(env))
      BY AcceptedUsable, DeploymentAssumption
    <3>3. CASE Accepted(env)
      BY <3>1, <3>2, <3>3 DEF Goto, RunsUsable, TypeOK
    <3> QED
      BY <2>2, <2>3, <3>1, <3>3
  <2>5. ASSUME NEW p \in Process, Main(p)
        PROVE  Kept(p)
    <3>1. \/ \E l \in {"exited", "dead"} : Ends(p, l) \/ Gone(p, l)
          \/ /\ UNCHANGED cfg /\ pc[p] \in Alive
             /\ UNCHANGED pc \/ \E l \in Label : Goto(p, l)
      BY <2>5 DEF Main, StartMetrics, CheckVersion, Open, WaitReady, DialLavalink, Await,
                  ReportConnected, CreateCommand, Run, LeaveRun, DeleteCommand, EndCleanup,
                  ReportDisconnected, CloseLavalink, Exit, OrFatal, Label, Alive, Startup, Shutdown
    <3> QED
      BY <2>3, <3>1 DEF Goto, TypeOK
  <2>6. ASSUME NEW p \in Process,
               \/ OnReady(p) \/ Poll(p) \/ Signal(p)
               \/ Lavalink(p, Messages(p)) \/ Lavalink(p, Loop(p))
        PROVE  UNCHANGED <<pc, cfg>>
    BY <2>6 DEF OnReady, Poll, PollConnected, PollSet, Tick, PollEnds, Signal, Lavalink
  <2>7. ASSUME UNCHANGED <<pc, cfg>>
        PROVE  RunsUsable'
    BY <2>7 DEF RunsUsable
  <2> QED
    BY <2>1, <2>2, <2>3, <2>4, <2>5, <2>6, <2>7 DEF Next, Kill
<1> QED
  BY <1>1, <1>2, TypeCorrect, PTL DEF Spec
==============================================================================

------------------------------ MODULE Settings -------------------------------
(***************************************************************************)
(* config.Load: which environments the program starts in, and what it then *)
(* runs with.  A variable that is missing or blank is Unset, one that does *)
(* not parse is Garbled.  The first error found stops Load; which one it   *)
(* is only changes the message.                                            *)
(***************************************************************************)
EXTENDS Integers

CONSTANTS
  Unset, Garbled,
  Second           \* time.Second, in the unit of the interval

ASSUME SettingsAssumption ==
  /\ Second \in Nat \ {0}
  /\ Unset \notin Int \cup BOOLEAN /\ Garbled \notin Int \cup BOOLEAN
  /\ Unset # Garbled

Text == {Unset, "text"}
Number == Int \cup {Unset, Garbled}
Switch == BOOLEAN \cup {Unset, Garbled}

Environment ==
  [ token : Text, guild : Text, host : Text, password : Text,
    port : Number, interval : Number, shardID : Number, shardCount : Number,
    metrics : Switch, registration : Switch, cleanup : Switch ]

Config ==
  [ port : Int, interval : Int, shardID : Int, shardCount : Int,
    metrics : BOOLEAN, registration : BOOLEAN, cleanup : BOOLEAN ]

------------------------------------------------------------------------------
Or(value, default) == IF value = Unset THEN default ELSE value

AtLeast(value, least) == value # Garbled /\ value >= least

Load(env) ==
  [ port         |-> env.port,
    interval     |-> Or(env.interval, 15 * Second),
    shardID      |-> Or(env.shardID, 0),
    shardCount   |-> Or(env.shardCount, 1),
    metrics      |-> Or(env.metrics, TRUE),
    registration |-> Or(env.registration, TRUE),
    cleanup      |-> Or(env.cleanup, TRUE) ]

(* Two slips: a switch that does not parse is not noticed; a shard may be  *)
(* one too many.                                                           *)
AcceptedUnparsed(env) ==
  LET cfg == Load(env) IN
  /\ Unset \notin {env.token, env.guild, env.host, env.password, env.port}
  /\ AtLeast(cfg.port, 1) /\ AtLeast(cfg.interval, 1)
  /\ AtLeast(cfg.shardID, 0) /\ AtLeast(cfg.shardCount, 1)
  /\ cfg.shardID < cfg.shardCount

AcceptedOneTooMany(env) ==
  LET cfg == Load(env) IN
  /\ Unset \notin {env.token, env.guild, env.host, env.password, env.port}
  /\ AtLeast(cfg.port, 1) /\ AtLeast(cfg.interval, 1)
  /\ AtLeast(cfg.shardID, 0) /\ AtLeast(cfg.shardCount, 1)
  /\ cfg.shardID <= cfg.shardCount
  /\ Garbled \notin {cfg.metrics, cfg.registration, cfg.cleanup}

Accepted(env) ==
  LET cfg == Load(env) IN
  /\ Unset \notin {env.token, env.guild, env.host, env.password, env.port}
  /\ AtLeast(cfg.port, 1)
  /\ AtLeast(cfg.interval, 1)
  /\ AtLeast(cfg.shardID, 0)
  /\ AtLeast(cfg.shardCount, 1)
  /\ cfg.shardID < cfg.shardCount
  /\ Garbled \notin {cfg.metrics, cfg.registration, cfg.cleanup}

(* What the rest of the program needs of its numbers: a port to dial, an   *)
(* interval to wait, a shard that is one of the shards.                    *)
Usable(cfg) ==
  /\ cfg.port > 0 /\ cfg.interval > 0
  /\ cfg.shardID \in 0 .. cfg.shardCount - 1
==============================================================================

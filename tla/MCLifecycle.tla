----------------------------- MODULE MCLifecycle -----------------------------
(***************************************************************************)
(* Lifecycle for TLC: a process, which may also be misconfigured, with a   *)
(* number at the edge on either side, or not register commands, and the    *)
(* one started after it has ended.                                         *)
(***************************************************************************)
EXTENDS Lifecycle, TLC

CONSTANTS p1, p2

Default ==
  [ token |-> "text", guild |-> "text", host |-> "text", password |-> "text",
    port |-> 2333, interval |-> Unset, shardID |-> Unset, shardCount |-> Unset,
    metrics |-> Unset, registration |-> Unset, cleanup |-> Unset ]

MCProcess == {p1, p2}

MCBeside == [p \in MCProcess |-> {}]

MCEnvs ==
  p1 :> { Default,
          [Default EXCEPT !.registration = FALSE, !.port = 1, !.interval = 1,
                          !.shardID = 1, !.shardCount = 2],
          [Default EXCEPT !.cleanup = Garbled], [Default EXCEPT !.port = 0],
          [Default EXCEPT !.interval = 0], [Default EXCEPT !.shardID = 1],
          [Default EXCEPT !.shardID = -1], [Default EXCEPT !.shardCount = 0] }
  @@ p2 :> { Default, [Default EXCEPT !.metrics = FALSE, !.cleanup = FALSE] }
==============================================================================

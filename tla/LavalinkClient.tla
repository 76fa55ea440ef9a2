--------------------------- MODULE LavalinkClient ----------------------------
(***************************************************************************)
(* The session part of internal/lavalink/client.go: the websocket, the     *)
(* goroutine that reads it (readLoop), and what it publishes under c.mu.   *)
(* wsConn and sessionID are always set and cleared together, so the two    *)
(* are one value here: `connected` is what Connected returns.              *)
(***************************************************************************)
CONSTANT Process   \* processes of the bot, each with a client of its own

VARIABLE client

Client ==
  [ socket    : {"none", "open", "closed"},
    reader    : {"off", "reading", "answer", "handling", "clear", "done"},
    readySent : BOOLEAN,
    readyCh   : {"empty", "ready", "error"},
    connected : BOOLEAN ]

NewClient ==
  [socket |-> "none", reader |-> "off", readySent |-> FALSE, readyCh |-> "empty", connected |-> FALSE]

------------------------------------------------------------------------------
(* Plausible slips in the actions below, to see which property notices     *)
(* each one.                                                               *)
AnswerWithoutNoting(p) ==
  /\ client[p].reader = "answer"
  /\ client' = [client EXCEPT ![p].readyCh = "ready", ![p].reader = "reading"]

ReadOnAfterFailure(p) ==
  client[p].reader = "reading" /\ client[p].socket = "closed" /\ UNCHANGED client

ClearAndRedial(p) ==
  /\ client[p].reader = "clear"
  /\ client' = [client EXCEPT ![p].connected = FALSE, ![p].reader = "reading", ![p].socket = "open",
                              ![p].readySent = FALSE]

------------------------------------------------------------------------------
(* Connect: the websocket is open and read.                                *)
Dial(p) ==
  /\ client[p].socket = "none"
  /\ client' = [client EXCEPT ![p].socket = "open", ![p].reader = "reading"]

Hangup(p) == client' = [client EXCEPT ![p].socket = "closed"]

(* Close gives up the connection that is published, if there is one.       *)
Close(p) ==
  IF client[p].connected
  THEN client' = [client EXCEPT ![p].socket = "closed", ![p].connected = FALSE]
  ELSE UNCHANGED client

------------------------------------------------------------------------------
(* readLoop.  To the reader the socket is closed when it has read all that *)
(* came before.  Lavalink is taken at its word: one ready frame for each   *)
(* websocket, with a session ID in it.  A second one would be published    *)
(* again, one without an ID would leave Connected false (client.go:439).   *)
(* The frame is published first, ...                                       *)
Reading(p) == client[p].reader = "reading" /\ client[p].socket = "open"

ReadReady(p) ==
  /\ Reading(p) /\ ~client[p].readySent
  /\ client' = [client EXCEPT ![p].connected = TRUE, ![p].reader = "answer"]

(* ... and then answered to Connect.                                       *)
AnswerReady(p) ==
  /\ client[p].reader = "answer"
  /\ client' = [client EXCEPT ![p].readyCh = "ready", ![p].readySent = TRUE,
                              ![p].reader = "reading"]

(* Another message: its handler runs inside the loop.  Before the ready    *)
(* frame it is ignored.                                                    *)
ReadEvent(p) ==
  /\ Reading(p) /\ client[p].readySent
  /\ client' = [client EXCEPT ![p].reader = "handling"]

HandlerReturns(p) ==
  /\ client[p].reader = "handling"
  /\ client' = [client EXCEPT ![p].reader = "reading"]

(* The loop gives up: it answers Connect if nobody has, and withdraws what *)
(* it published otherwise.                                                 *)
GiveUp(p) ==
  /\ client[p].reader = "reading"
  /\ client' = [client EXCEPT ![p].reader = IF client[p].readySent THEN "clear" ELSE "done",
                              ![p].readyCh = IF client[p].readySent THEN @ ELSE "error"]

ReadFails(p) == client[p].socket = "closed" /\ GiveUp(p)

(* A payload that cannot be decoded; the socket stays open.                *)
ReadGarbled(p) == Reading(p) /\ GiveUp(p)

ClearConnection(p) ==
  /\ client[p].reader = "clear"
  /\ client' = [client EXCEPT ![p].connected = FALSE, ![p].reader = "done"]

(* Lavalink goes away.                                                     *)
Drop(p) == client[p].socket = "open" /\ Hangup(p)

(* The process is over, and with it all of this.                           *)
Vanish(p) == client' = [client EXCEPT ![p] = [NewClient EXCEPT !.reader = "done"]]

Messages(p) == ReadReady(p) \/ ReadEvent(p) \/ ReadGarbled(p) \/ Drop(p)

(* What the loop does by itself.                                           *)
Loop(p) == AnswerReady(p) \/ HandlerReturns(p) \/ ReadFails(p) \/ ClearConnection(p)

------------------------------------------------------------------------------
Phase(p) ==
  CASE client[p].connected -> "up"
    [] ~client[p].connected /\ client[p].reader = "done" -> "down"
    [] ~client[p].connected /\ client[p].reader # "done" ->
         IF client[p].readySent \/ client[p].reader = "answer" THEN "down" ELSE "none"

OneSession == INSTANCE Session WITH phase <- [p \in Process |-> Phase(p)]
==============================================================================

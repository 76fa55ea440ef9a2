------------------------------- MODULE Player --------------------------------
(***************************************************************************)
(* internal/player/manager.go: the playback state the bot keeps in memory  *)
(* for one guild, and the operations of Manager as functions on it.  Every *)
(* method of Manager holds m.mu from its first to its last statement, so   *)
(* each is one atomic step of whoever calls it, and none touches the       *)
(* player of another guild.                                                *)
(*                                                                         *)
(* A guild that is missing from m.players is the record Unknown: Snapshot  *)
(* of a missing guild returns the zero Snapshot, which is what Unknown     *)
(* shows.                                                                  *)
(***************************************************************************)
EXTENDS BotDomain, Naturals, Sequences

CONSTANT Track   \* one element per track a /play resolves

ASSUME TrackAssumption == None \notin Track

GuildPlayer ==
  [ known          : BOOLEAN,
    voiceChannelID : Channel \cup {None},
    current        : Track \cup {None},
    queue          : Seq(Track) ]

Unknown == [known |-> FALSE, voiceChannelID |-> None, current |-> None, queue |-> << >>]

(***************************************************************************)
(* Plausible slips in the operations below.  No specification uses them:   *)
(* each one replaces an operation to see which property notices.           *)
(***************************************************************************)
EnqueueAtFront(p, ch, t) ==
  IF p.current = None
  THEN [p EXCEPT !.known = TRUE, !.voiceChannelID = ch, !.current = t]
  ELSE [p EXCEPT !.known = TRUE, !.voiceChannelID = ch, !.queue = <<t>> \o @]

AdvanceKeepsHead(p) ==
  IF p.current = None THEN p
  ELSE IF p.queue = << >> THEN [p EXCEPT !.current = None]
  ELSE [p EXCEPT !.current = Head(p.queue)]

AdvanceKeepsLast(p) ==
  IF p.current = None \/ p.queue = << >> THEN p
  ELSE [p EXCEPT !.current = Head(p.queue), !.queue = Tail(p.queue)]

StopKeepsQueue(p) == [p EXCEPT !.current = None]

SetVoiceChannelIfAny(p, ch) ==
  IF ch = None THEN p ELSE [p EXCEPT !.known = TRUE, !.voiceChannelID = ch]

------------------------------------------------------------------------------
(* Enqueue: the track starts when nothing is current, whatever the queue   *)
(* holds, and is appended otherwise.                                       *)
EnqueueStarts(p) == p.current = None

Enqueue(p, ch, t) ==
  IF EnqueueStarts(p)
  THEN [p EXCEPT !.known = TRUE, !.voiceChannelID = ch, !.current = t]
  ELSE [p EXCEPT !.known = TRUE, !.voiceChannelID = ch, !.queue = Append(@, t)]

(* Advance: nothing to do without a current track, even when tracks are    *)
(* queued.  AdvanceNext is the pointer it returns.                         *)
AdvanceNext(p) ==
  IF p.current = None \/ p.queue = << >> THEN None ELSE Head(p.queue)

Advance(p) ==
  IF p.current = None THEN p
  ELSE IF p.queue = << >> THEN [p EXCEPT !.current = None]
  ELSE [p EXCEPT !.current = Head(p.queue), !.queue = Tail(p.queue)]

Stop(p) == [p EXCEPT !.current = None, !.queue = << >>]

Leave(p) == Unknown

SetVoiceChannel(p, ch) ==
  IF ~p.known /\ ch = None THEN p
  ELSE [p EXCEPT !.known = TRUE, !.voiceChannelID = ch]

ClearCurrent(p) == [p EXCEPT !.current = None]

(* What the guild will hear from here on, in order.                        *)
Upcoming(p) == IF p.current = None THEN p.queue ELSE <<p.current>> \o p.queue
==============================================================================

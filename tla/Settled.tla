------------------------------- MODULE Settled -------------------------------
(***************************************************************************)
(* The bot keeps no lock across "change my own state, then tell Lavalink   *)
(* or Discord", so two handlers that do it at once may leave the three of  *)
(* them in disagreement: Claims shows how.  This module says when that can *)
(* happen (Overlap, Overtaken, Stale) and shows that it cannot otherwise:  *)
(* of the behaviours of MusicBot it keeps those in which nothing of the    *)
(* kind has happened yet, and states that, whenever nothing is in flight,  *)
(* the bot's own state is what Lavalink plays and where Discord has the    *)
(* bot.                                                                    *)
(***************************************************************************)
EXTENDS MusicBot

(* The goroutines in the middle of something.                              *)
At(labels) == {p \in Proc : pc[p] \in labels}

Deciding == At({"check", "ensure"})
Joining == At({"join", "await", "forward", "setChannel"})
Enqueueing == At({"load"})
Telling == At({"send", "clear", "halt"})
Tearing == At(LeaveSection)
Watching == At({"watch", "count"})

Overlap ==
  \/ \E p, q \in Joining : p # q
  \/ \E p, q \in Telling : p # q
  \/ Tearing # {} /\ Joining \cup Enqueueing \cup Telling # {}
  \/ Watching # {} /\ Deciding \cup Joining \cup Enqueueing # {}
  \/ Watching # {} /\ voiceEvents # {}

(* Two events about the bot are handled in the wrong order, or one comes   *)
(* in that contradicts the channel a /play is about to record.             *)
Overtaken ==
  \E e \in voiceEvents \ voiceEvents' :
    \/ e.op # voiceOps
    \/ e.kind = "channel" /\ \E t \in Joining \cup Enqueueing : chan[t] # e.channel

(* The end of a track reaches a player that has moved on to another one.   *)
Stale ==
  /\ events # << >> /\ events' = Tail(events)
  /\ Head(events).finished
  /\ player.current \notin {None, Head(events).track}

Undisturbed == Next /\ ~Overlap' /\ ~Overtaken /\ ~Stale

SettledSpec == Init /\ [][Undisturbed]_vars

------------------------------------------------------------------------------
(* Nothing is running and nothing is on its way.                           *)
Quiet ==
  /\ \A p \in Proc : pc[p] \in {"new", "idle", "done"}
  /\ voiceEvents = {}
  /\ events = << >>

(* handleSkip "keeps Lavalink in sync with the next playback state"        *)
(* (main.go:370), and so do /play, /stop, /leave and the track-end         *)
(* handler, unless handlers overlap or a stale track end arrives.          *)
PlaybackInSync == Quiet => lava.track = player.current

(* The bot knows where it is: the player, the voice store and Discord name *)
(* the same channel.                                                       *)
VoiceInSync ==
  Quiet =>
    player.voiceChannelID = botChannel /\ store.channelID = botChannel

(* The bot does not stay where no member is: the last one to go makes it   *)
(* leave (main.go:584-610), unless a moderator put it there.               *)
NotAlone ==
  Quiet /\ (\A a \in Admins : pc[a] = "new") =>
    player.voiceChannelID = None \/ Humans(player.voiceChannelID) # {}
==============================================================================

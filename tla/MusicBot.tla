------------------------------ MODULE MusicBot -------------------------------
(***************************************************************************)
(* cmd/bot/main.go for one guild: every slash command, Discord voice event *)
(* and Lavalink event runs in a goroutine of its own, and they share the   *)
(* guild's player (Player), its voice state (VoiceState) and the set of    *)
(* guilds being left.  Everything the bot keeps is keyed by guild, so one  *)
(* guild is the whole system as far as its handlers can tell.              *)
(*                                                                         *)
(* A step of a goroutine is one critical section, one read of Discord's    *)
(* cache, one gateway send or one Lavalink request.  Between two steps any *)
(* other goroutine may run.                                                *)
(***************************************************************************)
EXTENDS Player, VoiceState

CONSTANTS
  Skips, Stops, Leaves,   \* requests for the other commands (a /play is its Track)
  Watchers,               \* handlers of other members' voice events
  Admins,                 \* a moderator moving or disconnecting the bot
  Reader,                 \* the goroutine of Lavalink's readLoop
  User,                   \* human members of the guild
  Faults,                 \* what may fail: "rest" (Lavalink), "gateway" (Discord)
  BotSession,             \* the voice session ID Discord gives the bot
  VoiceToken,             \* the token of its voice server; which one is not told apart
  VoiceEndpoint           \* the endpoint it comes with

Proc == Track \cup Skips \cup Stops \cup Leaves \cup Watchers \cup Admins \cup {Reader}

ASSUME BotAssumption ==
  /\ Faults \subseteq {"rest", "gateway"}
  /\ BotSession \in Session
  /\ VoiceToken \in Token
  /\ VoiceEndpoint \in Endpoint

ASSUME ProcAssumption ==
  /\ Reader \notin Track \cup Skips \cup Stops \cup Leaves \cup Watchers \cup Admins
  /\ Track \cap (Skips \cup Stops \cup Leaves \cup Watchers \cup Admins) = {}
  /\ Skips \cap (Stops \cup Leaves \cup Watchers \cup Admins) = {}
  /\ Stops \cap (Leaves \cup Watchers \cup Admins) = {}
  /\ Leaves \cap (Watchers \cup Admins) = {}
  /\ Watchers \cap Admins = {}

VARIABLES
  player,       \* b.players, the guild's entry
  store,        \* b.voiceState, the guild's entry
  leaving,      \* the guild is in b.leavingGuild
  pc,           \* where each goroutine is
  chan,         \* its channelID, or the channel of its snapshot
  next,         \* the track it is about to send
  handed,       \* the voice state WaitForFullState returned to it
  moved,        \* the voice event a watcher handles
  botChannel,   \* Discord: where the bot is
  userChannel,  \* Discord: where each member is
  voiceEvents,  \* Discord: events about the bot not handled yet
  voiceOps,     \* Discord: voice moves of the bot so far
  lava,         \* Lavalink: the guild's player
  events,       \* Lavalink: track ends sent but not handled yet
  sent          \* Lavalink: the tracks requested of it so far

local == <<player, store, leaving>>
frames == <<chan, next, handed, moved>>
discord == <<botChannel, userChannel, voiceEvents, voiceOps>>
lavalink == <<lava, events, sent>>
vars == <<local, pc, frames, discord, lavalink>>

NoPlayer == [track |-> None, voice |-> EmptyState]
NoMove == [before |-> None, after |-> None]

Label ==
  { "idle", "new", "done",
    "check", "ensure", "join", "await", "forward", "setChannel", "load", "send", "clear",
    "require", "advance", "halt", "stop",
    "watch", "count",
    "begin", "forget", "clearVoice", "destroy", "disconnect", "finish" }

VoiceEvent ==
  [ kind    : {"state", "channel", "server"},
    channel : Channel \cup {None},
    op      : Nat ]

TrackEnd == [track : Track, finished : BOOLEAN]

TypeOK ==
  /\ player \in GuildPlayer
  /\ store \in State
  /\ leaving \in BOOLEAN
  /\ pc \in [Proc -> Label]
  /\ chan \in [Proc -> Channel \cup {None}]
  /\ next \in [Proc -> Track \cup {None}]
  /\ handed \in [Track -> State]
  /\ moved \in [Watchers -> [before : Channel \cup {None}, after : Channel \cup {None}]]
  /\ botChannel \in Channel \cup {None}
  /\ userChannel \in [User -> Channel \cup {None}]
  /\ voiceEvents \in SUBSET VoiceEvent
  /\ voiceOps \in Nat
  /\ lava \in [track : Track \cup {None}, voice : State]
  /\ events \in Seq(TrackEnd)
  /\ sent \in Seq(Track)

Init ==
  /\ player = Unknown
  /\ store = EmptyState
  /\ leaving = FALSE
  /\ pc = [p \in Proc |-> IF p = Reader THEN "idle" ELSE "new"]
  /\ chan = [p \in Proc |-> None]
  /\ next = [p \in Proc |-> None]
  /\ handed = [t \in Track |-> EmptyState]
  /\ moved = [w \in Watchers |-> NoMove]
  /\ botChannel = None
  /\ userChannel \in [User -> Channel \cup {None}]
  /\ voiceEvents = {}
  /\ voiceOps = 0
  /\ lava = NoPlayer
  /\ events = << >>
  /\ sent = << >>

------------------------------------------------------------------------------
Goto(p, label) == pc' = [pc EXCEPT ![p] = label]

(* Discord moves the bot and reports it: the voice state whenever the      *)
(* channel changed, the voice server on a fresh connection, and either or  *)
(* both again, or neither, when there was nothing to change.               *)
Reports(ch) ==
  LET report(kind) == [kind |-> kind, channel |-> ch, op |-> voiceOps + 1]
      must == (IF ch # botChannel THEN {report("state")} ELSE {})
                \cup (IF ch # None /\ botChannel = None THEN {report("server")} ELSE {})
      may == IF ch = None THEN {} ELSE {report("state"), report("server")}
  IN {must \cup extra : extra \in SUBSET may}

DiscordMoves(ch) ==
  /\ botChannel' = ch
  /\ voiceOps' = voiceOps + 1
  /\ \E es \in Reports(ch) : voiceEvents' = voiceEvents \cup es
  /\ UNCHANGED userChannel

(* ChannelVoiceJoinManual sends one gateway frame; its error means the     *)
(* frame was not sent.                                                     *)
VoiceJoin(p, ch, sentLabel, failedLabel) ==
  \/ DiscordMoves(ch) /\ Goto(p, sentLabel)
  \/ "gateway" \in Faults /\ Goto(p, failedLabel) /\ UNCHANGED discord

(* Lavalink takes a player update: a track that is cut short is reported   *)
(* as ended, but not as finished.                                          *)
Becomes(player2) ==
  /\ lava' = player2
  /\ events' = IF lava.track \notin {None, player2.track}
               THEN Append(events, [track |-> lava.track, finished |-> FALSE])
               ELSE events

(* One request of the Lavalink client.  An error reaches the caller either *)
(* before the request had its effect or after (a timeout, a lost answer).  *)
Request(p, player2, okLabel, failedLabel) ==
  \/ Becomes(player2) /\ Goto(p, okLabel)
  \/ /\ "rest" \in Faults
     /\ Becomes(player2) \/ UNCHANGED <<lava, events>>
     /\ Goto(p, failedLabel)

------------------------------------------------------------------------------
(* Plausible slips in the actions below, to see which property notices     *)
(* each one.                                                               *)
AwaitTimeoutLate(t) ==
  /\ pc[t] = "await" /\ store # EmptyState
  /\ Goto(t, "done")
  /\ UNCHANGED <<local, frames, discord, lavalink>>

WatchArrivals(w) ==
  /\ pc[w] = "watch"
  /\ chan' = [chan EXCEPT ![w] = player.voiceChannelID]
  /\ Goto(w, IF player.voiceChannelID \in {moved[w].after} \ {None} THEN "count" ELSE "done")
  /\ UNCHANGED <<local, next, handed, moved, discord, lavalink>>

BeginLeaveUnchecked(p) ==
  /\ pc[p] = "begin"
  /\ leaving' = TRUE
  /\ Goto(p, "forget")
  /\ UNCHANGED <<player, store, frames, discord, lavalink>>

DestroyWithoutFinish(p) ==
  /\ pc[p] = "destroy"
  /\ Request(p, NoPlayer, "disconnect", "done")
  /\ UNCHANGED <<local, frames, discord, sent>>

AdvanceOnAnyEnd ==
  /\ pc[Reader] = "idle"
  /\ events # << >>
  /\ events' = Tail(events)
  /\ player' = Advance(player)
  /\ next' = [next EXCEPT ![Reader] = AdvanceNext(player)]
  /\ Goto(Reader, IF AdvanceNext(player) = None THEN "idle" ELSE "send")
  /\ UNCHANGED <<store, leaving, chan, handed, moved, discord, lava, sent>>

TrackEndUnchecked ==
  /\ pc[Reader] = "idle"
  /\ events # << >> /\ Head(events).finished
  /\ events' = Tail(events)
  /\ player' = Advance(player)
  /\ next' = [next EXCEPT ![Reader] = AdvanceNext(player)]
  /\ Goto(Reader, "send")
  /\ UNCHANGED <<store, leaving, chan, handed, moved, discord, lava, sent>>

------------------------------------------------------------------------------
(* /play.  The caller's channel is read before the snapshot.               *)
Locate(t) ==
  /\ pc[t] = "new"
  /\ \E u \in User :
       /\ chan' = [chan EXCEPT ![t] = userChannel[u]]
       /\ Goto(t, IF userChannel[u] = None THEN "done" ELSE "check")
  /\ UNCHANGED <<local, next, handed, moved, discord, lavalink>>

CheckActive(t) ==
  /\ pc[t] = "check"
  /\ Goto(t, IF player.voiceChannelID \in {None, chan[t]} THEN "ensure" ELSE "done")
  /\ UNCHANGED <<local, frames, discord, lavalink>>

(* ensureVoiceConnection takes a snapshot of its own.                      *)
Ensure(t) ==
  /\ pc[t] = "ensure"
  /\ Goto(t, IF player.voiceChannelID = None THEN "join" ELSE "await")
  /\ UNCHANGED <<local, frames, discord, lavalink>>

Join(t) ==
  /\ pc[t] = "join"
  /\ VoiceJoin(t, chan[t], "await", "done")
  /\ UNCHANGED <<local, frames, lavalink>>

(* WaitForFullState, as VoiceWait specifies it: a complete state, or the   *)
(* deadline of the handler's context.                                      *)
Await(t) ==
  /\ pc[t] = "await"
  /\ CompleteFor(store, chan[t])
  /\ handed' = [handed EXCEPT ![t] = store]
  /\ Goto(t, "forward")
  /\ UNCHANGED <<local, chan, next, moved, discord, lavalink>>

AwaitTimeout(t) ==
  /\ pc[t] = "await"
  /\ Goto(t, "done")
  /\ UNCHANGED <<local, frames, discord, lavalink>>

Forward(t) ==
  /\ pc[t] = "forward"
  /\ Request(t, [lava EXCEPT !.voice = handed[t]], "setChannel", "done")
  /\ UNCHANGED <<local, frames, discord, sent>>

SetChannel(t) ==
  /\ pc[t] = "setChannel"
  /\ player' = SetVoiceChannel(player, chan[t])
  /\ Goto(t, "load")
  /\ UNCHANGED <<store, leaving, frames, discord, lavalink>>

(* LoadTrack finds nothing, fails, or the track is enqueued.               *)
LoadFails(t) ==
  /\ pc[t] = "load"
  /\ Goto(t, "done")
  /\ UNCHANGED <<local, frames, discord, lavalink>>

LoadAndEnqueue(t) ==
  /\ pc[t] = "load"
  /\ player' = Enqueue(player, chan[t], t)
  /\ \/ EnqueueStarts(player) /\ next' = [next EXCEPT ![t] = t] /\ Goto(t, "send")
     \/ ~EnqueueStarts(player) /\ UNCHANGED next /\ Goto(t, "done")
  /\ UNCHANGED <<store, leaving, chan, handed, moved, discord, lavalink>>

(* PlayTrack, for whoever took the track: only /play undoes its own state  *)
(* when the request fails.                                                 *)
Send(p) ==
  /\ pc[p] = "send"
  /\ LET over == IF p = Reader THEN "idle" ELSE "done" IN
       Request(p, [lava EXCEPT !.track = next[p]], over, IF p \in Track THEN "clear" ELSE over)
  /\ sent' = Append(sent, next[p])
  /\ next' = [next EXCEPT ![p] = None]
  /\ UNCHANGED <<local, chan, handed, moved, discord>>

ClearAfterFailure(t) ==
  /\ pc[t] = "clear"
  /\ player' = ClearCurrent(player)
  /\ Goto(t, "done")
  /\ UNCHANGED <<store, leaving, frames, discord, lavalink>>

------------------------------------------------------------------------------
(* /skip, /stop and /leave look at a snapshot first ...                    *)
Snapshot(p, worthwhile) ==
  /\ pc[p] = "new"
  /\ chan' = [chan EXCEPT ![p] = player.voiceChannelID]
  /\ Goto(p, IF worthwhile THEN "require" ELSE "done")
  /\ UNCHANGED <<local, next, handed, moved, discord, lavalink>>

SkipSnapshot(s) == Snapshot(s, player.current # None)

StopSnapshot(s) == Snapshot(s, player.current # None \/ player.queue # << >>)

LeaveSnapshot(l) == Snapshot(l, player.voiceChannelID # None)

(* ... and then require the caller to be in the channel it names, or in    *)
(* any channel when it names none.                                         *)
RequireInChannel(p, granted) ==
  /\ pc[p] = "require"
  /\ \E u \in User :
       Goto(p, IF userChannel[u] # None /\ chan[p] \in {None, userChannel[u]}
               THEN granted ELSE "done")
  /\ UNCHANGED <<local, frames, discord, lavalink>>

SkipAdvance(s) ==
  /\ pc[s] = "advance"
  /\ player' = Advance(player)
  /\ next' = [next EXCEPT ![s] = AdvanceNext(player)]
  /\ Goto(s, IF AdvanceNext(player) = None THEN "halt" ELSE "send")
  /\ UNCHANGED <<store, leaving, chan, handed, moved, discord, lavalink>>

StopPlayer(s) ==
  /\ pc[s] = "stop"
  /\ player' = Stop(player)
  /\ Goto(s, IF player.known THEN "halt" ELSE "done")
  /\ UNCHANGED <<store, leaving, frames, discord, lavalink>>

(* StopTrack.                                                              *)
Halt(p) ==
  /\ pc[p] = "halt"
  /\ Request(p, [lava EXCEPT !.track = None], "done", "done")
  /\ UNCHANGED <<local, frames, discord, sent>>

------------------------------------------------------------------------------
(* A member joins, moves, leaves, or stays and mutes; the watcher is the    *)
(* handler of that event.  Discord's cache is up to date before it runs.   *)
MemberMoves(w, u, ch) ==
  /\ pc[w] = "new"
  /\ {userChannel[u], ch} # {None}
  /\ moved' = [moved EXCEPT ![w] = [before |-> userChannel[u], after |-> ch]]
  /\ userChannel' = [userChannel EXCEPT ![u] = ch]
  /\ Goto(w, "watch")
  /\ UNCHANGED <<local, chan, next, handed, botChannel, voiceEvents, voiceOps, lavalink>>

(* maybeAutoLeaveEmptyChannel.                                             *)
Watch(w) ==
  /\ pc[w] = "watch"
  /\ chan' = [chan EXCEPT ![w] = player.voiceChannelID]
  /\ Goto(w, IF player.voiceChannelID \in {moved[w].before, moved[w].after} \ {None}
             THEN "count" ELSE "done")
  /\ UNCHANGED <<local, next, handed, moved, discord, lavalink>>

Humans(ch) == {u \in User : userChannel[u] = ch}

(* discordgo may not have the guild at hand; then nobody leaves.           *)
Count(w) ==
  /\ pc[w] = "count"
  /\ \/ Goto(w, IF Humans(chan[w]) = {} THEN "begin" ELSE "done")
     \/ "gateway" \in Faults /\ Goto(w, "done")
  /\ UNCHANGED <<local, frames, discord, lavalink>>

(* leaveGuildVoice: whoever finds a leave in progress returns at once.     *)
BeginLeave(p) ==
  /\ pc[p] = "begin"
  /\ leaving' = TRUE
  /\ Goto(p, IF leaving THEN "done" ELSE "forget")
  /\ UNCHANGED <<player, store, frames, discord, lavalink>>

LeavePlayer(p) ==
  /\ pc[p] = "forget"
  /\ player' = Leave(player)
  /\ Goto(p, "clearVoice")
  /\ UNCHANGED <<store, leaving, frames, discord, lavalink>>

ClearVoice(p) ==
  /\ pc[p] = "clearVoice"
  /\ store' = EmptyState
  /\ Goto(p, "destroy")
  /\ UNCHANGED <<player, leaving, frames, discord, lavalink>>

Destroy(p) ==
  /\ pc[p] = "destroy"
  /\ Request(p, NoPlayer, "disconnect", "finish")
  /\ UNCHANGED <<local, frames, discord, sent>>

Disconnect(p) ==
  /\ pc[p] = "disconnect"
  /\ VoiceJoin(p, None, "finish", "finish")
  /\ UNCHANGED <<local, frames, lavalink>>

FinishLeave(p) ==
  /\ pc[p] = "finish"
  /\ leaving' = FALSE
  /\ Goto(p, "done")
  /\ UNCHANGED <<player, store, frames, discord, lavalink>>

------------------------------------------------------------------------------
(* onVoiceStateUpdate for the bot itself writes the store and then the     *)
(* player; the event stays pending, as "channel", between the two.  Every  *)
(* event has a goroutine, so pending events are handled in any order.      *)
HandleVoiceState(e) ==
  /\ e.kind = "state"
  /\ store' = IF e.channel = None THEN EmptyState
              ELSE WithVoiceState(store, BotSession, e.channel)
  /\ voiceEvents' = (voiceEvents \ {e}) \cup {[e EXCEPT !.kind = "channel"]}
  /\ UNCHANGED <<player, leaving, pc, frames, botChannel, userChannel, voiceOps, lavalink>>

HandleVoiceChannel(e) ==
  /\ e.kind = "channel"
  /\ player' = SetVoiceChannel(player, e.channel)
  /\ voiceEvents' = voiceEvents \ {e}
  /\ UNCHANGED <<store, leaving, pc, frames, botChannel, userChannel, voiceOps, lavalink>>

HandleVoiceServer(e) ==
  /\ e.kind = "server"
  /\ store' = WithVoiceServer(store, VoiceToken, VoiceEndpoint)
  /\ voiceEvents' = voiceEvents \ {e}
  /\ UNCHANGED <<player, leaving, pc, frames, botChannel, userChannel, voiceOps, lavalink>>

(* onLavalinkEvent runs inside readLoop: one event at a time, in order.    *)
HandleTrackEnd ==
  /\ pc[Reader] = "idle"
  /\ events # << >> /\ Head(events).finished
  /\ events' = Tail(events)
  /\ player' = Advance(player)
  /\ next' = [next EXCEPT ![Reader] = AdvanceNext(player)]
  /\ Goto(Reader, IF AdvanceNext(player) = None THEN "idle" ELSE "send")
  /\ UNCHANGED <<store, leaving, chan, handed, moved, discord, lava, sent>>

IgnoreTrackEnd ==
  /\ pc[Reader] = "idle"
  /\ events # << >> /\ ~Head(events).finished
  /\ events' = Tail(events)
  /\ UNCHANGED <<local, pc, frames, discord, lava, sent>>

------------------------------------------------------------------------------
(* Outside the bot: a track plays to its end or cannot be loaded, and a    *)
(* moderator moves the bot or throws it out.                               *)
TrackEnds ==
  /\ lava.track # None
  /\ lava' = [lava EXCEPT !.track = None]
  /\ events' = Append(events, [track |-> lava.track, finished |-> TRUE])
  /\ UNCHANGED <<local, pc, frames, discord, sent>>

ModeratorMoves(a, ch) ==
  /\ pc[a] = "new"
  /\ botChannel \notin {None, ch}
  /\ DiscordMoves(ch)
  /\ Goto(a, "done")
  /\ UNCHANGED <<local, frames, lavalink>>

------------------------------------------------------------------------------
Play(t) ==
  \/ Locate(t) \/ CheckActive(t) \/ Ensure(t) \/ Join(t) \/ Await(t) \/ AwaitTimeout(t)
  \/ Forward(t) \/ SetChannel(t) \/ LoadFails(t) \/ LoadAndEnqueue(t)
  \/ Send(t) \/ ClearAfterFailure(t)

Skip(s) == SkipSnapshot(s) \/ RequireInChannel(s, "advance") \/ SkipAdvance(s) \/ Send(s) \/ Halt(s)

StopAll(s) == StopSnapshot(s) \/ RequireInChannel(s, "stop") \/ StopPlayer(s) \/ Halt(s)

LeaveGuildVoice(p) ==
  BeginLeave(p) \/ LeavePlayer(p) \/ ClearVoice(p) \/ Destroy(p) \/ Disconnect(p) \/ FinishLeave(p)

LeaveCommand(l) == LeaveSnapshot(l) \/ RequireInChannel(l, "begin") \/ LeaveGuildVoice(l)

AutoLeave(w) == Watch(w) \/ Count(w) \/ LeaveGuildVoice(w)

Read == HandleTrackEnd \/ IgnoreTrackEnd \/ Send(Reader)

HandleVoiceEvent(e) == HandleVoiceState(e) \/ HandleVoiceChannel(e) \/ HandleVoiceServer(e)

Next ==
  \/ \E t \in Track : Play(t)
  \/ \E s \in Skips : Skip(s)
  \/ \E s \in Stops : StopAll(s)
  \/ \E l \in Leaves : LeaveCommand(l)
  \/ \E w \in Watchers : AutoLeave(w)
  \/ \E w \in Watchers, u \in User, ch \in Channel \cup {None} : MemberMoves(w, u, ch)
  \/ \E e \in voiceEvents : HandleVoiceEvent(e)
  \/ Read
  \/ TrackEnds
  \/ \E a \in Admins, ch \in Channel \cup {None} : ModeratorMoves(a, ch)

Safety == Init /\ [][Next]_vars

(* A goroutine that has begun runs on: its requests are answered or time   *)
(* out (context.WithTimeout, 10 s).  Nobody has to issue a command.        *)
Began(p) == pc[p] # "new"

Fairness ==
  /\ \A t \in Track : WF_vars(Began(t) /\ Play(t))
  /\ \A s \in Skips : WF_vars(Began(s) /\ Skip(s))
  /\ \A s \in Stops : WF_vars(Began(s) /\ StopAll(s))
  /\ \A l \in Leaves : WF_vars(Began(l) /\ LeaveCommand(l))
  /\ \A w \in Watchers : WF_vars(Began(w) /\ AutoLeave(w))
  /\ WF_vars(Read)

Spec == Safety /\ Fairness

(* Tracks are finite: what Lavalink plays comes to its end.                *)
SpecTracksEnd == Spec /\ WF_vars(TrackEnds)

------------------------------------------------------------------------------
(* Two goroutines never tear the guild down at once, and the mark that     *)
(* stops a second one is up exactly while one does (main.go:632-649).      *)
LeaveSection == {"forget", "clearVoice", "destroy", "disconnect", "finish"}

LeaveExclusive ==
  /\ leaving <=> \E p \in Proc : pc[p] \in LeaveSection
  /\ \A p, q \in Proc : pc[p] \in LeaveSection /\ pc[q] \in LeaveSection => p = q

(* No track is requested of Lavalink twice, whichever of /play, /skip and  *)
(* the track-end handler takes it from the player and however they race    *)
(* (main.go:259, 351-353, 390): taking it and removing it are one step.    *)
SentAtMostOnce == \A i, j \in DOMAIN sent : sent[i] = sent[j] => i = j

(* A guild without a current track has nothing queued, so a new /play that *)
(* starts at once (manager.go:53) overtakes nobody.  A failed PlayTrack    *)
(* breaks this by design of ClearCurrent; hence the condition.             *)
IdleMeansEmpty == "rest" \notin Faults => (player.current = None => player.queue = << >>)

(* The player is a FIFO playlist to those who listen (manager.go:45): in   *)
(* whatever order handlers interleave, each step appends one new track,    *)
(* removes the first, drops everything or changes nothing.                 *)
Guild == INSTANCE Playlist WITH list <- Upcoming(player)

ImplementsPlaylist == Guild!Spec

(* The handlers of /play, /leave and members' events return, although a    *)
(* /play waits for events that may never come, and a leave for requests    *)
(* that may fail (main.go:335, 571, 600).                                  *)
HandlersReturn ==
  \A p \in Track \cup Leaves \cup Watchers : pc[p] # "new" ~> pc[p] = "done"

(* A leave in progress ends, however it fails: otherwise every later leave *)
(* of the guild would be refused in silence (main.go:613-616).             *)
LeavingEnds == leaving ~> ~leaving

(* What is queued gets played: the chain of track ends never stalls.       *)
QueueDrains ==
  \A t \in Track :
    (\E i \in DOMAIN player.queue : player.queue[i] = t) ~> (\E i \in DOMAIN sent : sent[i] = t)
==============================================================================

--------------------------- MODULE MusicBotProofs ----------------------------
(***************************************************************************)
(* MusicBot for any number of commands, members, channels and tracks, and  *)
(* with any of the faults.                                                 *)
(***************************************************************************)
EXTENDS MusicBot, TLAPS

LavaPlayer == [track : Track \cup {None}, voice : State]

(* A goroutine about to request a track has one: the code dereferences the *)
(* pointer (main.go:267, 401).  TypeOK needs it for "sent".                *)
SendHasTrack == \A p \in Proc : pc[p] = "send" => next[p] \in Track

TypeInv == TypeOK /\ SendHasTrack

------------------------------------------------------------------------------
(* The operations of Manager and of the voice state return well-formed     *)
(* values, and Advance returns a track exactly when one was queued.        *)
LEMMA PlayerOperations ==
  ASSUME NEW gp \in GuildPlayer
  PROVE  /\ Advance(gp) \in GuildPlayer
         /\ AdvanceNext(gp) \in Track \cup {None}
         /\ Stop(gp) \in GuildPlayer
         /\ Leave(gp) \in GuildPlayer
         /\ ClearCurrent(gp) \in GuildPlayer
         /\ \A ch \in Channel \cup {None} : SetVoiceChannel(gp, ch) \in GuildPlayer
         /\ \A ch \in Channel \cup {None}, t \in Track : Enqueue(gp, ch, t) \in GuildPlayer
<1>1. << >> \in Seq(Track) /\ gp.queue \in Seq(Track)
  BY DEF GuildPlayer
<1>2. ClearCurrent(gp) \in GuildPlayer /\ Stop(gp) \in GuildPlayer /\ Leave(gp) \in GuildPlayer
  BY <1>1 DEF GuildPlayer, ClearCurrent, Stop, Leave, Unknown
<1>3. ASSUME NEW ch \in Channel \cup {None}
      PROVE  SetVoiceChannel(gp, ch) \in GuildPlayer
  BY DEF GuildPlayer, SetVoiceChannel
<1>4. ASSUME NEW ch \in Channel \cup {None}, NEW t \in Track
      PROVE  Enqueue(gp, ch, t) \in GuildPlayer
  <2>1. Append(gp.queue, t) \in Seq(Track)
    BY <1>1
  <2> QED
    BY <2>1 DEF GuildPlayer, Enqueue, EnqueueStarts
<1>5. gp.queue # << >> => Head(gp.queue) \in Track /\ Tail(gp.queue) \in Seq(Track)
  BY DEF GuildPlayer
<1>6. Advance(gp) \in GuildPlayer /\ AdvanceNext(gp) \in Track \cup {None}
  BY <1>5 DEF GuildPlayer, Advance, AdvanceNext
<1> QED
  BY <1>2, <1>3, <1>4, <1>6

LEMMA VoiceOperations ==
  ASSUME NEW s \in State, NEW ch \in Channel
  PROVE  /\ EmptyState \in State
         /\ WithVoiceState(s, BotSession, ch) \in State
         /\ WithVoiceServer(s, VoiceToken, VoiceEndpoint) \in State
BY BotAssumption DEF State, EmptyState, WithVoiceState, WithVoiceServer

LEMMA Members ==
  /\ Track \subseteq Proc /\ Skips \subseteq Proc /\ Stops \subseteq Proc
  /\ Leaves \subseteq Proc /\ Watchers \subseteq Proc /\ Admins \subseteq Proc
  /\ Reader \in Proc
BY DEF Proc

------------------------------------------------------------------------------
(* What the shared parts of the actions do to the types.                   *)
LEMMA GotoType ==
  ASSUME TypeInv, NEW p \in Proc, NEW l \in Label, Goto(p, l),
         next' = next, l # "send"
  PROVE  pc' \in [Proc -> Label] /\ SendHasTrack'
BY DEF TypeInv, TypeOK, SendHasTrack, Goto

LEMMA DiscordMovesType ==
  ASSUME TypeInv, NEW ch \in Channel \cup {None}, DiscordMoves(ch)
  PROVE  /\ botChannel' \in Channel \cup {None}
         /\ userChannel' \in [User -> Channel \cup {None}]
         /\ voiceEvents' \in SUBSET VoiceEvent
         /\ voiceOps' \in Nat
<1>1. voiceOps + 1 \in Nat
  BY DEF TypeInv, TypeOK
<1>2. \A es \in Reports(ch) : es \subseteq VoiceEvent
  BY <1>1 DEF Reports, VoiceEvent
<1> QED
  BY <1>1, <1>2 DEF TypeInv, TypeOK, DiscordMoves

LEMMA VoiceJoinType ==
  ASSUME TypeInv, NEW p \in Proc, NEW ch \in Channel \cup {None},
         NEW l1 \in Label \ {"send"}, NEW l2 \in Label \ {"send"},
         VoiceJoin(p, ch, l1, l2), UNCHANGED <<local, frames, lavalink>>
  PROVE  TypeInv'
<1>1. pc' \in [Proc -> Label] /\ SendHasTrack'
  <2>1. next' = next
    BY DEF frames
  <2>2. PICK l \in {l1, l2} : Goto(p, l)
    BY DEF VoiceJoin
  <2> QED
    BY <2>1, <2>2, GotoType
<1>2. /\ botChannel' \in Channel \cup {None}
      /\ userChannel' \in [User -> Channel \cup {None}]
      /\ voiceEvents' \in SUBSET VoiceEvent
      /\ voiceOps' \in Nat
  <2>1. CASE DiscordMoves(ch)
    BY <2>1, DiscordMovesType
  <2>2. CASE UNCHANGED discord
    BY <2>2 DEF TypeInv, TypeOK, discord
  <2> QED
    BY <2>1, <2>2 DEF VoiceJoin
<1> QED
  BY <1>1, <1>2 DEF TypeInv, TypeOK, local, frames, lavalink

LEMMA BecomesType ==
  ASSUME TypeInv, NEW player2 \in LavaPlayer, Becomes(player2) \/ UNCHANGED <<lava, events>>
  PROVE  lava' \in LavaPlayer /\ events' \in Seq(TrackEnd)
<1>1. lava \in LavaPlayer /\ events \in Seq(TrackEnd)
  BY DEF TypeInv, TypeOK, LavaPlayer
<1>2. lava.track # None =>
        Append(events, [track |-> lava.track, finished |-> FALSE]) \in Seq(TrackEnd)
  <2> SUFFICES ASSUME lava.track # None
               PROVE  Append(events, [track |-> lava.track, finished |-> FALSE]) \in Seq(TrackEnd)
    OBVIOUS
  <2>1. [track |-> lava.track, finished |-> FALSE] \in TrackEnd
    BY <1>1 DEF LavaPlayer, TrackEnd
  <2> QED
    BY <1>1, <2>1
<1> QED
  BY <1>1, <1>2 DEF Becomes

(* Requests that do not name a track.                                      *)
LEMMA RequestType ==
  ASSUME TypeInv, NEW p \in Proc, NEW player2 \in LavaPlayer,
         NEW l1 \in Label \ {"send"}, NEW l2 \in Label \ {"send"},
         Request(p, player2, l1, l2), UNCHANGED <<local, frames, discord, sent>>
  PROVE  TypeInv'
<1>1. pc' \in [Proc -> Label] /\ SendHasTrack'
  <2>1. next' = next
    BY DEF frames
  <2>2. PICK l \in {l1, l2} : Goto(p, l)
    BY DEF Request
  <2> QED
    BY <2>1, <2>2, GotoType
<1>2. lava' \in LavaPlayer /\ events' \in Seq(TrackEnd)
  BY BecomesType DEF Request
<1> QED
  BY <1>1, <1>2 DEF TypeInv, TypeOK, LavaPlayer, local, frames, discord

(* A step of one goroutine that leaves Discord and Lavalink alone, is not  *)
(* about to send, and writes well-formed values to what it does change.    *)
LEMMA LocalType ==
  ASSUME TypeInv, NEW p \in Proc, NEW l \in Label \ {"send"}, Goto(p, l),
         player' \in GuildPlayer, store' \in State, leaving' \in BOOLEAN,
         chan' \in [Proc -> Channel \cup {None}], handed' \in [Track -> State],
         UNCHANGED <<next, moved, discord, lavalink>>
  PROVE  TypeInv'
<1>1. pc' \in [Proc -> Label] /\ SendHasTrack'
  BY GotoType
<1> QED
  BY <1>1 DEF TypeInv, TypeOK, discord, lavalink

LEMMA SendType ==
  ASSUME TypeInv, NEW p \in Proc, Send(p)
  PROVE  TypeInv'
<1>1. next[p] \in Track
  BY DEF Send, TypeInv, SendHasTrack
<1>2. [lava EXCEPT !.track = next[p]] \in LavaPlayer
  BY <1>1 DEF TypeInv, TypeOK, LavaPlayer
<1>3. lava' \in LavaPlayer /\ events' \in Seq(TrackEnd)
  BY <1>2, BecomesType DEF Send, Request
<1>4. PICK l \in {"idle", "done", "clear"} : Goto(p, l)
  BY DEF Send, Request
<1>5. pc' \in [Proc -> Label] /\ SendHasTrack'
  BY <1>4 DEF Send, Goto, Label, TypeInv, TypeOK, SendHasTrack
<1>6. sent' \in Seq(Track) /\ next' \in [Proc -> Track \cup {None}]
  BY <1>1 DEF Send, TypeInv, TypeOK
<1> QED
  BY <1>3, <1>5, <1>6 DEF Send, TypeInv, TypeOK, LavaPlayer, local, discord

LEMMA PlayType ==
  ASSUME TypeInv, NEW t \in Track, Play(t)
  PROVE  TypeInv'
<1> USE Members
<1>1. CASE Locate(t)
  <2>1. PICK u \in User :
          /\ chan' = [chan EXCEPT ![t] = userChannel[u]]
          /\ Goto(t, IF userChannel[u] = None THEN "done" ELSE "check")
    BY <1>1 DEF Locate
  <2>2. chan' \in [Proc -> Channel \cup {None}]
    BY <2>1 DEF TypeInv, TypeOK
  <2> QED
    BY <1>1, <2>1, <2>2, LocalType DEF Locate, Label, TypeInv, TypeOK, local
<1>2. CASE CheckActive(t) \/ Ensure(t) \/ AwaitTimeout(t) \/ LoadFails(t)
  <2>1. \E l \in Label \ {"send"} : Goto(t, l)
    BY <1>2 DEF CheckActive, Ensure, AwaitTimeout, LoadFails, Label
  <2> QED
    BY <1>2, <2>1, LocalType
    DEF CheckActive, Ensure, AwaitTimeout, LoadFails, TypeInv, TypeOK, local, frames
<1>3. CASE Join(t)
  <2>1. chan[t] \in Channel \cup {None}
    BY DEF TypeInv, TypeOK
  <2> QED
    BY <1>3, <2>1, VoiceJoinType DEF Join, Label, discord, lavalink
<1>4. CASE Await(t)
  <2>1. handed' \in [Track -> State]
    BY <1>4 DEF Await, TypeInv, TypeOK
  <2> QED
    BY <1>4, <2>1, LocalType DEF Await, Label, TypeInv, TypeOK, local
<1>5. CASE Forward(t)
  <2>1. [lava EXCEPT !.voice = handed[t]] \in LavaPlayer
    BY DEF TypeInv, TypeOK, LavaPlayer
  <2> QED
    BY <1>5, <2>1, RequestType DEF Forward, Label
<1>6. CASE SetChannel(t)
  <2>1. player' \in GuildPlayer
    BY <1>6, PlayerOperations DEF SetChannel, TypeInv, TypeOK
  <2> QED
    BY <1>6, <2>1, LocalType DEF SetChannel, Label, TypeInv, TypeOK, frames
<1>7. CASE LoadAndEnqueue(t)
  <2>1. player' \in GuildPlayer
    BY <1>7, PlayerOperations DEF LoadAndEnqueue, TypeInv, TypeOK
  <2>2. next' \in [Proc -> Track \cup {None}]
    BY <1>7 DEF LoadAndEnqueue, TypeInv, TypeOK
  <2>3. pc' \in [Proc -> Label] /\ SendHasTrack'
    BY <1>7 DEF LoadAndEnqueue, Goto, Label, TypeInv, TypeOK, SendHasTrack
  <2> QED
    BY <1>7, <2>1, <2>2, <2>3 DEF LoadAndEnqueue, TypeInv, TypeOK, discord, lavalink
<1>8. CASE Send(t)
  BY <1>8, SendType
<1>9. CASE ClearAfterFailure(t)
  <2>1. player' \in GuildPlayer
    BY <1>9, PlayerOperations DEF ClearAfterFailure, TypeInv, TypeOK
  <2> QED
    BY <1>9, <2>1, LocalType DEF ClearAfterFailure, Label, TypeInv, TypeOK, frames
<1> QED
  BY <1>1, <1>2, <1>3, <1>4, <1>5, <1>6, <1>7, <1>8, <1>9 DEF Play

(* The first two steps that /skip, /stop and /leave have in common.        *)
LEMMA PreludeType ==
  ASSUME TypeInv, NEW p \in Proc,
         \/ \E b \in BOOLEAN : Snapshot(p, b)
         \/ \E l \in Label \ {"send"} : RequireInChannel(p, l)
  PROVE  TypeInv'
<1>1. ASSUME NEW b \in BOOLEAN, Snapshot(p, b)
      PROVE  TypeInv'
  <2>1. chan' \in [Proc -> Channel \cup {None}]
    BY <1>1 DEF Snapshot, TypeInv, TypeOK, GuildPlayer
  <2>2. \E l \in Label \ {"send"} : Goto(p, l)
    BY <1>1 DEF Snapshot, Label
  <2> QED
    BY <1>1, <2>1, <2>2, LocalType DEF Snapshot, TypeInv, TypeOK, local
<1>2. ASSUME NEW l \in Label \ {"send"}, RequireInChannel(p, l)
      PROVE  TypeInv'
  <2>1. \E l2 \in Label \ {"send"} : Goto(p, l2)
    BY <1>2 DEF RequireInChannel, Label
  <2> QED
    BY <1>2, <2>1, LocalType DEF RequireInChannel, TypeInv, TypeOK, local, frames
<1> QED
  BY <1>1, <1>2

LEMMA HaltType ==
  ASSUME TypeInv, NEW p \in Proc, Halt(p)
  PROVE  TypeInv'
<1>1. [lava EXCEPT !.track = None] \in LavaPlayer
  BY DEF TypeInv, TypeOK, LavaPlayer
<1> QED
  BY <1>1, RequestType DEF Halt, Label

LEMMA SkipType ==
  ASSUME TypeInv, NEW s \in Skips, Skip(s)
  PROVE  TypeInv'
<1> USE Members
<1>1. CASE SkipSnapshot(s) \/ RequireInChannel(s, "advance")
  BY <1>1, PreludeType DEF SkipSnapshot, Label
<1>2. CASE SkipAdvance(s)
  <2>1. player' \in GuildPlayer /\ AdvanceNext(player) \in Track \cup {None}
    BY <1>2, PlayerOperations DEF SkipAdvance, TypeInv, TypeOK
  <2>2. next' \in [Proc -> Track \cup {None}]
    BY <1>2, <2>1 DEF SkipAdvance, TypeInv, TypeOK
  <2>3. pc' \in [Proc -> Label] /\ SendHasTrack'
    BY <1>2, <2>1 DEF SkipAdvance, Goto, Label, TypeInv, TypeOK, SendHasTrack
  <2> QED
    BY <1>2, <2>1, <2>2, <2>3 DEF SkipAdvance, TypeInv, TypeOK, discord, lavalink
<1>3. CASE Send(s) \/ Halt(s)
  BY <1>3, SendType, HaltType
<1> QED
  BY <1>1, <1>2, <1>3 DEF Skip

LEMMA StopType ==
  ASSUME TypeInv, NEW s \in Stops, StopAll(s)
  PROVE  TypeInv'
<1> USE Members
<1>1. CASE StopSnapshot(s) \/ RequireInChannel(s, "stop")
  BY <1>1, PreludeType DEF StopSnapshot, Label
<1>2. CASE StopPlayer(s)
  <2>1. player' \in GuildPlayer
    BY <1>2, PlayerOperations DEF StopPlayer, TypeInv, TypeOK
  <2>2. \E l \in Label \ {"send"} : Goto(s, l)
    BY <1>2 DEF StopPlayer, Label
  <2> QED
    BY <1>2, <2>1, <2>2, LocalType DEF StopPlayer, TypeInv, TypeOK, frames
<1>3. CASE Halt(s)
  BY <1>3, HaltType
<1> QED
  BY <1>1, <1>2, <1>3 DEF StopAll

LEMMA LeaveGuildVoiceType ==
  ASSUME TypeInv, NEW p \in Proc, LeaveGuildVoice(p)
  PROVE  TypeInv'
<1>1. CASE BeginLeave(p) \/ FinishLeave(p)
  <2>1. \E l \in Label \ {"send"} : Goto(p, l)
    BY <1>1 DEF BeginLeave, FinishLeave, Label
  <2> QED
    BY <1>1, <2>1, LocalType DEF BeginLeave, FinishLeave, TypeInv, TypeOK, frames
<1>2. CASE LeavePlayer(p)
  <2>1. player' \in GuildPlayer
    BY <1>2, PlayerOperations DEF LeavePlayer, TypeInv, TypeOK
  <2> QED
    BY <1>2, <2>1, LocalType DEF LeavePlayer, Label, TypeInv, TypeOK, frames
<1>3. CASE ClearVoice(p)
  <2>1. store' \in State
    BY <1>3 DEF ClearVoice, State, EmptyState
  <2> QED
    BY <1>3, <2>1, LocalType DEF ClearVoice, Label, TypeInv, TypeOK, frames
<1>4. CASE Destroy(p)
  <2>1. NoPlayer \in LavaPlayer
    BY DEF NoPlayer, LavaPlayer, State, EmptyState
  <2> QED
    BY <1>4, <2>1, RequestType DEF Destroy, Label
<1>5. CASE Disconnect(p)
  BY <1>5, VoiceJoinType DEF Disconnect, Label
<1> QED
  BY <1>1, <1>2, <1>3, <1>4, <1>5 DEF LeaveGuildVoice

LEMMA LeaveCommandType ==
  ASSUME TypeInv, NEW l \in Leaves, LeaveCommand(l)
  PROVE  TypeInv'
<1>1. CASE LeaveSnapshot(l) \/ RequireInChannel(l, "begin")
  BY <1>1, PreludeType, Members DEF LeaveSnapshot, Label
<1> QED
  BY <1>1, LeaveGuildVoiceType, Members DEF LeaveCommand

LEMMA WatcherType ==
  ASSUME TypeInv, NEW w \in Watchers,
         \/ AutoLeave(w)
         \/ \E u \in User, ch \in Channel \cup {None} : MemberMoves(w, u, ch)
  PROVE  TypeInv'
<1> USE Members
<1>1. CASE Watch(w)
  <2>1. chan' \in [Proc -> Channel \cup {None}]
    BY <1>1 DEF Watch, TypeInv, TypeOK, GuildPlayer
  <2>2. \E l \in Label \ {"send"} : Goto(w, l)
    BY <1>1 DEF Watch, Label
  <2> QED
    BY <1>1, <2>1, <2>2, LocalType DEF Watch, TypeInv, TypeOK, local
<1>2. CASE Count(w)
  <2>1. \E l \in Label \ {"send"} : Goto(w, l)
    BY <1>2 DEF Count, Label
  <2> QED
    BY <1>2, <2>1, LocalType DEF Count, TypeInv, TypeOK, local, frames
<1>3. ASSUME NEW u \in User, NEW ch \in Channel \cup {None}, MemberMoves(w, u, ch)
      PROVE  TypeInv'
  <2>1. pc' \in [Proc -> Label] /\ SendHasTrack'
    BY <1>3, GotoType DEF MemberMoves, Label
  <2>2. moved' \in [Watchers -> [before : Channel \cup {None}, after : Channel \cup {None}]]
    BY <1>3 DEF MemberMoves, TypeInv, TypeOK
  <2>3. userChannel' \in [User -> Channel \cup {None}]
    BY <1>3 DEF MemberMoves, TypeInv, TypeOK
  <2> QED
    BY <1>3, <2>1, <2>2, <2>3 DEF MemberMoves, TypeInv, TypeOK, local, lavalink
<1> QED
  BY <1>1, <1>2, <1>3, LeaveGuildVoiceType DEF AutoLeave

LEMMA VoiceEventType ==
  ASSUME TypeInv, NEW e \in voiceEvents, HandleVoiceEvent(e)
  PROVE  TypeInv'
<1>1. e \in VoiceEvent
  BY DEF TypeInv, TypeOK
<1>2. CASE HandleVoiceState(e)
  <2>1. store' \in State
    <3>1. CASE e.channel = None
      BY <1>2, <3>1 DEF HandleVoiceState, State, EmptyState
    <3>2. CASE e.channel # None
      BY <1>1, <1>2, <3>2, VoiceOperations DEF HandleVoiceState, VoiceEvent, TypeInv, TypeOK
    <3> QED
      BY <3>1, <3>2
  <2>2. voiceEvents' \in SUBSET VoiceEvent
    BY <1>1, <1>2 DEF HandleVoiceState, VoiceEvent, TypeInv, TypeOK
  <2> QED
    BY <1>2, <2>1, <2>2
    DEF HandleVoiceState, TypeInv, TypeOK, SendHasTrack, frames, lavalink
<1>3. CASE HandleVoiceChannel(e)
  <2>1. player' \in GuildPlayer
    BY <1>1, <1>3, PlayerOperations DEF HandleVoiceChannel, VoiceEvent, TypeInv, TypeOK
  <2> QED
    BY <1>3, <2>1 DEF HandleVoiceChannel, TypeInv, TypeOK, SendHasTrack, frames, lavalink
<1>4. CASE HandleVoiceServer(e)
  <2>1. store' \in State
    BY <1>4, BotAssumption DEF HandleVoiceServer, WithVoiceServer, State, TypeInv, TypeOK
  <2> QED
    BY <1>4, <2>1 DEF HandleVoiceServer, TypeInv, TypeOK, SendHasTrack, frames, lavalink
<1> QED
  BY <1>2, <1>3, <1>4 DEF HandleVoiceEvent

LEMMA ReaderType ==
  ASSUME TypeInv, Read
  PROVE  TypeInv'
<1> USE Members
<1>1. CASE HandleTrackEnd
  <2>1. player' \in GuildPlayer /\ AdvanceNext(player) \in Track \cup {None}
    BY <1>1, PlayerOperations DEF HandleTrackEnd, TypeInv, TypeOK
  <2>2. next' \in [Proc -> Track \cup {None}]
    BY <1>1, <2>1 DEF HandleTrackEnd, TypeInv, TypeOK
  <2>3. pc' \in [Proc -> Label] /\ SendHasTrack'
    BY <1>1, <2>1 DEF HandleTrackEnd, Goto, Label, TypeInv, TypeOK, SendHasTrack
  <2>4. events' \in Seq(TrackEnd)
    BY <1>1 DEF HandleTrackEnd, TypeInv, TypeOK
  <2> QED
    BY <1>1, <2>1, <2>2, <2>3, <2>4 DEF HandleTrackEnd, TypeInv, TypeOK, discord
<1>2. CASE IgnoreTrackEnd
  <2>1. events' \in Seq(TrackEnd)
    BY <1>2 DEF IgnoreTrackEnd, TypeInv, TypeOK
  <2> QED
    BY <1>2, <2>1 DEF IgnoreTrackEnd, TypeInv, TypeOK, SendHasTrack, local, frames, discord
<1> QED
  BY <1>1, <1>2, SendType DEF Read

LEMMA OutsideType ==
  ASSUME TypeInv,
         TrackEnds \/ \E a \in Admins, ch \in Channel \cup {None} : ModeratorMoves(a, ch)
  PROVE  TypeInv'
<1>1. CASE TrackEnds
  <2>1. lava' \in LavaPlayer
    BY <1>1 DEF TrackEnds, LavaPlayer, TypeInv, TypeOK
  <2>2. [track |-> lava.track, finished |-> TRUE] \in TrackEnd
    BY <1>1 DEF TrackEnds, TrackEnd, TypeInv, TypeOK
  <2>3. events' \in Seq(TrackEnd)
    BY <1>1, <2>2 DEF TrackEnds, TypeInv, TypeOK
  <2> QED
    BY <1>1, <2>1, <2>3
    DEF TrackEnds, LavaPlayer, TypeInv, TypeOK, SendHasTrack, local, frames, discord
<1>2. ASSUME NEW a \in Admins, NEW ch \in Channel \cup {None}, ModeratorMoves(a, ch)
      PROVE  TypeInv'
  <2>1. VoiceJoin(a, ch, "done", "done")
    BY <1>2 DEF ModeratorMoves, VoiceJoin
  <2> QED
    BY <1>2, <2>1, VoiceJoinType, Members DEF ModeratorMoves, Label
<1> QED
  BY <1>1, <1>2

LEMMA TypeInit == Init => TypeInv
<1> SUFFICES ASSUME Init PROVE TypeInv
  OBVIOUS
<1>1. player \in GuildPlayer /\ store \in State /\ lava \in LavaPlayer
  <2>1. << >> \in Seq(Track)
    OBVIOUS
  <2> QED
    BY <2>1
    DEF Init, GuildPlayer, Unknown, State, EmptyState, LavaPlayer, NoPlayer
<1>2. handed \in [Track -> State]
  BY DEF Init, State, EmptyState
<1>3. events \in Seq(TrackEnd) /\ sent \in Seq(Track)
  BY DEF Init
<1>4. pc \in [Proc -> Label] /\ SendHasTrack
  BY DEF Init, Label, SendHasTrack
<1> QED
  BY <1>1, <1>2, <1>3, <1>4 DEF Init, TypeInv, TypeOK, NoMove, LavaPlayer

LEMMA TypeNext == TypeInv /\ [Next]_vars => TypeInv'
<1> SUFFICES ASSUME TypeInv, [Next]_vars PROVE TypeInv'
  OBVIOUS
<1>1. CASE UNCHANGED vars
  BY <1>1 DEF vars, local, frames, discord, lavalink, TypeInv, TypeOK, SendHasTrack
<1> QED
  BY <1>1, PlayType, SkipType, StopType, LeaveCommandType, WatcherType, VoiceEventType,
     ReaderType, OutsideType
  DEF Next

(* Every variable keeps its type.                                          *)
THEOREM BotTypeCorrect == Spec => []TypeOK
<1>1. TypeInv => TypeOK
  BY DEF TypeInv
<1> QED
  BY <1>1, TypeInit, TypeNext, PTL DEF Safety, Spec

------------------------------------------------------------------------------
(* Leaving.  A step that stays on its side of the leave section and does   *)
(* not touch the mark keeps the section exclusive.                         *)
LEMMA SameSide ==
  ASSUME TypeInv, LeaveExclusive, NEW p \in Proc, NEW l \in Label, Goto(p, l),
         leaving' = leaving, pc[p] \in LeaveSection <=> l \in LeaveSection
  PROVE  LeaveExclusive'
BY DEF TypeInv, TypeOK, LeaveExclusive, Goto

LEMMA SendOutside ==
  ASSUME NEW p \in Proc, Send(p)
  PROVE  \E l \in Label \ LeaveSection : Goto(p, l) /\ leaving' = leaving /\ pc[p] \notin LeaveSection
BY DEF Send, Request, Label, LeaveSection, local

LEMMA PlayOutside ==
  ASSUME NEW t \in Track, Play(t)
  PROVE  \E l \in Label \ LeaveSection : Goto(t, l) /\ leaving' = leaving /\ pc[t] \notin LeaveSection
<1>1. CASE Locate(t) \/ CheckActive(t) \/ Ensure(t)
  BY <1>1 DEF Locate, CheckActive, Ensure, Label, LeaveSection, local
<1>2. CASE Join(t) \/ Await(t) \/ AwaitTimeout(t)
  BY <1>2 DEF Join, VoiceJoin, Await, AwaitTimeout, Label, LeaveSection, local
<1>3. CASE Forward(t) \/ SetChannel(t) \/ LoadFails(t)
  BY <1>3 DEF Forward, Request, SetChannel, LoadFails, Label, LeaveSection, local
<1>4. CASE LoadAndEnqueue(t) \/ ClearAfterFailure(t)
  BY <1>4 DEF LoadAndEnqueue, ClearAfterFailure, Label, LeaveSection, local
<1> QED
  BY <1>1, <1>2, <1>3, <1>4, SendOutside, Members DEF Play

LEMMA PreludeOutside ==
  ASSUME NEW p \in Proc,
         \/ \E b \in BOOLEAN : Snapshot(p, b)
         \/ RequireInChannel(p, "advance") \/ RequireInChannel(p, "stop") \/ RequireInChannel(p, "begin")
         \/ Halt(p)
  PROVE  \E l \in Label \ LeaveSection : Goto(p, l) /\ leaving' = leaving /\ pc[p] \notin LeaveSection
<1>1. CASE \E b \in BOOLEAN : Snapshot(p, b)
  BY <1>1 DEF Snapshot, Label, LeaveSection, local
<1>2. CASE RequireInChannel(p, "advance") \/ RequireInChannel(p, "stop") \/ RequireInChannel(p, "begin")
  BY <1>2 DEF RequireInChannel, Label, LeaveSection, local
<1>3. CASE Halt(p)
  BY <1>3 DEF Halt, Request, Label, LeaveSection, local
<1> QED
  BY <1>1, <1>2, <1>3

LEMMA SkipOrStopOutside ==
  ASSUME NEW p \in Proc, Skip(p) \/ StopAll(p)
  PROVE  \E l \in Label \ LeaveSection : Goto(p, l) /\ leaving' = leaving /\ pc[p] \notin LeaveSection
<1>1. CASE SkipAdvance(p) \/ StopPlayer(p)
  BY <1>1 DEF SkipAdvance, StopPlayer, Label, LeaveSection, local
<1> QED
  BY <1>1, PreludeOutside, SendOutside DEF Skip, StopAll, SkipSnapshot, StopSnapshot

LEMMA LeaveStep ==
  ASSUME TypeInv, LeaveExclusive, NEW p \in Proc, LeaveGuildVoice(p)
  PROVE  LeaveExclusive'
<1>1. CASE BeginLeave(p)
  BY <1>1 DEF BeginLeave, Goto, LeaveSection, LeaveExclusive, TypeInv, TypeOK
<1>2. CASE LeavePlayer(p) \/ ClearVoice(p)
  BY <1>2, SameSide DEF LeavePlayer, ClearVoice, Label, LeaveSection
<1>3. CASE Destroy(p)
  BY <1>3, SameSide DEF Destroy, Request, Label, LeaveSection, local
<1>4. CASE Disconnect(p)
  BY <1>4, SameSide DEF Disconnect, VoiceJoin, Label, LeaveSection, local
<1>5. CASE FinishLeave(p)
  BY <1>5 DEF FinishLeave, Goto, LeaveSection, LeaveExclusive, TypeInv, TypeOK
<1> QED
  BY <1>1, <1>2, <1>3, <1>4, <1>5 DEF LeaveGuildVoice

LEMMA LeaveNext == TypeInv /\ LeaveExclusive /\ [Next]_vars => LeaveExclusive'
<1> SUFFICES ASSUME TypeInv, LeaveExclusive, [Next]_vars PROVE LeaveExclusive'
  OBVIOUS
<1> USE Members
<1>1. CASE \E t \in Track : Play(t)
  BY <1>1, PlayOutside, SameSide
<1>2. CASE (\E s \in Skips : Skip(s)) \/ (\E s \in Stops : StopAll(s))
  BY <1>2, SkipOrStopOutside, SameSide
<1>3. CASE \E l \in Leaves : LeaveCommand(l)
  BY <1>3, PreludeOutside, SameSide, LeaveStep DEF LeaveCommand, LeaveSnapshot
<1>4. CASE \E w \in Watchers : AutoLeave(w)
  <2>1. PICK w \in Watchers : AutoLeave(w)
    BY <1>4
  <2>2. CASE Watch(w) \/ Count(w)
    <3>1. \E l \in Label \ LeaveSection : Goto(w, l) /\ leaving' = leaving /\ pc[w] \notin LeaveSection
      BY <2>2 DEF Watch, Count, Label, LeaveSection, local
    <3> QED
      BY <3>1, SameSide
  <2> QED
    BY <2>1, <2>2, LeaveStep DEF AutoLeave
<1>5. CASE \E w \in Watchers, u \in User, ch \in Channel \cup {None} : MemberMoves(w, u, ch)
  BY <1>5, SameSide DEF MemberMoves, Label, LeaveSection, local
<1>6. CASE \E e \in voiceEvents : HandleVoiceEvent(e)
  BY <1>6
  DEF HandleVoiceEvent, HandleVoiceState, HandleVoiceChannel, HandleVoiceServer, LeaveExclusive
<1>7. CASE Read
  <2>1. CASE HandleTrackEnd
    <3>1. \E l \in Label \ LeaveSection :
            Goto(Reader, l) /\ leaving' = leaving /\ pc[Reader] \notin LeaveSection
      BY <2>1 DEF HandleTrackEnd, Label, LeaveSection
    <3> QED
      BY <3>1, SameSide
  <2>2. CASE IgnoreTrackEnd
    BY <2>2 DEF IgnoreTrackEnd, local, LeaveExclusive
  <2>3. CASE Send(Reader)
    BY <2>3, SendOutside, SameSide
  <2> QED
    BY <1>7, <2>1, <2>2, <2>3 DEF Read
<1>8. CASE TrackEnds
  BY <1>8 DEF TrackEnds, local, LeaveExclusive
<1>9. CASE \E a \in Admins, ch \in Channel \cup {None} : ModeratorMoves(a, ch)
  BY <1>9, SameSide DEF ModeratorMoves, Label, LeaveSection, local
<1>10. CASE UNCHANGED vars
  BY <1>10 DEF vars, local, LeaveExclusive
<1> QED
  BY <1>1, <1>2, <1>3, <1>4, <1>5, <1>6, <1>7, <1>8, <1>9, <1>10 DEF Next

(* However many commands and auto-leaves run at once, one goroutine at     *)
(* most is inside leaveGuildVoice past its guard, and the guild is marked  *)
(* as being left exactly while it is.                                      *)
THEOREM OneLeaveAtATime == Spec => []LeaveExclusive
<1>1. Init => LeaveExclusive
  BY DEF Init, LeaveExclusive, LeaveSection
<1> QED
  BY <1>1, TypeInit, TypeNext, LeaveNext, PTL DEF Safety, Spec
==============================================================================

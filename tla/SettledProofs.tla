---------------------------- MODULE SettledProofs ----------------------------
(***************************************************************************)
(* The three agreements of Settled, for any number of commands, members,   *)
(* tracks and channels: while handlers do not overlap, the bot's own state *)
(* is what Lavalink plays and where Discord has the bot, and somebody      *)
(* hears it.  Each proof names what may be in flight instead: the request, *)
(* the event or the handler that will restore the agreement.               *)
(***************************************************************************)
EXTENDS Settled, FifoProofs

(* The tracks whose end has been reported and not handled.                 *)
Finished(s) == {s[i].track : i \in {j \in DOMAIN s : s[j].finished}}

(* A missing player shows no channel and no track.                         *)
UnknownIsIdle == ~player.known => player.voiceChannelID = None /\ player.current = None

Calm == FifoInv /\ LeaveExclusive /\ UnknownIsIdle /\ ~Overlap

LEMMA CalmTypes ==
  ASSUME Calm
  PROVE  /\ player \in GuildPlayer /\ store \in State /\ lava \in LavaPlayer
         /\ pc \in [Proc -> Label]
         /\ chan \in [Proc -> Channel \cup {None}]
         /\ next \in [Proc -> Track \cup {None}]
         /\ moved \in [Watchers -> [before : Channel \cup {None}, after : Channel \cup {None}]]
         /\ botChannel \in Channel \cup {None}
         /\ userChannel \in [User -> Channel \cup {None}]
         /\ voiceEvents \in SUBSET VoiceEvent /\ voiceOps \in Nat
         /\ events \in Seq(TrackEnd) /\ sent \in Seq(Track)
BY DEF Calm, FifoInv, Inv, TypeInv, TypeOK, LavaPlayer

(* What handlers that do not overlap are spared, goroutine by goroutine.   *)
TellsAlone ==
  \A p, q \in Proc :
    pc[p] \in {"send", "clear", "halt"} /\ pc[q] \in {"send", "clear", "halt"} \cup LeaveSection
      => p = q

TearsAlone ==
  \A p, q \in Proc :
    pc[p] \in LeaveSection =>
      pc[q] \notin {"join", "await", "forward", "setChannel", "load", "send", "clear", "halt"}

WatchesAlone ==
  \A w, p \in Proc :
    pc[w] \in {"watch", "count"} => voiceEvents = {} /\ pc[p] \notin Pending \ {"new"}

Apart == TellsAlone /\ TearsAlone /\ WatchesAlone

LEMMA NoOverlap == ~Overlap => Apart
<1> USE DEF At, Deciding, Joining, Enqueueing, Telling, Tearing, Watching, Overlap
<1> SUFFICES ASSUME ~Overlap PROVE Apart
  OBVIOUS
<1>1. TearsAlone
  BY DEF TearsAlone
<1>2. TellsAlone
  BY DEF TellsAlone, LeaveSection
<1>3. WatchesAlone
  BY DEF WatchesAlone, Pending
<1> QED
  BY <1>1, <1>2, <1>3 DEF Apart

(* What the operations of Manager do to the fields of a player.            *)
LEMMA PlayerFields ==
  ASSUME NEW gp \in GuildPlayer
  PROVE  /\ Stop(gp).current = None
         /\ Stop(gp).known = gp.known /\ Stop(gp).voiceChannelID = gp.voiceChannelID
         /\ \A ch : SetVoiceChannel(gp, ch).current = gp.current
         /\ \A ch : SetVoiceChannel(gp, ch).known \/ SetVoiceChannel(gp, ch) = gp
         /\ \A ch : (~gp.known => gp.voiceChannelID = None) => SetVoiceChannel(gp, ch).voiceChannelID = ch
         /\ \A ch, t : /\ Enqueue(gp, ch, t).known
                       /\ Enqueue(gp, ch, t).voiceChannelID = ch
                       /\ Enqueue(gp, ch, t).current = IF EnqueueStarts(gp) THEN t ELSE gp.current
         /\ Advance(gp).voiceChannelID = gp.voiceChannelID /\ Advance(gp).known = gp.known
         /\ Advance(gp).current = AdvanceNext(gp)
BY DEF GuildPlayer, Stop, SetVoiceChannel, Enqueue, EnqueueStarts, Advance, AdvanceNext

(* Whoever steps, the player changes by one operation of Manager.          *)
PlayerStep ==
  \/ player' \in {player, Advance(player), Stop(player), Leave(player), ClearCurrent(player)}
  \/ \E ch \in Channel \cup {None} : player' = SetVoiceChannel(player, ch)
  \/ \E ch \in Channel \cup {None}, t \in Track : player' = Enqueue(player, ch, t)

LEMMA EveryPlayerStep ==
  ASSUME Calm, [Next]_vars
  PROVE  PlayerStep
<1>0. chan \in [Proc -> Channel \cup {None}] /\ voiceEvents \in SUBSET VoiceEvent
  BY CalmTypes
<1> USE DEF PlayerStep
<1>1. ASSUME NEW t \in Track, Play(t) PROVE PlayerStep
  <2>1. CASE SetChannel(t) \/ LoadAndEnqueue(t) \/ ClearAfterFailure(t)
    BY <1>0, <2>1, Members DEF SetChannel, LoadAndEnqueue, ClearAfterFailure
  <2>2. CASE ~SetChannel(t) /\ ~LoadAndEnqueue(t) /\ ~ClearAfterFailure(t)
    BY <1>1, <2>2
    DEF Play, Locate, CheckActive, Ensure, Join, Await, AwaitTimeout, Forward, LoadFails, Send, local
  <2> QED
    BY <2>1, <2>2
<1>2. ASSUME NEW p \in Proc, Skip(p) \/ StopAll(p) PROVE PlayerStep
  BY <1>2
  DEF Skip, StopAll, SkipSnapshot, StopSnapshot, Snapshot, RequireInChannel, SkipAdvance, StopPlayer,
      Send, Halt, local
<1>3. ASSUME NEW p \in Proc, LeaveCommand(p) \/ AutoLeave(p) PROVE PlayerStep
  BY <1>3
  DEF LeaveCommand, AutoLeave, LeaveSnapshot, Snapshot, RequireInChannel, Watch, Count, LeaveGuildVoice,
      BeginLeave, LeavePlayer, ClearVoice, Destroy, Disconnect, FinishLeave, local
<1>4. CASE \E w \in Watchers, u \in User, ch \in Channel \cup {None} : MemberMoves(w, u, ch)
  BY <1>4 DEF MemberMoves, local
<1>5. CASE \E e \in voiceEvents : HandleVoiceEvent(e)
  BY <1>0, <1>5
  DEF HandleVoiceEvent, HandleVoiceState, HandleVoiceChannel, HandleVoiceServer, VoiceEvent
<1>6. CASE Read \/ TrackEnds
  BY <1>6 DEF Read, HandleTrackEnd, IgnoreTrackEnd, Send, TrackEnds, local
<1>7. CASE \E a \in Admins, ch \in Channel \cup {None} : ModeratorMoves(a, ch)
  BY <1>7 DEF ModeratorMoves, local
<1>8. CASE UNCHANGED vars
  BY <1>8 DEF vars, local
<1> QED
  BY <1>1, <1>2, <1>3, <1>4, <1>5, <1>6, <1>7, <1>8, Members DEF Next

LEMMA UnknownStep ==
  ASSUME Calm, PlayerStep
  PROVE  UnknownIsIdle'
<1>1. player \in GuildPlayer /\ UnknownIsIdle
  BY CalmTypes DEF Calm
<1>2. CASE player' \in {player, Stop(player), Leave(player), ClearCurrent(player)}
  BY <1>1, <1>2, PlayerFields DEF UnknownIsIdle, Leave, Unknown, ClearCurrent, GuildPlayer
<1>3. CASE player' = Advance(player)
  BY <1>1, <1>3 DEF UnknownIsIdle, Advance
<1>4. CASE \E ch \in Channel \cup {None} : player' = SetVoiceChannel(player, ch)
  BY <1>1, <1>4, PlayerFields DEF UnknownIsIdle
<1>5. CASE \E ch \in Channel \cup {None}, t \in Track : player' = Enqueue(player, ch, t)
  BY <1>1, <1>5, PlayerFields DEF UnknownIsIdle
<1> QED
  BY <1>2, <1>3, <1>4, <1>5 DEF PlayerStep

LEMMA CalmInit == Init => Calm
<1> SUFFICES ASSUME Init PROVE Calm
  OBVIOUS
<1>1. LeaveExclusive /\ UnknownIsIdle
  BY DEF Init, LeaveExclusive, LeaveSection, UnknownIsIdle, Unknown
<1>2. ~Overlap
  BY DEF Init, Overlap, At, Deciding, Joining, Enqueueing, Telling, Tearing, Watching, LeaveSection
<1> QED
  BY <1>1, <1>2, FifoInit DEF Calm

LEMMA CalmNext == Calm /\ [Undisturbed]_vars => Calm'
<1> SUFFICES ASSUME Calm, [Undisturbed]_vars PROVE Calm'
  OBVIOUS
<1>1. [Next]_vars
  BY DEF Undisturbed
<1>2. FifoInv' /\ LeaveExclusive'
  BY <1>1, FifoNext, LeaveNext DEF Calm, FifoInv, Inv
<1>3. UnknownIsIdle'
  BY <1>1, EveryPlayerStep, UnknownStep
<1>4. ~Overlap'
  <2>1. CASE Undisturbed
    BY <2>1 DEF Undisturbed
  <2>2. CASE UNCHANGED vars
    BY <2>2
    DEF vars, discord, Calm, Overlap, At, Deciding, Joining, Enqueueing, Telling, Tearing, Watching
  <2> QED
    BY <2>1, <2>2
<1> QED
  BY <1>2, <1>3, <1>4 DEF Calm

LEMMA CalmApart == Calm => Apart
BY NoOverlap DEF Calm

LEMMA CalmApartNext == Calm' => Apart'
BY CalmApart, PTL

LEMMA CalmInvariant == SettledSpec => []Calm
BY CalmInit, CalmNext, PTL DEF SettledSpec

------------------------------------------------------------------------------
(* Lavalink ends only tracks it was asked for, and the one it plays has    *)
(* not ended.                                                              *)
EndedOnce ==
  /\ Finished(events) \subseteq Elems(sent) \ {lava.track}
  /\ lava.track \in Elems(sent) \cup {None}

(* What a handler is about to tell Lavalink is what the player says.       *)
StartsCurrent == \A p \in Proc : pc[p] = "send" => next[p] = player.current

Silencing == {"halt", "clearVoice", "destroy"}

SilencesNothing == \A p \in Proc : pc[p] \in Silencing => player.current = None

(* With nothing to tell, they agree, unless the track has just ended.      *)
AgreeOrEnded ==
  (\A p \in Proc : pc[p] \notin Silencing \cup {"send"}) =>
    \/ lava.track = player.current
    \/ lava.track = None /\ player.current \in Finished(events)

PlaybackInv == EndedOnce /\ StartsCurrent /\ SilencesNothing /\ AgreeOrEnded

LEMMA FinishedOfAppend ==
  ASSUME NEW s \in Seq(TrackEnd), NEW e \in TrackEnd
  PROVE  Finished(Append(s, e)) = Finished(s) \cup (IF e.finished THEN {e.track} ELSE {})
<1>1. /\ DOMAIN Append(s, e) = 1 .. Len(s) + 1 /\ DOMAIN s = 1 .. Len(s) /\ Len(s) \in Nat
      /\ \A i \in 1 .. Len(s) : Append(s, e)[i] = s[i]
      /\ Append(s, e)[Len(s) + 1] = e
  OBVIOUS
<1>2. /\ \A i \in 1 .. Len(s) + 1 : i \in 1 .. Len(s) \/ i = Len(s) + 1
      /\ Len(s) + 1 \in 1 .. Len(s) + 1 /\ 1 .. Len(s) \subseteq 1 .. Len(s) + 1
  BY <1>1
<1> QED
  BY <1>1, <1>2, Zenon DEF Finished

LEMMA FinishedOfTail ==
  ASSUME NEW s \in Seq(TrackEnd), s # << >>
  PROVE  /\ Finished(Tail(s)) \subseteq Finished(s)
         /\ Head(s) \in TrackEnd
         /\ Head(s).finished => Head(s).track \in Finished(s)
         /\ ~Head(s).finished => Finished(Tail(s)) = Finished(s)
<1>1. /\ DOMAIN s = 1 .. Len(s) /\ Len(s) \in Nat /\ Len(s) # 0 /\ Head(s) = s[1]
      /\ DOMAIN Tail(s) = 1 .. Len(s) - 1
      /\ \A i \in 1 .. Len(s) - 1 : Tail(s)[i] = s[i + 1]
      /\ \A i \in 1 .. Len(s) : s[i] \in TrackEnd
  OBVIOUS
<1>2. /\ 1 \in 1 .. Len(s)
      /\ \A i \in 1 .. Len(s) - 1 : i + 1 \in 1 .. Len(s)
      /\ \A i \in 1 .. Len(s) : i = 1 \/ (i - 1 \in 1 .. Len(s) - 1 /\ (i - 1) + 1 = i)
  BY <1>1
<1>3. Head(s) \in TrackEnd /\ (Head(s).finished => Head(s).track \in Finished(s))
  BY <1>1, <1>2, Zenon DEF Finished
<1>4. ASSUME NEW i \in 1 .. Len(s) - 1, Tail(s)[i].finished
      PROVE  Tail(s)[i].track \in Finished(s)
  <2>1. i + 1 \in DOMAIN s /\ Tail(s)[i] = s[i + 1]
    BY <1>1, <1>2
  <2> QED
    BY <1>4, <2>1, Zenon DEF Finished
<1>5. ASSUME ~Head(s).finished, NEW i \in 1 .. Len(s), s[i].finished
      PROVE  s[i].track \in Finished(Tail(s))
  <2>1. i # 1
    BY <1>1, <1>5
  <2>2. i - 1 \in DOMAIN Tail(s) /\ Tail(s)[i - 1] = s[i]
    BY <1>1, <1>2, <2>1
  <2> QED
    BY <1>5, <2>2, Zenon DEF Finished
<1> QED
  BY <1>1, <1>3, <1>4, <1>5, Zenon DEF Finished

(* A request tells Lavalink what is to play; if that cuts a track short,   *)
(* no track has finished.                                                  *)
LEMMA NothingFinishes ==
  ASSUME Calm, NEW player2 \in LavaPlayer, Becomes(player2)
  PROVE  lava' = player2 /\ Finished(events') = Finished(events)
<1>1. events \in Seq(TrackEnd) /\ lava \in LavaPlayer
  BY CalmTypes
<1>2. CASE lava.track \notin {None, player2.track}
  <2> DEFINE e == [track |-> lava.track, finished |-> FALSE]
  <2>1. e \in TrackEnd /\ ~e.finished
    BY <1>1, <1>2 DEF LavaPlayer, TrackEnd
  <2>2. events' = Append(events, e)
    BY <1>2 DEF Becomes
  <2> HIDE DEF e
  <2> QED
    BY <1>1, <2>1, <2>2, FinishedOfAppend DEF Becomes
<1>3. CASE lava.track \in {None, player2.track}
  BY <1>3 DEF Becomes
<1> QED
  BY <1>2, <1>3

(* A goroutine moves on without beginning to tell Lavalink anything.       *)
TellsNothing ==
  \/ pc' = pc
  \/ \E p \in Proc, l \in Label \ {"send", "halt", "clearVoice"} :
       /\ Goto(p, l)
       /\ l = "destroy" => pc[p] = "clearVoice"
       /\ pc[p] \in Silencing \cup {"send"} => l = "destroy"

LEMMA AsidePlayback ==
  ASSUME Calm, PlaybackInv, TellsNothing, player'.current = player.current,
         lava'.track = lava.track, Finished(events') = Finished(events), UNCHANGED <<next, sent>>
  PROVE  PlaybackInv'
<1>0. pc \in [Proc -> Label]
  BY CalmTypes
<1>1. /\ \A p \in Proc : pc'[p] = "send" => pc[p] = "send"
      /\ \A p \in Proc : pc'[p] \in Silencing <=> pc[p] \in Silencing
      /\ \A p \in Proc : pc[p] = "send" => pc'[p] = "send"
  BY <1>0 DEF TellsNothing, Goto, Silencing
<1> QED
  BY <1>1 DEF PlaybackInv, EndedOnce, StartsCurrent, SilencesNothing, AgreeOrEnded

LEMMA SendPlayback ==
  ASSUME Calm, PlaybackInv, "rest" \notin Faults, NEW p \in Proc, Send(p)
  PROVE  PlaybackInv'
<1> DEFINE t == next[p]
<1>0. /\ pc \in [Proc -> Label] /\ next \in [Proc -> Track \cup {None}] /\ lava \in LavaPlayer
      /\ sent \in Seq(Track)
  BY CalmTypes
<1>1. t \in Track /\ t = player.current /\ t \notin Elems(sent)
  BY DEF Send, Calm, FifoInv, Inv, TypeInv, SendHasTrack, OnceInv, HandedOnce, PlaybackInv,
         StartsCurrent
<1>2. /\ sent' = Append(sent, t) /\ next' = [next EXCEPT ![p] = None] /\ player' = player
      /\ Becomes([lava EXCEPT !.track = t])
      /\ Goto(p, IF p = Reader THEN "idle" ELSE "done")
  BY DEF Send, Request, local
<1> HIDE DEF t
<1>3. lava'.track = t /\ Finished(events') = Finished(events)
  <2>1. [lava EXCEPT !.track = t] \in LavaPlayer /\ [lava EXCEPT !.track = t].track = t
    BY <1>0, <1>1 DEF LavaPlayer
  <2> QED
    BY <1>2, <2>1, NothingFinishes
<1>4. Elems(sent') = Elems(sent) \cup {t}
  BY <1>0, <1>1, <1>2, AppendElems
<1>5. \A q \in Proc : pc'[q] \in Silencing \cup {"send"} => q # p /\ pc[q] = pc'[q]
  BY <1>0, <1>2 DEF Goto, Silencing
<1>6. EndedOnce'
  BY <1>1, <1>3, <1>4 DEF PlaybackInv, EndedOnce
<1>7. StartsCurrent' /\ SilencesNothing'
  BY <1>0, <1>2, <1>5 DEF PlaybackInv, StartsCurrent, SilencesNothing
<1>8. AgreeOrEnded'
  BY <1>1, <1>2, <1>3 DEF AgreeOrEnded
<1> QED
  BY <1>6, <1>7, <1>8 DEF PlaybackInv

(* StopTrack, and DestroyPlayer of a leave.                                *)
LEMMA SilencePlayback ==
  ASSUME Calm, PlaybackInv, "rest" \notin Faults, NEW p \in Proc, Halt(p) \/ Destroy(p)
  PROVE  PlaybackInv'
<1>0. /\ pc \in [Proc -> Label] /\ lava \in LavaPlayer /\ sent \in Seq(Track) /\ None \notin Track
  BY CalmTypes, TrackAssumption
<1>1. player.current = None
  BY DEF Halt, Destroy, PlaybackInv, SilencesNothing, Silencing
<1>2. PICK l \in {"done", "disconnect"} : Goto(p, l)
  BY DEF Halt, Destroy, Request
<1>3. player' = player /\ next' = next /\ sent' = sent
  BY DEF Halt, Destroy, local, frames
<1>4. lava'.track = None /\ Finished(events') = Finished(events)
  <2>1. /\ [lava EXCEPT !.track = None] \in LavaPlayer /\ [lava EXCEPT !.track = None].track = None
        /\ NoPlayer \in LavaPlayer /\ NoPlayer.track = None
    BY <1>0 DEF LavaPlayer, NoPlayer, State, EmptyState
  <2>2. Becomes([lava EXCEPT !.track = None]) \/ Becomes(NoPlayer)
    BY DEF Halt, Destroy, Request
  <2> QED
    BY <2>1, <2>2, NothingFinishes
<1>5. \A q \in Proc : pc'[q] \in Silencing \cup {"send"} => pc[q] = pc'[q]
  BY <1>0, <1>2 DEF Goto, Silencing
<1>6. EndedOnce'
  <2>1. Elems(sent) \subseteq Track
    BY <1>0 DEF Elems
  <2> QED
    BY <1>0, <1>3, <1>4, <2>1 DEF PlaybackInv, EndedOnce
<1>7. StartsCurrent' /\ SilencesNothing'
  BY <1>3, <1>5 DEF PlaybackInv, StartsCurrent, SilencesNothing
<1>8. AgreeOrEnded'
  BY <1>1, <1>3, <1>4 DEF AgreeOrEnded
<1> QED
  BY <1>6, <1>7, <1>8 DEF PlaybackInv

(* A goroutine takes a track, or stops the player, and is about to tell    *)
(* Lavalink: nobody else is.                                               *)
LEMMA TakePlayback ==
  ASSUME Calm, PlaybackInv, Apart', NEW p \in Proc, NEW t \in Track \cup {None},
         Goto(p, IF t = None THEN "halt" ELSE "send"),
         player'.current = t, t # None => next' = [next EXCEPT ![p] = t],
         UNCHANGED <<lava, sent>>, Finished(events') \subseteq Finished(events)
  PROVE  PlaybackInv'
<1>0. pc \in [Proc -> Label] /\ next \in [Proc -> Track \cup {None}]
  BY CalmTypes
<1>1. pc'[p] = IF t = None THEN "halt" ELSE "send"
  BY <1>0 DEF Goto
<1>2. \A q \in Proc : pc'[q] \in Silencing \cup {"send"} => q = p
  BY <1>1 DEF Apart, TellsAlone, Silencing, LeaveSection
<1>3. EndedOnce'
  BY DEF PlaybackInv, EndedOnce
<1>4. StartsCurrent' /\ SilencesNothing'
  BY <1>0, <1>1, <1>2 DEF StartsCurrent, SilencesNothing, Silencing
<1>5. AgreeOrEnded'
  BY <1>1 DEF AgreeOrEnded, Silencing
<1> QED
  BY <1>3, <1>4, <1>5 DEF PlaybackInv

(* A track that was never requested has not ended, so no track end is      *)
(* handled while the current track is still to be requested.               *)
LEMMA TrackEndPlayback ==
  ASSUME Calm, PlaybackInv, Apart', HandleTrackEnd, ~Stale
  PROVE  PlaybackInv'
<1> DEFINE t == AdvanceNext(player)
<1>0. /\ pc \in [Proc -> Label] /\ next \in [Proc -> Track \cup {None}] /\ events \in Seq(TrackEnd)
      /\ player \in GuildPlayer /\ Reader \in Proc
  BY CalmTypes, Members
<1>1. player'.current = t /\ t \in Track \cup {None}
  BY <1>0, PlayerOperations, PlayerFields DEF HandleTrackEnd
<1>2. /\ player.current \in {None, Head(events).track}
      /\ Head(events).track \in Elems(sent) \ {lava.track}
      /\ Finished(events') \subseteq Finished(events)
  BY <1>0, FinishedOfTail DEF HandleTrackEnd, Stale, PlaybackInv, EndedOnce
<1>3. CASE t = None
  <2>1. pc' = pc /\ lava' = lava /\ sent' = sent /\ player'.current = None
    BY <1>0, <1>1, <1>3 DEF HandleTrackEnd, Goto
  <2>2. next' = [next EXCEPT ![Reader] = None]
    BY <1>3 DEF HandleTrackEnd
  <2>3. \A p \in Proc : pc[p] # "send"
    <3> SUFFICES ASSUME NEW p \in Proc, pc[p] = "send" PROVE FALSE
      OBVIOUS
    <3>1. next[p] = player.current /\ next[p] \in Track /\ next[p] \notin Elems(sent)
      BY DEF PlaybackInv, StartsCurrent, Calm, FifoInv, Inv, TypeInv, SendHasTrack, OnceInv, HandedOnce
    <3> QED
      BY <1>2, <3>1, TrackAssumption
  <2>4. lava.track = None \/ \E p \in Proc : pc[p] \in Silencing
    BY <1>2, <2>3 DEF PlaybackInv, AgreeOrEnded
  <2>5. EndedOnce'
    BY <1>2, <2>1 DEF PlaybackInv, EndedOnce
  <2>6. StartsCurrent' /\ SilencesNothing' /\ AgreeOrEnded'
    BY <2>1, <2>3, <2>4 DEF StartsCurrent, SilencesNothing, AgreeOrEnded
  <2> QED
    BY <2>5, <2>6 DEF PlaybackInv
<1>4. CASE t # None
  <2>1. Goto(Reader, "send") /\ next' = [next EXCEPT ![Reader] = t] /\ lava' = lava /\ sent' = sent
    BY <1>4 DEF HandleTrackEnd
  <2> HIDE DEF t
  <2> QED
    BY <1>0, <1>1, <1>2, <1>4, <2>1, TakePlayback
<1> QED
  BY <1>3, <1>4

LEMMA TrackEndsPlayback ==
  ASSUME Calm, PlaybackInv, TrackEnds
  PROVE  PlaybackInv'
<1> DEFINE e == [track |-> lava.track, finished |-> TRUE]
<1>0. events \in Seq(TrackEnd) /\ lava \in LavaPlayer /\ lava.track # None /\ sent \in Seq(Track)
  BY CalmTypes DEF TrackEnds
<1>1. e \in TrackEnd /\ e.finished /\ e.track = lava.track
  BY <1>0 DEF LavaPlayer, TrackEnd
<1>2. events' = Append(events, e) /\ UNCHANGED <<player, pc, next, sent>> /\ lava'.track = None
  BY <1>0 DEF TrackEnds, local, frames, LavaPlayer
<1> HIDE DEF e
<1>3. Finished(events') = Finished(events) \cup {lava.track}
  BY <1>0, <1>1, <1>2, FinishedOfAppend
<1>4. EndedOnce'
  <2>1. None \notin Elems(sent)
    BY <1>0, TrackAssumption DEF Elems
  <2> QED
    BY <1>0, <1>2, <1>3, <2>1 DEF PlaybackInv, EndedOnce
<1>5. StartsCurrent' /\ SilencesNothing' /\ AgreeOrEnded'
  BY <1>0, <1>2, <1>3 DEF PlaybackInv, StartsCurrent, SilencesNothing, AgreeOrEnded
<1> QED
  BY <1>4, <1>5 DEF PlaybackInv

LEMMA PlayPlayback ==
  ASSUME Calm, PlaybackInv, Apart', "rest" \notin Faults, NEW t \in Track, Play(t)
  PROVE  PlaybackInv'
<1>0. player \in GuildPlayer /\ lava \in LavaPlayer /\ t \in Proc /\ pc \in [Proc -> Label]
  BY CalmTypes, Members
<1> USE DEF TellsNothing, Label, Silencing
<1>1. CASE Locate(t) \/ CheckActive(t) \/ Ensure(t) \/ AwaitTimeout(t) \/ LoadFails(t)
  BY <1>0, <1>1, AsidePlayback
  DEF Locate, CheckActive, Ensure, AwaitTimeout, LoadFails, local, frames, lavalink
<1>2. CASE Join(t) \/ Await(t)
  BY <1>0, <1>2, AsidePlayback DEF Join, VoiceJoin, Await, local, frames, lavalink
<1>3. CASE Forward(t)
  <2>1. /\ [lava EXCEPT !.voice = handed[t]] \in LavaPlayer
        /\ [lava EXCEPT !.voice = handed[t]].track = lava.track
    BY <1>0 DEF LavaPlayer, Calm, FifoInv, Inv, TypeInv, TypeOK
  <2>2. lava'.track = lava.track /\ Finished(events') = Finished(events)
    BY <1>3, <2>1, NothingFinishes DEF Forward, Request
  <2> QED
    BY <1>0, <1>3, <2>2, AsidePlayback DEF Forward, Request, local, frames
<1>4. CASE SetChannel(t)
  BY <1>0, <1>4, AsidePlayback, PlayerFields DEF SetChannel, frames, lavalink
<1>5. CASE LoadAndEnqueue(t)
  <2>1. player'.current = IF EnqueueStarts(player) THEN t ELSE player.current
    BY <1>0, <1>5, PlayerFields DEF LoadAndEnqueue
  <2>2. CASE EnqueueStarts(player)
    <3>1. t # None /\ Goto(t, "send") /\ next' = [next EXCEPT ![t] = t]
      BY <1>5, <2>2, TrackAssumption DEF LoadAndEnqueue
    <3> QED
      BY <1>0, <1>5, <2>1, <2>2, <3>1, TakePlayback DEF LoadAndEnqueue, lavalink
  <2>3. CASE ~EnqueueStarts(player)
    BY <1>0, <1>5, <2>1, <2>3, AsidePlayback DEF LoadAndEnqueue, lavalink
  <2> QED
    BY <2>2, <2>3
<1>6. CASE Send(t)
  BY <1>0, <1>6, SendPlayback
<1>7. CASE ClearAfterFailure(t)
  BY <1>0, <1>7 DEF ClearAfterFailure, Calm, FifoInv, NobodyClears
<1> QED
  BY <1>1, <1>2, <1>3, <1>4, <1>5, <1>6, <1>7 DEF Play

LEMMA SkipOrStopPlayback ==
  ASSUME Calm, PlaybackInv, Apart', "rest" \notin Faults, NEW s \in Proc, Skip(s) \/ StopAll(s)
  PROVE  PlaybackInv'
<1>0. player \in GuildPlayer /\ pc \in [Proc -> Label] /\ next \in [Proc -> Track \cup {None}]
  BY CalmTypes
<1> USE DEF TellsNothing, Label, Silencing
<1>1. CASE SkipSnapshot(s) \/ StopSnapshot(s)
  BY <1>0, <1>1, AsidePlayback DEF SkipSnapshot, StopSnapshot, Snapshot, local, lavalink
<1>2. CASE RequireInChannel(s, "advance") \/ RequireInChannel(s, "stop")
  BY <1>0, <1>2, AsidePlayback DEF RequireInChannel, local, frames, lavalink
<1>3. CASE SkipAdvance(s)
  <2> DEFINE t == AdvanceNext(player)
  <2>1. t \in Track \cup {None} /\ player'.current = t
    BY <1>0, <1>3, PlayerOperations, PlayerFields DEF SkipAdvance
  <2>2. Goto(s, IF t = None THEN "halt" ELSE "send") /\ next' = [next EXCEPT ![s] = t]
    BY <1>3 DEF SkipAdvance
  <2>3. lava' = lava /\ sent' = sent /\ Finished(events') = Finished(events)
    BY <1>3 DEF SkipAdvance, lavalink
  <2> HIDE DEF t
  <2> QED
    BY <2>1, <2>2, <2>3, TakePlayback
<1>4. CASE StopPlayer(s)
  <2>1. player'.current = None
    BY <1>0, <1>4, PlayerFields DEF StopPlayer
  <2>2. UNCHANGED <<lava, sent, events, next>>
    BY <1>4 DEF StopPlayer, frames, lavalink
  <2>3. CASE player.known
    <3>1. Goto(s, IF None = None THEN "halt" ELSE "send")
      BY <1>4, <2>3 DEF StopPlayer
    <3> QED
      BY <2>1, <2>2, <3>1, TakePlayback
  <2>4. CASE ~player.known
    <3>1. player'.current = player.current
      BY <2>1, <2>4 DEF Calm, UnknownIsIdle
    <3>2. Goto(s, "done") /\ pc[s] = "stop"
      BY <1>4, <2>4 DEF StopPlayer
    <3> QED
      BY <2>2, <3>1, <3>2, AsidePlayback
  <2> QED
    BY <2>3, <2>4
<1>5. CASE Send(s)
  BY <1>5, SendPlayback
<1>6. CASE Halt(s)
  BY <1>6, SilencePlayback
<1> QED
  BY <1>1, <1>2, <1>3, <1>4, <1>5, <1>6 DEF Skip, StopAll

(* A leave takes the track from the player first: nobody is telling        *)
(* Lavalink anything else by then.                                         *)
LEMMA LeavePlayback ==
  ASSUME Calm, PlaybackInv, Apart, "rest" \notin Faults, NEW p \in Proc,
         LeaveCommand(p) \/ AutoLeave(p)
  PROVE  PlaybackInv'
<1>0. player \in GuildPlayer /\ pc \in [Proc -> Label]
  BY CalmTypes
<1> USE DEF TellsNothing, Label, Silencing
<1>1. CASE LeaveSnapshot(p) \/ RequireInChannel(p, "begin")
  BY <1>0, <1>1, AsidePlayback
  DEF LeaveSnapshot, Snapshot, RequireInChannel, local, frames, lavalink
<1>2. CASE Watch(p) \/ Count(p)
  BY <1>0, <1>2, AsidePlayback DEF Watch, Count, local, frames, lavalink
<1>3. CASE BeginLeave(p) \/ ClearVoice(p) \/ FinishLeave(p)
  BY <1>0, <1>3, AsidePlayback DEF BeginLeave, ClearVoice, FinishLeave, frames, lavalink
<1>4. CASE LeavePlayer(p)
  <2>1. \A q \in Proc : pc[q] # "send"
    BY <1>4 DEF LeavePlayer, Apart, TearsAlone, LeaveSection
  <2>2. pc' = [pc EXCEPT ![p] = "clearVoice"] /\ player'.current = None
    BY <1>4 DEF LeavePlayer, Goto, Leave, Unknown
  <2>3. UNCHANGED <<lava, sent, events, next>>
    BY <1>4 DEF LeavePlayer, frames, lavalink
  <2> QED
    BY <1>0, <2>1, <2>2, <2>3
    DEF PlaybackInv, EndedOnce, StartsCurrent, SilencesNothing, AgreeOrEnded
<1>5. CASE Destroy(p)
  BY <1>5, SilencePlayback
<1>6. CASE Disconnect(p)
  BY <1>0, <1>6, AsidePlayback DEF Disconnect, VoiceJoin, local, frames, lavalink
<1> QED
  BY <1>1, <1>2, <1>3, <1>4, <1>5, <1>6 DEF LeaveCommand, AutoLeave, LeaveGuildVoice

LEMMA OutsidePlayback ==
  ASSUME Calm, PlaybackInv,
         \/ \E w \in Watchers, u \in User, ch \in Channel \cup {None} : MemberMoves(w, u, ch)
         \/ \E e \in voiceEvents : HandleVoiceEvent(e)
         \/ IgnoreTrackEnd
         \/ \E a \in Admins, ch \in Channel \cup {None} : ModeratorMoves(a, ch)
         \/ UNCHANGED vars
  PROVE  PlaybackInv'
<1>0. player \in GuildPlayer /\ pc \in [Proc -> Label] /\ events \in Seq(TrackEnd)
  BY CalmTypes
<1> USE DEF TellsNothing, Label, Silencing
<1>1. CASE \E w \in Watchers, u \in User, ch \in Channel \cup {None} : MemberMoves(w, u, ch)
  BY <1>0, <1>1, AsidePlayback, Members DEF MemberMoves, local, lavalink
<1>2. CASE \E e \in voiceEvents : HandleVoiceEvent(e)
  BY <1>0, <1>2, AsidePlayback, PlayerFields
  DEF HandleVoiceEvent, HandleVoiceState, HandleVoiceChannel, HandleVoiceServer, frames, lavalink
<1>3. CASE IgnoreTrackEnd
  <2>1. Finished(events') = Finished(events)
    BY <1>0, <1>3, FinishedOfTail DEF IgnoreTrackEnd
  <2> QED
    BY <1>0, <1>3, <2>1, AsidePlayback DEF IgnoreTrackEnd, local, frames
<1>4. CASE \E a \in Admins, ch \in Channel \cup {None} : ModeratorMoves(a, ch)
  BY <1>0, <1>4, AsidePlayback, Members DEF ModeratorMoves, local, frames, lavalink
<1>5. CASE UNCHANGED vars
  BY <1>0, <1>5, AsidePlayback DEF vars, local, frames, lavalink
<1> QED
  BY <1>1, <1>2, <1>3, <1>4, <1>5

LEMMA PlaybackNext ==
  ASSUME Calm, Apart, Apart', PlaybackInv, "rest" \notin Faults, [Undisturbed]_vars
  PROVE  PlaybackInv'
<1>1. ASSUME NEW t \in Track, Play(t) PROVE PlaybackInv'
  BY <1>1, PlayPlayback
<1>2. ASSUME NEW s \in Skips \cup Stops, Skip(s) \/ StopAll(s) PROVE PlaybackInv'
  BY <1>2, SkipOrStopPlayback, Members
<1>3. ASSUME NEW p \in Leaves \cup Watchers, LeaveCommand(p) \/ AutoLeave(p) PROVE PlaybackInv'
  BY <1>3, LeavePlayback, Members
<1>4. CASE HandleTrackEnd /\ ~Stale
  BY <1>4, TrackEndPlayback
<1>5. CASE Send(Reader)
  BY <1>5, SendPlayback, Members
<1>6. CASE TrackEnds
  BY <1>6, TrackEndsPlayback
<1>7. CASE Undisturbed
  <2>1. Next /\ ~Stale
    BY <1>7 DEF Undisturbed
  <2> QED
    BY <1>1, <1>2, <1>3, <1>4, <1>5, <1>6, <2>1, OutsidePlayback DEF Next, Read
<1> QED
  BY <1>7, OutsidePlayback

LEMMA PlaybackInit == Init => PlaybackInv
<1> SUFFICES ASSUME Init PROVE PlaybackInv
  OBVIOUS
<1>1. Finished(<< >>) = {}
  BY DEF Finished
<1> QED
  BY <1>1
  DEF Init, PlaybackInv, EndedOnce, StartsCurrent, SilencesNothing, AgreeOrEnded, Silencing,
      NoPlayer, Unknown

(* Whenever nothing is running and nothing is on its way, Lavalink plays   *)
(* the track the bot calls current, whatever Discord's gateway does: only  *)
(* an overlap, a stale track end or a failed request can part the two.     *)
THEOREM LavalinkInSync ==
  ASSUME "rest" \notin Faults
  PROVE  SettledSpec => []PlaybackInSync
<1>1. Calm /\ Calm' /\ PlaybackInv /\ [Undisturbed]_vars => PlaybackInv'
  BY CalmApart, CalmApartNext, PlaybackNext
<1>2. PlaybackInv => PlaybackInSync
  <2> SUFFICES ASSUME PlaybackInv, Quiet PROVE lava.track = player.current
    BY DEF PlaybackInSync
  <2>1. Finished(events) = {}
    BY DEF Quiet, Finished
  <2> QED
    BY <2>1 DEF Quiet, PlaybackInv, AgreeOrEnded, Silencing
<1> QED
  BY <1>1, <1>2, PlaybackInit, CalmInvariant, PTL DEF SettledSpec

------------------------------------------------------------------------------
(* An event the bot can only handle out of order; it stays for good.       *)
Passed == \E e \in voiceEvents : e.op # voiceOps

Coming(kinds) == \E e \in voiceEvents : e.kind \in kinds

Leaver(labels) == \E p \in Proc : pc[p] \in labels

EventsOfNow ==
  \A e \in voiceEvents : e.op <= voiceOps /\ (e.op = voiceOps => e.channel = botChannel)

StoreKnows ==
  \/ store.channelID = botChannel
  \/ Coming({"state"})
  \/ store.channelID = None /\ Leaver({"destroy", "disconnect"})

PlayerKnows ==
  \/ player.voiceChannelID = botChannel
  \/ Coming({"state", "channel"})
  \/ player.voiceChannelID = None /\ Leaver({"clearVoice", "destroy", "disconnect"})

(* A /play that has its voice state records the channel the bot is in.     *)
Arrived == {"forward", "setChannel", "load"}

ArrivedKnows ==
  \A t \in Track : pc[t] \in Arrived => chan[t] = botChannel \/ Coming({"state", "channel"})

PlaysSomewhere == \A t \in Track : pc[t] \in Pending \ {"new"} => chan[t] # None

VoiceInv ==
  /\ EventsOfNow
  /\ PlaysSomewhere
  /\ Passed \/ (StoreKnows /\ PlayerKnows /\ ArrivedKnows)

NobodyRestarts == \A p \in Proc : pc'[p] = "new" => pc[p] = "new"

(* The channel of a /play is where its caller was; nothing changes it.     *)
Destinations ==
  \A t \in Track :
    pc'[t] \in Pending \ {"new"} =>
      \/ pc[t] \in Pending \ {"new"} /\ chan'[t] = chan[t]
      \/ /\ UNCHANGED <<userChannel, voiceEvents>>
         /\ chan'[t] # None /\ \E u \in User : chan'[t] = userChannel[u]

LEMMA DestinationsKept ==
  ASSUME Calm, [Next]_vars
  PROVE  Destinations /\ NobodyRestarts
<1>0. /\ pc \in [Proc -> Label] /\ chan \in [Proc -> Channel \cup {None}]
      /\ Track \subseteq Proc
      /\ \A p \in Skips \cup Stops \cup Leaves \cup Watchers \cup Admins \cup {Reader} :
           p \in Proc \ Track
  BY CalmTypes, Members, ProcAssumption
<1> USE DEF Destinations, NobodyRestarts, Goto, Pending
<1>1. ASSUME NEW t \in Track, Play(t) PROVE Destinations /\ NobodyRestarts
  <2>1. CASE Locate(t)
    BY <1>0, <2>1 DEF Locate, discord
  <2>2. CASE CheckActive(t) \/ Ensure(t)
    BY <1>0, <2>2 DEF CheckActive, Ensure, frames
  <2>3. CASE Join(t) \/ Await(t) \/ AwaitTimeout(t)
    BY <1>0, <2>3 DEF Join, VoiceJoin, Await, AwaitTimeout, frames
  <2>4. CASE Forward(t) \/ SetChannel(t) \/ LoadFails(t) \/ ClearAfterFailure(t)
    BY <1>0, <2>4 DEF Forward, Request, SetChannel, LoadFails, ClearAfterFailure, frames
  <2>5. CASE LoadAndEnqueue(t) \/ Send(t)
    BY <1>0, <2>5 DEF LoadAndEnqueue, Send, Request
  <2> QED
    BY <1>1, <2>1, <2>2, <2>3, <2>4, <2>5 DEF Play
<1>2. ASSUME NEW p \in Proc \ Track, Skip(p) \/ StopAll(p) \/ LeaveCommand(p) \/ AutoLeave(p)
      PROVE  Destinations /\ NobodyRestarts
  <2>1. CASE \E b \in BOOLEAN : Snapshot(p, b)
    BY <1>0, <2>1 DEF Snapshot
  <2>2. CASE RequireInChannel(p, "advance") \/ RequireInChannel(p, "stop") \/ RequireInChannel(p, "begin")
    BY <1>0, <2>2 DEF RequireInChannel, frames
  <2>3. CASE SkipAdvance(p) \/ StopPlayer(p)
    BY <1>0, <2>3 DEF SkipAdvance, StopPlayer, frames
  <2>4. CASE Halt(p) \/ Destroy(p) \/ Send(p)
    BY <1>0, <2>4 DEF Halt, Destroy, Send, Request, frames
  <2>5. CASE Watch(p) \/ Count(p)
    BY <1>0, <2>5 DEF Watch, Count, frames
  <2>6. CASE BeginLeave(p) \/ LeavePlayer(p) \/ ClearVoice(p) \/ FinishLeave(p)
    BY <1>0, <2>6 DEF BeginLeave, LeavePlayer, ClearVoice, FinishLeave, frames
  <2>7. CASE Disconnect(p)
    BY <1>0, <2>7 DEF Disconnect, VoiceJoin, frames
  <2> QED
    BY <1>2, <2>1, <2>2, <2>3, <2>4, <2>5, <2>6, <2>7
    DEF Skip, StopAll, LeaveCommand, AutoLeave, LeaveGuildVoice, SkipSnapshot, StopSnapshot,
        LeaveSnapshot
<1>3. CASE \E w \in Watchers, u \in User, ch \in Channel \cup {None} : MemberMoves(w, u, ch)
  BY <1>0, <1>3 DEF MemberMoves
<1>4. CASE \E e \in voiceEvents : HandleVoiceEvent(e)
  BY <1>4 DEF HandleVoiceEvent, HandleVoiceState, HandleVoiceChannel, HandleVoiceServer, frames
<1>5. CASE Read
  BY <1>0, <1>5 DEF Read, HandleTrackEnd, IgnoreTrackEnd, Send, Request, frames
<1>6. CASE TrackEnds \/ UNCHANGED vars
  BY <1>6 DEF TrackEnds, vars, frames
<1>7. CASE \E a \in Admins, ch \in Channel \cup {None} : ModeratorMoves(a, ch)
  BY <1>0, <1>7 DEF ModeratorMoves, frames
<1> QED
  BY <1>0, <1>1, <1>2, <1>3, <1>4, <1>5, <1>6, <1>7 DEF Next

LEMMA ReportsOfMove ==
  ASSUME Calm, NEW ch \in Channel \cup {None}, DiscordMoves(ch)
  PROVE  /\ botChannel' = ch /\ voiceOps' = voiceOps + 1 /\ userChannel' = userChannel
         /\ voiceEvents \subseteq voiceEvents'
         /\ \A e \in voiceEvents' \ voiceEvents : e.op = voiceOps' /\ e.channel = ch
         /\ ch # botChannel => Coming({"state"})'
<1>1. PICK es \in Reports(ch) : voiceEvents' = voiceEvents \cup es
  BY DEF DiscordMoves
<1>2. \A e \in es : e.op = voiceOps + 1 /\ e.channel = ch
  BY DEF Reports
<1>3. ASSUME ch # botChannel PROVE \E e \in es : e.kind = "state"
  <2>1. [kind |-> "state", channel |-> ch, op |-> voiceOps + 1] \in es
    BY <1>3 DEF Reports
  <2> QED
    BY <2>1
<1> QED
  BY <1>1, <1>2, <1>3 DEF DiscordMoves, Coming

(* Discord moves the bot: it either says so, or nothing has changed.       *)
LEMMA MovedVoice ==
  ASSUME Calm, VoiceInv, PlaysSomewhere', NEW ch \in Channel \cup {None}, DiscordMoves(ch),
         NEW p \in Proc, NEW l \in {"await", "finish", "done"}, Goto(p, l),
         pc[p] \notin {"clearVoice", "destroy"}, pc[p] = "disconnect" => ch = None,
         UNCHANGED <<player, store, chan>>
  PROVE  VoiceInv'
<1>0. pc \in [Proc -> Label] /\ voiceOps \in Nat /\ Track \subseteq Proc
  BY CalmTypes, Members
<1>1. /\ botChannel' = ch /\ voiceOps' = voiceOps + 1
      /\ voiceEvents \subseteq voiceEvents'
      /\ \A e \in voiceEvents' \ voiceEvents : e.op = voiceOps' /\ e.channel = ch
      /\ ch # botChannel => Coming({"state"})'
  BY ReportsOfMove
<1>2. \A e \in voiceEvents : e.op \in Nat /\ e.op <= voiceOps
  BY CalmTypes DEF VoiceInv, EventsOfNow, VoiceEvent
<1>3. EventsOfNow'
  BY <1>0, <1>1, <1>2 DEF EventsOfNow
<1>4. CASE voiceEvents # {}
  <2>1. Passed'
    BY <1>0, <1>1, <1>2, <1>4 DEF Passed
  <2> QED
    BY <1>3, <2>1 DEF VoiceInv
<1>5. CASE voiceEvents = {} /\ ch # botChannel
  BY <1>1, <1>3, <1>5 DEF VoiceInv, StoreKnows, PlayerKnows, ArrivedKnows, Coming
<1>6. CASE voiceEvents = {} /\ ch = botChannel
  <2>1. ~Passed /\ \A kinds : ~Coming(kinds)
    BY <1>6 DEF Passed, Coming
  <2>2. \A q \in Proc : pc[q] \in {"clearVoice", "destroy", "disconnect"} => pc'[q] = pc[q] \/ ch = None
    BY <1>0 DEF Goto
  <2>3. \A t \in Track : pc'[t] \in Arrived => pc[t] \in Arrived
    BY <1>0 DEF Goto, Arrived
  <2>4. StoreKnows'
    BY <1>1, <1>6, <2>1, <2>2 DEF VoiceInv, StoreKnows, Leaver
  <2>5. PlayerKnows'
    BY <1>1, <1>6, <2>1, <2>2 DEF VoiceInv, PlayerKnows, Leaver
  <2>6. ArrivedKnows'
    BY <1>1, <1>6, <2>1, <2>3 DEF VoiceInv, ArrivedKnows
  <2> QED
    BY <1>3, <2>4, <2>5, <2>6 DEF VoiceInv
<1> QED
  BY <1>4, <1>5, <1>6

(* A step that neither arrives anywhere nor ends a leave.                  *)
KeepsCourse ==
  \/ pc' = pc
  \/ \E p \in Proc, l \in Label :
       /\ Goto(p, l)
       /\ pc[p] \notin {"clearVoice", "disconnect"}
       /\ pc[p] = "destroy" => l = "disconnect"
       /\ l \in Arrived => pc[p] \in Arrived

LEMMA AsideVoice ==
  ASSUME Calm, VoiceInv, PlaysSomewhere', KeepsCourse, \A t \in Track : pc[t] # "new" => chan'[t] = chan[t],
         player'.voiceChannelID = player.voiceChannelID, store' = store,
         UNCHANGED <<botChannel, voiceEvents, voiceOps>>
  PROVE  VoiceInv'
<1>0. pc \in [Proc -> Label] /\ Track \subseteq Proc
  BY CalmTypes, Members
<1>1. /\ \A p \in Proc : pc[p] = "clearVoice" => pc'[p] = "clearVoice"
      /\ \A p \in Proc : pc[p] \in {"destroy", "disconnect"} => pc'[p] \in {"destroy", "disconnect"}
      /\ \A p \in Proc : pc'[p] \in Arrived => pc[p] \in Arrived
  BY <1>0 DEF KeepsCourse, Goto
<1>2. EventsOfNow' /\ (Passed => Passed')
  BY DEF VoiceInv, EventsOfNow, Passed
<1>3. StoreKnows => StoreKnows'
  BY <1>1 DEF StoreKnows, Coming, Leaver
<1>4. PlayerKnows => PlayerKnows'
  BY <1>1 DEF PlayerKnows, Coming, Leaver
<1>5. ArrivedKnows => ArrivedKnows'
  BY <1>0, <1>1 DEF ArrivedKnows, Coming, Arrived
<1> QED
  BY <1>2, <1>3, <1>4, <1>5 DEF VoiceInv

(* The channel a /play records is the bot's, or Discord is about to say    *)
(* where the bot is.                                                       *)
LEMMA RecordVoice ==
  ASSUME Calm, VoiceInv, PlaysSomewhere', NEW t \in Track, pc[t] \in {"setChannel", "load"},
         NEW l \in {"load", "send", "done"}, Goto(t, l), l = "load" => pc[t] = "setChannel",
         player'.voiceChannelID = chan[t], UNCHANGED <<chan, store>>,
         UNCHANGED <<botChannel, voiceEvents, voiceOps>>
  PROVE  VoiceInv'
<1>0. pc \in [Proc -> Label] /\ Track \subseteq Proc
  BY CalmTypes, Members
<1>1. /\ \A p \in Proc : pc[p] \in {"clearVoice", "destroy", "disconnect"} => pc'[p] = pc[p]
      /\ \A p \in Proc : pc'[p] \in Arrived => pc[p] \in Arrived
  BY <1>0 DEF Goto, Arrived
<1>2. EventsOfNow' /\ (Passed => Passed')
  BY DEF VoiceInv, EventsOfNow, Passed
<1>3. StoreKnows => StoreKnows'
  BY <1>1 DEF StoreKnows, Coming, Leaver
<1>4. ArrivedKnows => ArrivedKnows' /\ PlayerKnows'
  BY <1>0, <1>1 DEF ArrivedKnows, PlayerKnows, Coming, Arrived
<1> QED
  BY <1>2, <1>3, <1>4 DEF VoiceInv

(* The store is complete for the channel the /play waits for only if the   *)
(* bot is there, or an event will correct the store and the player.        *)
LEMMA AwaitVoice ==
  ASSUME Calm, Apart, VoiceInv, PlaysSomewhere', NEW t \in Track, Await(t)
  PROVE  VoiceInv'
<1>0. pc \in [Proc -> Label] /\ Track \subseteq Proc
  BY CalmTypes, Members
<1>1. /\ Goto(t, "forward") /\ pc[t] = "await"
      /\ UNCHANGED <<player, store, chan, botChannel, voiceEvents, voiceOps>>
  BY DEF Await, local, discord
<1>2. store.channelID = chan[t]
  BY <1>1 DEF Await, CompleteFor, VoiceInv, PlaysSomewhere, Pending
<1>3. \A p \in Proc : pc[p] \notin LeaveSection
  BY <1>0, <1>1 DEF Apart, TearsAlone
<1>4. StoreKnows => chan[t] = botChannel \/ Coming({"state", "channel"})
  BY <1>2, <1>3 DEF StoreKnows, Leaver, LeaveSection, Coming
<1>5. /\ \A p \in Proc : pc'[p] \in {"destroy", "disconnect", "clearVoice"} <=> pc[p] \in {"destroy", "disconnect", "clearVoice"}
      /\ \A p \in Proc : pc'[p] \in Arrived => pc[p] \in Arrived \/ p = t
  BY <1>0, <1>1 DEF Goto, Arrived
<1>6. EventsOfNow' /\ (Passed => Passed')
  BY <1>1 DEF VoiceInv, EventsOfNow, Passed
<1>7. StoreKnows => StoreKnows'
  BY <1>1, <1>3 DEF StoreKnows, Coming, Leaver, LeaveSection
<1>8. PlayerKnows => PlayerKnows'
  BY <1>1, <1>3 DEF PlayerKnows, Coming, Leaver, LeaveSection
<1>9. StoreKnows /\ ArrivedKnows => ArrivedKnows'
  BY <1>0, <1>1, <1>4, <1>5 DEF ArrivedKnows, Coming
<1> QED
  BY <1>6, <1>7, <1>8, <1>9 DEF VoiceInv

LEMMA PlayVoice ==
  ASSUME Calm, Apart, VoiceInv, PlaysSomewhere', Faults = {}, NEW t \in Track, Play(t)
  PROVE  VoiceInv'
<1>0. /\ player \in GuildPlayer /\ t \in Proc /\ chan \in [Proc -> Channel \cup {None}]
      /\ ~player.known => player.voiceChannelID = None
      /\ Track \subseteq Proc
  BY CalmTypes, Members DEF Calm, UnknownIsIdle
<1> USE DEF KeepsCourse, Label, Arrived
<1>1. CASE Locate(t)
  BY <1>0, <1>1, AsideVoice DEF Locate, local, discord
<1>2. CASE CheckActive(t) \/ Ensure(t) \/ AwaitTimeout(t) \/ LoadFails(t)
  BY <1>0, <1>2, AsideVoice
  DEF CheckActive, Ensure, AwaitTimeout, LoadFails, local, frames, discord
<1>3. CASE Join(t)
  <2>1. DiscordMoves(chan[t]) /\ Goto(t, "await") /\ pc[t] = "join"
    BY <1>3 DEF Join, VoiceJoin
  <2>2. chan[t] \in Channel \cup {None}
    BY <1>0
  <2> QED
    BY <1>0, <1>3, <2>1, <2>2, MovedVoice DEF Join, local, frames
<1>4. CASE Await(t)
  BY <1>4, AwaitVoice
<1>5. CASE Forward(t) \/ Send(t)
  BY <1>0, <1>5, AsideVoice DEF Forward, Send, Request, local, frames, discord
<1>6. CASE SetChannel(t)
  <2>1. player'.voiceChannelID = chan[t]
    BY <1>0, <1>6, PlayerFields DEF SetChannel
  <2> QED
    BY <1>6, <2>1, RecordVoice DEF SetChannel, frames, discord
<1>7. CASE LoadAndEnqueue(t)
  <2>1. player'.voiceChannelID = chan[t]
    BY <1>0, <1>7, PlayerFields DEF LoadAndEnqueue
  <2>2. PICK l \in {"send", "done"} : Goto(t, l)
    BY <1>7 DEF LoadAndEnqueue
  <2> QED
    BY <1>7, <2>1, <2>2, RecordVoice DEF LoadAndEnqueue, discord
<1>8. CASE ClearAfterFailure(t)
  <2>1. player'.voiceChannelID = player.voiceChannelID
    BY <1>0, <1>8 DEF ClearAfterFailure, ClearCurrent, GuildPlayer
  <2> QED
    BY <1>0, <1>8, <2>1, AsideVoice DEF ClearAfterFailure, frames, discord
<1> QED
  BY <1>1, <1>2, <1>3, <1>4, <1>5, <1>6, <1>7, <1>8 DEF Play

LEMMA SkipOrStopVoice ==
  ASSUME Calm, VoiceInv, PlaysSomewhere', Faults = {}, NEW s \in Skips \cup Stops,
         Skip(s) \/ StopAll(s)
  PROVE  VoiceInv'
<1>0. player \in GuildPlayer /\ s \in Proc /\ s \notin Track /\ chan \in [Proc -> Channel \cup {None}]
  BY CalmTypes, Strangers, Members
<1> USE DEF KeepsCourse, Label, Arrived
<1>1. CASE SkipSnapshot(s) \/ StopSnapshot(s)
  <2>1. PICK l \in {"require", "done"} : Goto(s, l) /\ pc[s] = "new"
    BY <1>1 DEF SkipSnapshot, StopSnapshot, Snapshot
  <2>2. chan' = [chan EXCEPT ![s] = player.voiceChannelID]
    BY <1>1 DEF SkipSnapshot, StopSnapshot, Snapshot
  <2> QED
    BY <1>0, <1>1, <2>1, <2>2, AsideVoice DEF SkipSnapshot, StopSnapshot, Snapshot, local, discord
<1>2. CASE RequireInChannel(s, "advance") \/ RequireInChannel(s, "stop")
  BY <1>0, <1>2, AsideVoice DEF RequireInChannel, local, frames, discord
<1>3. CASE SkipAdvance(s) \/ StopPlayer(s)
  <2>1. player'.voiceChannelID = player.voiceChannelID
    BY <1>0, <1>3, PlayerFields DEF SkipAdvance, StopPlayer
  <2>2. KeepsCourse
    BY <1>0, <1>3 DEF SkipAdvance, StopPlayer
  <2> QED
    BY <1>0, <1>3, <2>1, <2>2, AsideVoice DEF SkipAdvance, StopPlayer, frames, discord
<1>4. CASE Send(s) \/ Halt(s)
  BY <1>0, <1>4, AsideVoice DEF Send, Halt, Request, local, frames, discord
<1> QED
  BY <1>1, <1>2, <1>3, <1>4 DEF Skip, StopAll

(* A leave empties the player, then the store, then tells Discord.         *)
LEMMA LeaveVoice ==
  ASSUME Calm, VoiceInv, PlaysSomewhere', Faults = {}, NEW p \in Leaves \cup Watchers,
         LeaveCommand(p) \/ AutoLeave(p)
  PROVE  VoiceInv'
<1>0. /\ player \in GuildPlayer /\ p \in Proc /\ p \notin Track /\ chan \in [Proc -> Channel \cup {None}]
      /\ pc \in [Proc -> Label] /\ Track \subseteq Proc
  BY CalmTypes, Strangers, Members
<1> USE DEF KeepsCourse, Label, Arrived
<1>1. CASE LeaveSnapshot(p) \/ RequireInChannel(p, "begin")
  BY <1>0, <1>1, AsideVoice
  DEF LeaveSnapshot, Snapshot, RequireInChannel, local, frames, discord
<1>2. CASE Watch(p) \/ Count(p)
  BY <1>0, <1>2, AsideVoice DEF Watch, Count, local, frames, discord
<1>3. CASE BeginLeave(p) \/ FinishLeave(p)
  BY <1>0, <1>3, AsideVoice DEF BeginLeave, FinishLeave, local, frames, discord
<1>4. CASE LeavePlayer(p)
  <2>1. /\ player'.voiceChannelID = None /\ pc' = [pc EXCEPT ![p] = "clearVoice"] /\ pc[p] = "forget"
        /\ UNCHANGED <<chan, store, botChannel, voiceEvents, voiceOps>>
    BY <1>4 DEF LeavePlayer, Leave, Unknown, Goto, frames, discord
  <2>2. PlayerKnows'
    BY <1>0, <2>1 DEF PlayerKnows, Leaver
  <2> QED
    BY <1>0, <2>1, <2>2
    DEF VoiceInv, EventsOfNow, Passed, StoreKnows, ArrivedKnows, Leaver, Coming
<1>5. CASE ClearVoice(p)
  <2>1. /\ store'.channelID = None /\ pc' = [pc EXCEPT ![p] = "destroy"]
        /\ UNCHANGED <<chan, player, botChannel, voiceEvents, voiceOps>>
    BY <1>5 DEF ClearVoice, EmptyState, Goto, frames, discord
  <2>2. StoreKnows' /\ (PlayerKnows => PlayerKnows')
    BY <1>0, <2>1 DEF StoreKnows, PlayerKnows, Leaver, Coming
  <2> QED
    BY <1>0, <2>1, <2>2 DEF VoiceInv, EventsOfNow, Passed, ArrivedKnows, Coming
<1>6. CASE Destroy(p)
  BY <1>0, <1>6, AsideVoice DEF Destroy, Request, local, frames, discord
<1>7. CASE Disconnect(p)
  <2>1. DiscordMoves(None) /\ Goto(p, "finish") /\ pc[p] = "disconnect"
    BY <1>7 DEF Disconnect, VoiceJoin
  <2> QED
    BY <1>0, <1>7, <2>1, MovedVoice DEF Disconnect, local, frames
<1> QED
  BY <1>1, <1>2, <1>3, <1>4, <1>5, <1>6, <1>7 DEF LeaveCommand, AutoLeave, LeaveGuildVoice

(* An event in its turn brings the bot's own state up to date.             *)
LEMMA EventVoice ==
  ASSUME Calm, VoiceInv, PlaysSomewhere', NEW e \in voiceEvents, HandleVoiceEvent(e), ~Overtaken
  PROVE  VoiceInv'
<1>0. /\ pc \in [Proc -> Label] /\ player \in GuildPlayer /\ store \in State
      /\ ~player.known => player.voiceChannelID = None
      /\ Track \subseteq Proc /\ e \in VoiceEvent
  BY CalmTypes, Members DEF Calm, UnknownIsIdle
<1>1. UNCHANGED <<pc, chan, botChannel, voiceOps>>
  BY DEF HandleVoiceEvent, HandleVoiceState, HandleVoiceChannel, HandleVoiceServer, frames
<1>2. e \notin voiceEvents'
  BY <1>0 DEF HandleVoiceEvent, HandleVoiceState, HandleVoiceChannel, HandleVoiceServer, VoiceEvent
<1>3. e.op = voiceOps /\ e.channel = botChannel
  BY <1>2 DEF Overtaken, VoiceInv, EventsOfNow
<1>4. CASE HandleVoiceState(e)
  <2> DEFINE e2 == [e EXCEPT !.kind = "channel"]
  <2>1. /\ voiceEvents' = (voiceEvents \ {e}) \cup {e2} /\ player' = player
        /\ e2.kind = "channel" /\ e2.op = e.op /\ e2.channel = e.channel
    BY <1>0, <1>4 DEF HandleVoiceState, VoiceEvent
  <2> HIDE DEF e2
  <2>2. store'.channelID = botChannel
    BY <1>0, <1>3, <1>4 DEF HandleVoiceState, WithVoiceState, EmptyState, State
  <2>3. Coming({"state", "channel"})'
    BY <2>1 DEF Coming
  <2>4. EventsOfNow' /\ (Passed => Passed')
    BY <1>1, <1>3, <2>1 DEF VoiceInv, EventsOfNow, Passed
  <2> QED
    BY <1>1, <2>2, <2>3, <2>4 DEF VoiceInv, StoreKnows, PlayerKnows, ArrivedKnows
<1>5. CASE HandleVoiceChannel(e)
  <2>1. /\ voiceEvents' = voiceEvents \ {e} /\ e.kind = "channel" /\ store' = store
        /\ player'.voiceChannelID = botChannel
    BY <1>0, <1>3, <1>5, PlayerFields DEF HandleVoiceChannel
  <2>2. EventsOfNow' /\ (Passed => Passed')
    BY <1>1, <1>3, <2>1 DEF VoiceInv, EventsOfNow, Passed
  <2>3. StoreKnows => StoreKnows'
    BY <1>1, <2>1 DEF StoreKnows, Coming, Leaver
  <2>4. \A t \in Track : pc[t] \in Arrived => chan[t] = botChannel
    BY <1>0, <1>2, <1>3, <2>1 DEF Overtaken, At, Joining, Enqueueing, Arrived
  <2> QED
    BY <1>1, <2>1, <2>2, <2>3, <2>4 DEF VoiceInv, PlayerKnows, ArrivedKnows
<1>6. CASE HandleVoiceServer(e)
  <2>1. /\ voiceEvents' = voiceEvents \ {e} /\ e.kind = "server" /\ player' = player
        /\ store'.channelID = store.channelID
    BY <1>0, <1>6 DEF HandleVoiceServer, WithVoiceServer, State
  <2>2. EventsOfNow' /\ (Passed => Passed')
    BY <1>1, <1>3, <2>1 DEF VoiceInv, EventsOfNow, Passed
  <2>3. Coming({"state"}) => Coming({"state"})'
    BY <2>1 DEF Coming
  <2>4. Coming({"state", "channel"}) => Coming({"state", "channel"})'
    BY <2>1 DEF Coming
  <2> QED
    BY <1>1, <2>1, <2>2, <2>3, <2>4
    DEF VoiceInv, StoreKnows, PlayerKnows, ArrivedKnows, Leaver
<1> QED
  BY <1>4, <1>5, <1>6 DEF HandleVoiceEvent

LEMMA OutsideVoice ==
  ASSUME Calm, VoiceInv, PlaysSomewhere', Faults = {},
         \/ \E w \in Watchers, u \in User, ch \in Channel \cup {None} : MemberMoves(w, u, ch)
         \/ Read
         \/ TrackEnds
         \/ \E a \in Admins, ch \in Channel \cup {None} : ModeratorMoves(a, ch)
         \/ UNCHANGED vars
  PROVE  VoiceInv'
<1>0. player \in GuildPlayer /\ Reader \in Proc
  BY CalmTypes, Members
<1> USE DEF KeepsCourse, Label, Arrived
<1>1. CASE \E w \in Watchers, u \in User, ch \in Channel \cup {None} : MemberMoves(w, u, ch)
  BY <1>0, <1>1, AsideVoice, Members DEF MemberMoves, local
<1>2. CASE HandleTrackEnd
  BY <1>0, <1>2, AsideVoice, PlayerFields DEF HandleTrackEnd, discord
<1>3. CASE IgnoreTrackEnd \/ TrackEnds
  BY <1>0, <1>3, AsideVoice DEF IgnoreTrackEnd, TrackEnds, local, frames, discord
<1>4. CASE Send(Reader)
  BY <1>0, <1>4, AsideVoice DEF Send, Request, local, discord
<1>5. CASE \E a \in Admins, ch \in Channel \cup {None} : ModeratorMoves(a, ch)
  BY <1>0, <1>5, MovedVoice, Members DEF ModeratorMoves, local, frames
<1>6. CASE UNCHANGED vars
  BY <1>0, <1>6, AsideVoice DEF vars, local, frames, discord
<1> QED
  BY <1>1, <1>2, <1>3, <1>4, <1>5, <1>6 DEF Read

LEMMA VoiceNext ==
  ASSUME Calm, Apart, VoiceInv, Faults = {}, [Undisturbed]_vars
  PROVE  VoiceInv'
<1>0. PlaysSomewhere'
  <2>1. Destinations
    BY DestinationsKept DEF Undisturbed
  <2> QED
    BY <2>1 DEF Destinations, VoiceInv, PlaysSomewhere
<1>1. ASSUME NEW t \in Track, Play(t) PROVE VoiceInv'
  BY <1>0, <1>1, PlayVoice
<1>2. ASSUME NEW s \in Skips \cup Stops, Skip(s) \/ StopAll(s) PROVE VoiceInv'
  BY <1>0, <1>2, SkipOrStopVoice
<1>3. ASSUME NEW p \in Leaves \cup Watchers, LeaveCommand(p) \/ AutoLeave(p) PROVE VoiceInv'
  BY <1>0, <1>3, LeaveVoice
<1>4. ASSUME NEW e \in voiceEvents, HandleVoiceEvent(e), ~Overtaken PROVE VoiceInv'
  BY <1>0, <1>4, EventVoice
<1>5. CASE Undisturbed
  <2>1. Next /\ ~Overtaken
    BY <1>5 DEF Undisturbed
  <2> QED
    BY <1>0, <1>1, <1>2, <1>3, <1>4, <2>1, OutsideVoice DEF Next
<1> QED
  BY <1>0, <1>5, OutsideVoice

LEMMA VoiceInit == Init => VoiceInv
<1> SUFFICES ASSUME Init PROVE VoiceInv
  OBVIOUS
<1>1. \A t \in Track : pc[t] = "new"
  BY Members, Strangers DEF Init
<1>2. EventsOfNow /\ PlaysSomewhere /\ ArrivedKnows
  BY <1>1 DEF Init, EventsOfNow, PlaysSomewhere, Pending, ArrivedKnows, Arrived
<1>3. StoreKnows /\ PlayerKnows
  BY DEF Init, StoreKnows, PlayerKnows, EmptyState, Unknown
<1> QED
  BY <1>2, <1>3 DEF VoiceInv

LEMMA VoiceInvariant ==
  ASSUME Faults = {}
  PROVE  SettledSpec => []VoiceInv
<1>1. Calm /\ VoiceInv /\ [Undisturbed]_vars => VoiceInv'
  BY CalmApart, VoiceNext
<1> QED
  BY <1>1, VoiceInit, CalmInvariant, PTL DEF SettledSpec

(* Whenever nothing is running and nothing is on its way, the player, the  *)
(* voice store and Discord name the same channel: every move of the bot is *)
(* reported, and the report is the last to write (main.go:220-237).        *)
THEOREM VoiceSettles ==
  ASSUME Faults = {}
  PROVE  SettledSpec => []VoiceInSync
<1>1. VoiceInv => VoiceInSync
  <2> SUFFICES ASSUME VoiceInv, Quiet
               PROVE  player.voiceChannelID = botChannel /\ store.channelID = botChannel
    BY DEF VoiceInSync
  <2>1. ~Passed /\ \A kinds : ~Coming(kinds)
    BY DEF Quiet, Passed, Coming
  <2>2. ~Leaver({"destroy", "disconnect"}) /\ ~Leaver({"clearVoice", "destroy", "disconnect"})
    BY DEF Quiet, Leaver
  <2> QED
    BY <2>1, <2>2 DEF VoiceInv, StoreKnows, PlayerKnows
<1> QED
  BY <1>1, VoiceInvariant, PTL

------------------------------------------------------------------------------
NobodyModerates == \A a \in Admins : pc[a] = "new"

(* A /play takes the bot to its caller, and Discord only confirms it.      *)
PlaysToSomebody ==
  /\ \A t \in Track : pc[t] \in Pending \ {"new"} => Humans(chan[t]) # {}
  /\ \A e \in voiceEvents : e.channel = None \/ Humans(e.channel) # {}

LeftForGood == \A p \in Proc : pc[p] = "finish" => botChannel = None

(* Somebody is going to take the bot out of an empty channel.              *)
LeavesSoon(ch) ==
  \/ \E w \in Watchers : pc[w] = "watch" /\ ch \in {moved[w].before, moved[w].after}
  \/ \E w \in Watchers : pc[w] = "count" /\ ch = chan[w]
  \/ Leaver({"begin", "forget", "clearVoice", "destroy", "disconnect"})
  \/ Coming({"state", "channel"})
  \/ Passed

HeardOrLeaves ==
  LET ch == player.voiceChannelID IN ch # None /\ Humans(ch) = {} => LeavesSoon(ch)

AloneInv == NobodyModerates => PlaysToSomebody /\ LeftForGood /\ HeardOrLeaves

(* Who changes what Discord knows, or what it has still to tell.           *)
DiscordSteps ==
  \/ UNCHANGED discord
  \/ \E t \in Track : Join(t)
  \/ \E p \in Leaves \cup Watchers : Disconnect(p)
  \/ \E w \in Watchers, u \in User, ch \in Channel \cup {None} : MemberMoves(w, u, ch)
  \/ \E e \in voiceEvents : HandleVoiceEvent(e)
  \/ \E a \in Admins, ch \in Channel \cup {None} : ModeratorMoves(a, ch)

LEMMA EveryDiscordStep ==
  ASSUME [Next]_vars
  PROVE  DiscordSteps
<1> USE DEF DiscordSteps
<1>1. ASSUME NEW t \in Track, Play(t) PROVE DiscordSteps
  BY <1>1
  DEF Play, Locate, CheckActive, Ensure, Await, AwaitTimeout, Forward, SetChannel, LoadFails,
      LoadAndEnqueue, Send, ClearAfterFailure
<1>2. ASSUME NEW s \in Proc, Skip(s) \/ StopAll(s) PROVE DiscordSteps
  BY <1>2
  DEF Skip, StopAll, SkipSnapshot, StopSnapshot, Snapshot, RequireInChannel, SkipAdvance, StopPlayer,
      Send, Halt
<1>3. ASSUME NEW p \in Leaves \cup Watchers, LeaveCommand(p) \/ AutoLeave(p) PROVE DiscordSteps
  BY <1>3
  DEF LeaveCommand, AutoLeave, LeaveSnapshot, Snapshot, RequireInChannel, Watch, Count, LeaveGuildVoice,
      BeginLeave, LeavePlayer, ClearVoice, Destroy, FinishLeave
<1>4. CASE Read \/ TrackEnds \/ UNCHANGED vars
  BY <1>4 DEF Read, HandleTrackEnd, IgnoreTrackEnd, Send, TrackEnds, vars
<1> QED
  BY <1>1, <1>2, <1>3, <1>4, Members DEF Next

(* Members move only while no /play is under way and no event is pending,  *)
(* so what a /play and its events name stays inhabited.                    *)
LEMMA SomebodyStep ==
  ASSUME Calm, Apart', AloneInv, NobodyModerates', [Next]_vars, Faults = {}
  PROVE  NobodyModerates /\ PlaysToSomebody'
<1>0. /\ pc \in [Proc -> Label] /\ Track \subseteq Proc /\ Watchers \subseteq Proc
      /\ chan \in [Proc -> Channel \cup {None}] /\ voiceEvents \in SUBSET VoiceEvent
  BY CalmTypes, Members
<1>1. Destinations /\ NobodyRestarts /\ DiscordSteps
  BY DestinationsKept, EveryDiscordStep
<1>2. NobodyModerates
  BY <1>1, Members DEF NobodyModerates, NobodyRestarts
<1>3. PlaysToSomebody
  BY <1>2 DEF AloneInv
<1> SUFFICES PlaysToSomebody'
  BY <1>2
<1>4. CASE \E w \in Watchers, u \in User, ch \in Channel \cup {None} : MemberMoves(w, u, ch)
  <2>1. \E w \in Proc : pc'[w] = "watch"
    BY <1>0, <1>4 DEF MemberMoves, Goto
  <2> QED
    BY <1>0, <1>2, <2>1 DEF Apart, WatchesAlone, PlaysToSomebody
<1>5. ASSUME UNCHANGED userChannel,
             \A e \in voiceEvents' :
               \/ e.channel = None
               \/ \E e2 \in voiceEvents : e.channel = e2.channel
               \/ \E t \in Track : pc[t] = "join" /\ e.channel = chan[t]
      PROVE  PlaysToSomebody'
  <2>1. \A t \in Track : pc'[t] \in Pending \ {"new"} => Humans(chan'[t]) # {}
    BY <1>1, <1>3, <1>5 DEF Destinations, PlaysToSomebody, Humans
  <2>2. \A t \in Track : pc[t] = "join" => Humans(chan[t]) # {}
    BY <1>3 DEF PlaysToSomebody, Pending
  <2>3. \A e \in voiceEvents' : e.channel = None \/ Humans(e.channel) # {}
    BY <1>3, <1>5, <2>2 DEF PlaysToSomebody
  <2> QED
    BY <1>5, <2>1, <2>3 DEF PlaysToSomebody, Humans
<1>6. CASE UNCHANGED discord
  BY <1>5, <1>6 DEF discord
<1>7. ASSUME NEW t \in Track, Join(t) PROVE PlaysToSomebody'
  <2>1. DiscordMoves(chan[t]) /\ pc[t] = "join" /\ chan[t] \in Channel \cup {None}
    BY <1>0, <1>7 DEF Join, VoiceJoin
  <2> QED
    BY <1>5, <2>1, ReportsOfMove
<1>8. ASSUME NEW p \in Proc, Disconnect(p) PROVE PlaysToSomebody'
  <2>1. DiscordMoves(None)
    BY <1>8 DEF Disconnect, VoiceJoin
  <2> QED
    BY <1>5, <2>1, ReportsOfMove
<1>9. ASSUME NEW e \in voiceEvents, HandleVoiceEvent(e) PROVE PlaysToSomebody'
  <2> DEFINE e2 == [e EXCEPT !.kind = "channel"]
  <2>1. e2.channel = e.channel
    BY <1>0 DEF VoiceEvent
  <2>2. userChannel' = userChannel /\ voiceEvents' \subseteq voiceEvents \cup {e2}
    BY <1>9 DEF HandleVoiceEvent, HandleVoiceState, HandleVoiceChannel, HandleVoiceServer
  <2> HIDE DEF e2
  <2> QED
    BY <1>5, <2>1, <2>2
<1>10. ASSUME NEW a \in Admins, NEW ch \in Channel \cup {None}, ModeratorMoves(a, ch) PROVE FALSE
  BY <1>0, <1>10, Members DEF ModeratorMoves, Goto, NobodyModerates
<1> QED
  BY <1>1, <1>4, <1>6, <1>7, <1>8, <1>9, <1>10, Members DEF DiscordSteps

------------------------------------------------------------------------------
(* The rest is about the bot's own channel, with no moderator about.       *)
SoonHeard == PlaysToSomebody /\ LeftForGood /\ HeardOrLeaves

(* A step that neither decides about a leave nor ends one.                 *)
KeepsLeaving ==
  \/ pc' = pc
  \/ \E p \in Proc, l \in Label :
       /\ Goto(p, l) /\ l # "finish"
       /\ pc[p] \notin {"watch", "count", "begin", "disconnect"}
       /\ pc[p] \in {"forget", "clearVoice", "destroy"} => l \in {"clearVoice", "destroy", "disconnect"}

LEMMA AsideAlone ==
  ASSUME Calm, SoonHeard, PlaysToSomebody', KeepsLeaving,
         \A w \in Watchers : pc[w] = "count" => chan'[w] = chan[w],
         player'.voiceChannelID = player.voiceChannelID, moved' = moved,
         UNCHANGED <<botChannel, userChannel, voiceEvents, voiceOps>>
  PROVE  SoonHeard'
<1>0. pc \in [Proc -> Label] /\ Watchers \subseteq Proc
  BY CalmTypes, Members
<1> DEFINE Busy == {"begin", "forget", "clearVoice", "destroy", "disconnect"}
<1>1. /\ \A p \in Proc : pc[p] \in {"watch", "count"} => pc'[p] = pc[p]
      /\ \A p \in Proc : pc[p] \in Busy => pc'[p] \in Busy
      /\ \A p \in Proc : pc'[p] = "finish" => pc[p] = "finish"
  BY <1>0 DEF KeepsLeaving, Goto
<1>2. LeftForGood'
  BY <1>1 DEF SoonHeard, LeftForGood
<1>3. ASSUME NEW ch, LeavesSoon(ch) PROVE LeavesSoon(ch)'
  BY <1>0, <1>1, <1>3 DEF LeavesSoon, Leaver, Coming, Passed
<1>4. HeardOrLeaves'
  BY <1>3 DEF SoonHeard, HeardOrLeaves, Humans
<1> QED
  BY <1>2, <1>4 DEF SoonHeard

LEMMA PlayAlone ==
  ASSUME Calm, Apart, SoonHeard, VoiceInv, PlaysToSomebody', Faults = {}, NEW t \in Track, Play(t)
  PROVE  SoonHeard'
<1>0. /\ player \in GuildPlayer /\ t \in Proc /\ t \notin Watchers
      /\ chan \in [Proc -> Channel \cup {None}] /\ pc \in [Proc -> Label]
      /\ ~player.known => player.voiceChannelID = None
      /\ Watchers \subseteq Proc
  BY CalmTypes, Members, Strangers DEF Calm, UnknownIsIdle
<1> USE DEF KeepsLeaving, Label
<1>1. CASE Locate(t)
  BY <1>0, <1>1, AsideAlone DEF Locate, local, discord
<1>2. CASE CheckActive(t) \/ Ensure(t) \/ AwaitTimeout(t) \/ LoadFails(t) \/ Await(t)
  BY <1>0, <1>2, AsideAlone
  DEF CheckActive, Ensure, AwaitTimeout, LoadFails, Await, local, frames, discord
<1>3. CASE Join(t)
  <2>1. /\ DiscordMoves(chan[t]) /\ Goto(t, "await") /\ pc[t] = "join" /\ chan[t] \in Channel \cup {None}
        /\ UNCHANGED <<player, chan, moved>>
    BY <1>0, <1>3 DEF Join, VoiceJoin, local, frames
  <2>2. \A p \in Proc : pc'[p] \notin LeaveSection
    BY <1>0, <2>1 DEF Apart, TearsAlone, Goto, LeaveSection
  <2>3. LeftForGood'
    BY <2>2 DEF LeftForGood, LeaveSection
  <2>4. /\ voiceEvents \subseteq voiceEvents' /\ voiceOps' = voiceOps + 1 /\ userChannel' = userChannel
        /\ voiceOps \in Nat /\ \A e \in voiceEvents : e.op \in Nat /\ e.op <= voiceOps
    BY <2>1, ReportsOfMove, CalmTypes DEF VoiceInv, EventsOfNow, VoiceEvent
  <2>5. Coming({"state", "channel"}) \/ Passed => Coming({"state", "channel"})' \/ Passed'
    BY <2>4 DEF Coming, Passed
  <2>6. \A p \in Proc : pc[p] \in {"watch", "count", "begin", "forget", "clearVoice", "destroy", "disconnect"}
                          => pc'[p] = pc[p]
    BY <1>0, <2>1 DEF Goto
  <2>7. ASSUME NEW ch, LeavesSoon(ch) PROVE LeavesSoon(ch)'
    BY <1>0, <2>1, <2>5, <2>6, <2>7 DEF LeavesSoon, Leaver
  <2>8. HeardOrLeaves'
    BY <2>1, <2>4, <2>7 DEF SoonHeard, HeardOrLeaves, Humans
  <2> QED
    BY <2>3, <2>8 DEF SoonHeard
<1>4. CASE Forward(t) \/ Send(t)
  BY <1>0, <1>4, AsideAlone DEF Forward, Send, Request, local, frames, discord
<1>5. CASE SetChannel(t) \/ LoadAndEnqueue(t)
  <2>1. /\ player'.voiceChannelID = chan[t] /\ pc[t] \in {"setChannel", "load"}
        /\ UNCHANGED <<botChannel, userChannel>>
    BY <1>0, <1>5, PlayerFields DEF SetChannel, LoadAndEnqueue, discord
  <2>2. PICK l \in {"load", "send", "done"} : Goto(t, l)
    BY <1>5 DEF SetChannel, LoadAndEnqueue
  <2>3. LeftForGood'
    BY <1>0, <2>1, <2>2 DEF SoonHeard, LeftForGood, Goto
  <2>4. Humans(chan[t]) # {}
    BY <2>1 DEF SoonHeard, PlaysToSomebody, Pending
  <2>5. HeardOrLeaves'
    BY <2>1, <2>4 DEF HeardOrLeaves, Humans
  <2> QED
    BY <2>3, <2>5 DEF SoonHeard
<1>6. CASE ClearAfterFailure(t)
  <2>1. player'.voiceChannelID = player.voiceChannelID
    BY <1>0, <1>6 DEF ClearAfterFailure, ClearCurrent, GuildPlayer
  <2> QED
    BY <1>0, <1>6, <2>1, AsideAlone DEF ClearAfterFailure, frames, discord
<1> QED
  BY <1>1, <1>2, <1>3, <1>4, <1>5, <1>6 DEF Play

LEMMA SkipOrStopAlone ==
  ASSUME Calm, SoonHeard, PlaysToSomebody', Faults = {}, NEW s \in Skips \cup Stops,
         Skip(s) \/ StopAll(s)
  PROVE  SoonHeard'
<1>0. player \in GuildPlayer /\ s \in Proc /\ s \notin Watchers /\ chan \in [Proc -> Channel \cup {None}]
  BY CalmTypes, Members, ProcAssumption
<1> USE DEF KeepsLeaving, Label
<1>1. CASE SkipSnapshot(s) \/ StopSnapshot(s)
  <2>1. PICK l \in {"require", "done"} : Goto(s, l) /\ pc[s] = "new"
    BY <1>1 DEF SkipSnapshot, StopSnapshot, Snapshot
  <2>2. chan' = [chan EXCEPT ![s] = player.voiceChannelID]
    BY <1>1 DEF SkipSnapshot, StopSnapshot, Snapshot
  <2> QED
    BY <1>0, <1>1, <2>1, <2>2, AsideAlone DEF SkipSnapshot, StopSnapshot, Snapshot, local, discord
<1>2. CASE RequireInChannel(s, "advance") \/ RequireInChannel(s, "stop")
  BY <1>0, <1>2, AsideAlone DEF RequireInChannel, local, frames, discord
<1>3. CASE SkipAdvance(s) \/ StopPlayer(s)
  <2>1. player'.voiceChannelID = player.voiceChannelID
    BY <1>0, <1>3, PlayerFields DEF SkipAdvance, StopPlayer
  <2>2. KeepsLeaving
    BY <1>0, <1>3 DEF SkipAdvance, StopPlayer
  <2> QED
    BY <1>0, <1>3, <2>1, <2>2, AsideAlone DEF SkipAdvance, StopPlayer, frames, discord
<1>4. CASE Send(s) \/ Halt(s)
  BY <1>0, <1>4, AsideAlone DEF Send, Halt, Request, local, frames, discord
<1> QED
  BY <1>1, <1>2, <1>3, <1>4 DEF Skip, StopAll

(* The watcher of the last member to go counts nobody and begins a leave.  *)
LEMMA WatchAlone ==
  ASSUME Calm, SoonHeard, PlaysToSomebody', Faults = {}, NEW w \in Watchers, Watch(w) \/ Count(w)
  PROVE  SoonHeard'
<1> DEFINE v == player.voiceChannelID
<1>0. /\ pc \in [Proc -> Label] /\ chan \in [Proc -> Channel \cup {None}]
      /\ Watchers \subseteq Proc
      /\ UNCHANGED <<player, moved, botChannel, userChannel, voiceEvents, voiceOps>>
  BY CalmTypes, Members DEF Watch, Count, local, frames, discord
<1>1. \A p \in Proc : p # w => pc'[p] = pc[p] /\ chan'[p] = chan[p]
  BY <1>0 DEF Watch, Count, Goto, frames
<1>2. pc'[w] \in {"count", "begin", "done"} /\ pc[w] \in {"watch", "count"}
  BY <1>0 DEF Watch, Count, Goto
<1>3. LeftForGood'
  BY <1>0, <1>1, <1>2 DEF SoonHeard, LeftForGood
<1>4. ASSUME v # None, Humans(v) = {}, pc[w] = "watch", v \in {moved[w].before, moved[w].after}
      PROVE  pc'[w] = "count" /\ chan'[w] = v
  BY <1>0, <1>4 DEF Watch, Count, Goto
<1>5. ASSUME v # None, Humans(v) = {}, pc[w] = "count", chan[w] = v
      PROVE  pc'[w] = "begin"
  BY <1>0, <1>5 DEF Watch, Count, Goto
<1>6. Leaver({"begin", "forget", "clearVoice", "destroy", "disconnect"})
        => Leaver({"begin", "forget", "clearVoice", "destroy", "disconnect"})'
  BY <1>1, <1>2 DEF Leaver
<1>7. ASSUME v # None, Humans(v) = {} PROVE LeavesSoon(v)'
  <2>1. LeavesSoon(v)
    BY <1>7 DEF SoonHeard, HeardOrLeaves
  <2>2. CASE \E w2 \in Watchers : pc[w2] = "watch" /\ v \in {moved[w2].before, moved[w2].after}
    <3>1. PICK w2 \in Watchers : pc[w2] = "watch" /\ v \in {moved[w2].before, moved[w2].after}
      BY <2>2
    <3>2. \/ pc'[w2] = "watch" /\ v' \in {moved[w2].before, moved[w2].after}'
          \/ pc'[w2] = "count" /\ v' = chan'[w2]
      BY <1>0, <1>1, <1>4, <1>7, <3>1
    <3> QED
      BY <3>1, <3>2 DEF LeavesSoon
  <2>3. CASE \E w2 \in Watchers : pc[w2] = "count" /\ v = chan[w2]
    <3>1. PICK w2 \in Watchers : pc[w2] = "count" /\ v = chan[w2]
      BY <2>3
    <3>2. pc'[w2] = "begin" \/ (pc'[w2] = "count" /\ v' = chan'[w2])
      BY <1>0, <1>1, <1>5, <1>7, <3>1
    <3> QED
      BY <1>0, <3>1, <3>2 DEF LeavesSoon, Leaver
  <2>4. CASE Leaver({"begin", "forget", "clearVoice", "destroy", "disconnect"})
    BY <1>6, <2>4 DEF LeavesSoon
  <2>5. CASE Coming({"state", "channel"}) \/ Passed
    BY <1>0, <2>5 DEF LeavesSoon, Coming, Passed
  <2> QED
    BY <2>1, <2>2, <2>3, <2>4, <2>5 DEF LeavesSoon
<1>8. HeardOrLeaves'
  BY <1>0, <1>7 DEF HeardOrLeaves, Humans
<1> QED
  BY <1>3, <1>8 DEF SoonHeard
(* Whoever finds a leave in progress may return: the other one takes the   *)
(* bot out, or has done so and only the report is missing.                 *)
LEMMA BeginAlone ==
  ASSUME Calm, SoonHeard, VoiceInv, PlaysToSomebody', NEW p \in Proc, BeginLeave(p)
  PROVE  SoonHeard'
<1> DEFINE v == player.voiceChannelID
<1>0. /\ pc \in [Proc -> Label] /\ Watchers \subseteq Proc /\ pc[p] = "begin"
      /\ UNCHANGED <<player, chan, moved, botChannel, userChannel, voiceEvents, voiceOps>>
  BY CalmTypes, Members DEF BeginLeave, frames, discord
<1>1. pc' = [pc EXCEPT ![p] = IF leaving THEN "done" ELSE "forget"]
  BY DEF BeginLeave, Goto
<1>2. LeftForGood'
  BY <1>0, <1>1 DEF SoonHeard, LeftForGood
<1>3. ASSUME v # None, Humans(v) = {} PROVE LeavesSoon(v)'
  <2>1. CASE ~leaving
    <3>1. pc'[p] = "forget"
      BY <1>0, <1>1, <2>1
    <3> QED
      BY <3>1 DEF LeavesSoon, Leaver
  <2>2. CASE leaving
    <3>1. PICK q \in Proc : pc[q] \in LeaveSection
      BY <2>2 DEF Calm, LeaveExclusive
    <3>2. pc'[q] = pc[q]
      BY <1>0, <1>1, <3>1 DEF LeaveSection
    <3>3. CASE pc[q] # "finish"
      BY <3>1, <3>2, <3>3 DEF LeavesSoon, Leaver, LeaveSection
    <3>4. CASE pc[q] = "finish"
      <4>1. botChannel = None
        BY <3>4 DEF SoonHeard, LeftForGood
      <4>2. Passed \/ Coming({"state", "channel"})
        BY <1>3, <4>1 DEF VoiceInv, PlayerKnows
      <4> QED
        BY <1>0, <4>2 DEF LeavesSoon, Passed, Coming
    <3> QED
      BY <3>3, <3>4
  <2> QED
    BY <2>1, <2>2
<1>4. HeardOrLeaves'
  BY <1>0, <1>3 DEF HeardOrLeaves, Humans
<1> QED
  BY <1>2, <1>4 DEF SoonHeard

LEMMA DisconnectAlone ==
  ASSUME Calm, SoonHeard, VoiceInv, PlaysToSomebody', Faults = {}, NEW p \in Proc, Disconnect(p)
  PROVE  SoonHeard'
<1> DEFINE v == player.voiceChannelID
<1>0. /\ pc \in [Proc -> Label] /\ voiceOps \in Nat
      /\ \A e \in voiceEvents : e.op \in Nat /\ e.op <= voiceOps
  BY CalmTypes DEF VoiceInv, EventsOfNow, VoiceEvent
<1>1. DiscordMoves(None) /\ UNCHANGED player
  BY DEF Disconnect, VoiceJoin, local
<1>2. /\ botChannel' = None /\ voiceOps' = voiceOps + 1 /\ userChannel' = userChannel
      /\ voiceEvents \subseteq voiceEvents'
      /\ None # botChannel => Coming({"state"})'
  BY <1>1, ReportsOfMove
<1>3. LeftForGood'
  BY <1>2 DEF LeftForGood
<1>4. ASSUME v # None PROVE LeavesSoon(v)'
  <2>1. CASE voiceEvents # {}
    <3>1. Passed'
      BY <1>0, <1>2, <2>1 DEF Passed
    <3> QED
      BY <3>1 DEF LeavesSoon
  <2>2. CASE voiceEvents = {}
    <3>1. ~Passed /\ ~Coming({"state", "channel"})
      BY <2>2 DEF Passed, Coming
    <3>2. v = botChannel
      BY <1>4, <3>1 DEF VoiceInv, PlayerKnows
    <3>3. Coming({"state", "channel"})'
      BY <1>2, <1>4, <3>2 DEF Coming
    <3> QED
      BY <3>3 DEF LeavesSoon
  <2> QED
    BY <2>1, <2>2
<1>5. HeardOrLeaves'
  BY <1>1, <1>4 DEF HeardOrLeaves
<1> QED
  BY <1>3, <1>5 DEF SoonHeard

LEMMA LeaveAlone ==
  ASSUME Calm, SoonHeard, VoiceInv, PlaysToSomebody', Faults = {}, NEW p \in Leaves \cup Watchers,
         LeaveCommand(p) \/ (p \in Watchers /\ AutoLeave(p))
  PROVE  SoonHeard'
<1>0. /\ p \in Proc /\ pc \in [Proc -> Label] /\ chan \in [Proc -> Channel \cup {None}]
      /\ Watchers \subseteq Proc
  BY CalmTypes, Members
<1> USE DEF KeepsLeaving, Label
<1>1. CASE LeaveSnapshot(p)
  <2>1. PICK l \in {"require", "done"} : Goto(p, l) /\ pc[p] = "new"
    BY <1>1 DEF LeaveSnapshot, Snapshot
  <2>2. chan' = [chan EXCEPT ![p] = player.voiceChannelID]
    BY <1>1 DEF LeaveSnapshot, Snapshot
  <2> QED
    BY <1>0, <1>1, <2>1, <2>2, AsideAlone DEF LeaveSnapshot, Snapshot, local, discord
<1>2. CASE RequireInChannel(p, "begin")
  BY <1>0, <1>2, AsideAlone DEF RequireInChannel, local, frames, discord
<1>3. CASE p \in Watchers /\ (Watch(p) \/ Count(p))
  BY <1>3, WatchAlone
<1>4. CASE BeginLeave(p)
  BY <1>0, <1>4, BeginAlone
<1>5. CASE LeavePlayer(p)
  <2>1. /\ player'.voiceChannelID = None /\ botChannel' = botChannel
        /\ Goto(p, "clearVoice") /\ pc[p] = "forget"
    BY <1>5 DEF LeavePlayer, Leave, Unknown, discord
  <2>2. LeftForGood'
    BY <1>0, <2>1 DEF SoonHeard, LeftForGood, Goto
  <2> QED
    BY <2>1, <2>2 DEF SoonHeard, HeardOrLeaves
<1>6. CASE ClearVoice(p) \/ Destroy(p) \/ FinishLeave(p)
  BY <1>0, <1>6, AsideAlone DEF ClearVoice, Destroy, Request, FinishLeave, local, frames, discord
<1>7. CASE Disconnect(p)
  BY <1>0, <1>7, DisconnectAlone
<1> QED
  BY <1>1, <1>2, <1>3, <1>4, <1>5, <1>6, <1>7 DEF LeaveCommand, AutoLeave, LeaveGuildVoice

(* The last member to go is seen by the watcher of that very move.         *)
LEMMA MoveAlone ==
  ASSUME Calm, SoonHeard, PlaysToSomebody', NEW w \in Watchers, NEW u \in User,
         NEW ch \in Channel \cup {None}, MemberMoves(w, u, ch)
  PROVE  SoonHeard'
<1> DEFINE v == player.voiceChannelID
<1>0. /\ pc \in [Proc -> Label] /\ Watchers \subseteq Proc
      /\ userChannel \in [User -> Channel \cup {None}]
      /\ moved \in [Watchers -> [before : Channel \cup {None}, after : Channel \cup {None}]]
      /\ UNCHANGED <<player, chan, botChannel, voiceEvents, voiceOps>>
  BY CalmTypes, Members DEF MemberMoves, local
<1>1. /\ pc[w] = "new" /\ pc' = [pc EXCEPT ![w] = "watch"]
      /\ moved' = [moved EXCEPT ![w] = [before |-> userChannel[u], after |-> ch]]
      /\ userChannel' = [userChannel EXCEPT ![u] = ch]
  BY DEF MemberMoves, Goto
<1>2. LeftForGood'
  BY <1>0, <1>1 DEF SoonHeard, LeftForGood
<1>3. \A p \in Proc : pc[p] # "new" => pc'[p] = pc[p] /\ p # w
  BY <1>0, <1>1
<1>4. ASSUME v # None, Humans(v)' = {} PROVE LeavesSoon(v)'
  <2>1. CASE userChannel[u] = v
    <3>1. pc'[w] = "watch" /\ moved'[w].before = v
      BY <1>0, <1>1, <2>1
    <3> QED
      BY <1>0, <3>1 DEF LeavesSoon
  <2>2. CASE userChannel[u] # v
    <3>1. Humans(v) = {}
      BY <1>0, <1>1, <1>4, <2>2 DEF Humans
    <3>2. LeavesSoon(v)
      BY <1>4, <3>1 DEF SoonHeard, HeardOrLeaves
    <3>3. \A w2 \in Watchers : w2 # w => moved'[w2] = moved[w2]
      BY <1>0, <1>1
    <3> QED
      BY <1>0, <1>3, <3>2, <3>3 DEF LeavesSoon, Leaver, Coming, Passed
  <2> QED
    BY <2>1, <2>2
<1>5. HeardOrLeaves'
  BY <1>0, <1>4 DEF HeardOrLeaves
<1> QED
  BY <1>2, <1>5 DEF SoonHeard

LEMMA EventAlone ==
  ASSUME Calm, SoonHeard, PlaysToSomebody', VoiceInv, NEW e \in voiceEvents, HandleVoiceEvent(e),
         ~Overtaken
  PROVE  SoonHeard'
<1>0. /\ player \in GuildPlayer /\ e \in VoiceEvent
      /\ ~player.known => player.voiceChannelID = None
  BY CalmTypes DEF Calm, UnknownIsIdle
<1>1. UNCHANGED <<pc, chan, moved, botChannel, userChannel, voiceOps>>
  BY DEF HandleVoiceEvent, HandleVoiceState, HandleVoiceChannel, HandleVoiceServer, frames
<1>2. LeftForGood'
  BY <1>1 DEF SoonHeard, LeftForGood
<1>3. CASE HandleVoiceState(e)
  <2>1. Coming({"state", "channel"})'
    <3>1. [e EXCEPT !.kind = "channel"].kind = "channel"
      BY <1>0 DEF VoiceEvent
    <3> QED
      BY <1>3, <3>1 DEF HandleVoiceState, Coming
  <2>2. HeardOrLeaves'
    BY <2>1 DEF HeardOrLeaves, LeavesSoon
  <2> QED
    BY <1>2, <2>2 DEF SoonHeard
<1>4. CASE HandleVoiceChannel(e)
  <2>1. player'.voiceChannelID = e.channel
    BY <1>0, <1>4, PlayerFields DEF HandleVoiceChannel
  <2>2. e.channel = None \/ Humans(e.channel) # {}
    BY DEF SoonHeard, PlaysToSomebody
  <2>3. HeardOrLeaves'
    BY <1>1, <2>1, <2>2 DEF HeardOrLeaves, Humans
  <2> QED
    BY <1>2, <2>3 DEF SoonHeard
<1>5. CASE HandleVoiceServer(e)
  <2>1. player' = player /\ voiceEvents' = voiceEvents \ {e} /\ e.kind = "server"
    BY <1>5 DEF HandleVoiceServer
  <2>2. e.op = voiceOps
    BY <2>1 DEF Overtaken
  <2>3. Coming({"state", "channel"}) \/ Passed => Coming({"state", "channel"})' \/ Passed'
    BY <1>1, <2>1, <2>2 DEF Coming, Passed
  <2>4. ASSUME NEW ch, LeavesSoon(ch) PROVE LeavesSoon(ch)'
    BY <1>1, <2>3, <2>4 DEF LeavesSoon, Leaver
  <2>5. HeardOrLeaves'
    BY <1>1, <2>1, <2>4 DEF SoonHeard, HeardOrLeaves, Humans
  <2> QED
    BY <1>2, <2>5 DEF SoonHeard
<1> QED
  BY <1>3, <1>4, <1>5 DEF HandleVoiceEvent

LEMMA OutsideAlone ==
  ASSUME Calm, SoonHeard, PlaysToSomebody', Faults = {}, Read \/ TrackEnds \/ UNCHANGED vars
  PROVE  SoonHeard'
<1>0. player \in GuildPlayer /\ Reader \in Proc
  BY CalmTypes, Members
<1> USE DEF KeepsLeaving, Label
<1>1. CASE HandleTrackEnd
  BY <1>0, <1>1, AsideAlone, PlayerFields DEF HandleTrackEnd, discord
<1>2. CASE IgnoreTrackEnd \/ TrackEnds
  BY <1>0, <1>2, AsideAlone DEF IgnoreTrackEnd, TrackEnds, local, frames, discord
<1>3. CASE Send(Reader)
  BY <1>0, <1>3, AsideAlone DEF Send, Request, local, discord
<1>4. CASE UNCHANGED vars
  BY <1>0, <1>4, AsideAlone DEF vars, local, frames, discord
<1> QED
  BY <1>1, <1>2, <1>3, <1>4 DEF Read

LEMMA AloneNext ==
  ASSUME Calm, Apart, Apart', VoiceInv, AloneInv, Faults = {}, [Undisturbed]_vars
  PROVE  AloneInv'
<1> SUFFICES ASSUME NobodyModerates' PROVE SoonHeard'
  BY DEF AloneInv, SoonHeard
<1>0. [Next]_vars
  BY DEF Undisturbed
<1>1. NobodyModerates /\ PlaysToSomebody'
  BY <1>0, SomebodyStep
<1>2. SoonHeard
  BY <1>1 DEF AloneInv, SoonHeard
<1>3. ASSUME NEW t \in Track, Play(t) PROVE SoonHeard'
  BY <1>1, <1>2, <1>3, PlayAlone
<1>4. ASSUME NEW s \in Skips \cup Stops, Skip(s) \/ StopAll(s) PROVE SoonHeard'
  BY <1>1, <1>2, <1>4, SkipOrStopAlone
<1>5. ASSUME NEW p \in Leaves \cup Watchers, LeaveCommand(p) \/ (p \in Watchers /\ AutoLeave(p))
      PROVE  SoonHeard'
  BY <1>1, <1>2, <1>5, LeaveAlone
<1>6. ASSUME NEW w \in Watchers, NEW u \in User, NEW ch \in Channel \cup {None}, MemberMoves(w, u, ch)
      PROVE  SoonHeard'
  BY <1>1, <1>2, <1>6, MoveAlone
<1>7. ASSUME NEW e \in voiceEvents, HandleVoiceEvent(e), ~Overtaken PROVE SoonHeard'
  BY <1>1, <1>2, <1>7, EventAlone
<1>8. ASSUME NEW a \in Admins, NEW ch \in Channel \cup {None}, ModeratorMoves(a, ch) PROVE FALSE
  BY <1>8, CalmTypes, Members DEF ModeratorMoves, Goto, NobodyModerates
<1>9. CASE Undisturbed
  <2>1. Next /\ ~Overtaken
    BY <1>9 DEF Undisturbed
  <2> QED
    BY <1>1, <1>2, <1>3, <1>4, <1>5, <1>6, <1>7, <1>8, <2>1, OutsideAlone DEF Next
<1> QED
  BY <1>1, <1>2, <1>9, OutsideAlone

LEMMA AloneInit == Init => AloneInv
<1> SUFFICES ASSUME Init PROVE AloneInv
  OBVIOUS
<1>1. \A p \in Proc : pc[p] \in {"new", "idle"}
  BY DEF Init
<1>2. PlaysToSomebody /\ LeftForGood
  BY <1>1, Members, Strangers DEF Init, PlaysToSomebody, Pending, LeftForGood
<1>3. HeardOrLeaves
  BY DEF Init, HeardOrLeaves, Unknown
<1> QED
  BY <1>2, <1>3 DEF AloneInv

(* The last member to go makes the bot leave: whenever nothing is running  *)
(* and nothing is on its way, somebody is in the bot's channel, unless a   *)
(* moderator put it there (main.go:584-610).                               *)
THEOREM NeverLeftAlone ==
  ASSUME Faults = {}
  PROVE  SettledSpec => []NotAlone
<1>1. Calm /\ Calm' /\ VoiceInv /\ AloneInv /\ [Undisturbed]_vars => AloneInv'
  BY CalmApart, CalmApartNext, AloneNext
<1>2. AloneInv => NotAlone
  <2> SUFFICES ASSUME AloneInv, Quiet, NobodyModerates, player.voiceChannelID # None,
                      Humans(player.voiceChannelID) = {}
               PROVE  FALSE
    BY DEF NotAlone, NobodyModerates
  <2>1. ~Passed /\ \A kinds : ~Coming(kinds)
    BY DEF Quiet, Passed, Coming
  <2>2. LeavesSoon(player.voiceChannelID)
    BY DEF AloneInv, HeardOrLeaves
  <2> QED
    BY <2>1, <2>2, Members DEF Quiet, LeavesSoon, Leaver
<1> QED
  BY <1>1, <1>2, AloneInit, CalmInvariant, VoiceInvariant, PTL DEF SettledSpec
==============================================================================

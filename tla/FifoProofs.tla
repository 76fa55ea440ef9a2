----------------------------- MODULE FifoProofs ------------------------------
(***************************************************************************)
(* The player is a FIFO playlist to its listeners, for any number of       *)
(* commands, tracks and members, as long as no Lavalink request fails: a   *)
(* failed PlayTrack clears the current track without advancing, and that   *)
(* is the only step that breaks either theorem.                            *)
(***************************************************************************)
EXTENDS PlaylistProofs

(* What sequences with an element in front do.                             *)
LEMMA InFront ==
  ASSUME NEW S, NEW x \in S, NEW s \in Seq(S)
  PROVE  /\ <<x>> \o s \in Seq(S)
         /\ <<x>> \o s # << >>
         /\ Tail(<<x>> \o s) = s
         /\ \A y : y # x /\ (\A i \in DOMAIN s : s[i] # y)
                     => \A i \in DOMAIN (<<x>> \o s) : (<<x>> \o s)[i] # y
<1> DEFINE l == <<x>> \o s
<1>1. /\ l \in Seq(S) /\ s \in Seq(S) /\ Len(l) = Len(s) + 1 /\ Len(s) \in Nat
      /\ DOMAIN l = 1 .. Len(s) + 1 /\ DOMAIN s = 1 .. Len(s)
      /\ l[1] = x
  OBVIOUS
<1>2. \A i \in 1 .. Len(s) : l[i + 1] = s[i]
  OBVIOUS
<1> HIDE DEF l
<1>3. l # << >>
  BY <1>1
<1>4. Tail(l) = s
  <2>1. Tail(l) \in Seq(S) /\ Len(Tail(l)) = Len(s) /\ \A i \in 1 .. Len(s) : Tail(l)[i] = l[i + 1]
    BY <1>1, <1>3
  <2> QED
    BY <1>1, <1>2, <2>1
<1>5. ASSUME NEW y, y # x, \A i \in DOMAIN s : s[i] # y
      PROVE  \A i \in DOMAIN l : l[i] # y
  <2> SUFFICES ASSUME NEW i \in 1 .. Len(s) + 1 PROVE l[i] # y
    BY <1>1
  <2>1. CASE i = 1
    BY <1>1, <1>5, <2>1
  <2>2. CASE i # 1
    <3>1. i - 1 \in 1 .. Len(s) /\ (i - 1) + 1 = i
      BY <1>1, <2>2
    <3>2. l[i] = s[i - 1]
      BY <1>2, <3>1
    <3> QED
      BY <1>1, <1>5, <3>1, <3>2
  <2> QED
    BY <2>1, <2>2
<1> QED
  BY <1>1, <1>3, <1>4, <1>5 DEF l

LEMMA AppendBehind ==
  ASSUME NEW S, NEW x \in S, NEW s \in Seq(S), NEW y \in S, NEW l, l = <<x>> \o s
  PROVE  <<x>> \o Append(s, y) = Append(l, y)
OBVIOUS

------------------------------------------------------------------------------
(* Without failing requests no /play undoes its own track, so the current  *)
(* track is only ever replaced by the head of the queue.                   *)
NobodyClears == "rest" \notin Faults => \A p \in Proc : pc[p] # "clear"

FifoInv == Inv /\ NobodyClears /\ IdleMeansEmpty

(* What a step does to the list.                                           *)
Keeps == player'.queue = player.queue /\ player'.current = player.current

Drops == player'.queue = << >> /\ player'.current = None

Takes == player' = Advance(player)

Adds == \E t \in Track, ch \in Channel \cup {None} : Untaken(t) /\ player' = Enqueue(player, ch, t)

LEMMA PlayStep ==
  ASSUME FifoInv, "rest" \notin Faults, NEW t \in Track, Play(t)
  PROVE  NobodyClears' /\ (Keeps \/ Adds)
<1> USE DEF Keeps, NobodyClears, Goto
<1>0. /\ pc \in [Proc -> Label] /\ \A p \in Proc : pc[p] # "clear"
      /\ player \in GuildPlayer /\ t \in Proc /\ chan[t] \in Channel \cup {None}
  BY Members DEF FifoInv, Inv, TypeInv, TypeOK
<1>1. CASE Locate(t) \/ CheckActive(t) \/ Ensure(t)
  BY <1>0, <1>1 DEF Locate, CheckActive, Ensure, local
<1>2. CASE Join(t) \/ Await(t) \/ AwaitTimeout(t)
  BY <1>0, <1>2 DEF Join, VoiceJoin, Await, AwaitTimeout, local
<1>3. CASE Forward(t) \/ LoadFails(t)
  BY <1>0, <1>3 DEF Forward, Request, LoadFails, local
<1>4. CASE SetChannel(t)
  BY <1>0, <1>4 DEF SetChannel, SetVoiceChannel, GuildPlayer
<1>5. CASE LoadAndEnqueue(t)
  <2>1. Untaken(t)
    BY <1>5 DEF LoadAndEnqueue, Pending, FifoInv, Inv, OnceInv, PendingUntaken
  <2>2. Adds
    BY <1>0, <1>5, <2>1 DEF LoadAndEnqueue, Adds
  <2>3. NobodyClears'
    BY <1>0, <1>5 DEF LoadAndEnqueue
  <2> QED
    BY <2>2, <2>3
<1>6. CASE Send(t)
  BY <1>0, <1>6 DEF Send, Request, local
<1>7. CASE ClearAfterFailure(t)
  BY <1>0, <1>7 DEF ClearAfterFailure
<1> QED
  BY <1>1, <1>2, <1>3, <1>4, <1>5, <1>6, <1>7 DEF Play

LEMMA CommandStep ==
  ASSUME FifoInv, "rest" \notin Faults, NEW p \in Proc \ Track,
         Skip(p) \/ StopAll(p) \/ LeaveCommand(p) \/ AutoLeave(p)
  PROVE  NobodyClears' /\ (Keeps \/ Takes \/ Drops)
<1> USE DEF Keeps, NobodyClears, Goto
<1>0. /\ pc \in [Proc -> Label] /\ \A q \in Proc : pc[q] # "clear"
      /\ player \in GuildPlayer
  BY DEF FifoInv, Inv, TypeInv, TypeOK
<1>1. CASE \E b \in BOOLEAN : Snapshot(p, b)
  BY <1>0, <1>1 DEF Snapshot, local
<1>2. CASE RequireInChannel(p, "advance") \/ RequireInChannel(p, "stop") \/ RequireInChannel(p, "begin")
  BY <1>0, <1>2 DEF RequireInChannel, local
<1>3. CASE SkipAdvance(p)
  BY <1>0, <1>3 DEF SkipAdvance, Takes
<1>4. CASE StopPlayer(p)
  BY <1>0, <1>4 DEF StopPlayer, Stop, Drops, GuildPlayer
<1>5. CASE Halt(p) \/ Destroy(p)
  BY <1>0, <1>5 DEF Halt, Destroy, Request, local
<1>6. CASE Send(p)
  BY <1>0, <1>6 DEF Send, Request, local
<1>7. CASE Watch(p) \/ Count(p)
  BY <1>0, <1>7 DEF Watch, Count, local
<1>8. CASE BeginLeave(p) \/ ClearVoice(p) \/ FinishLeave(p)
  BY <1>0, <1>8 DEF BeginLeave, ClearVoice, FinishLeave
<1>9. CASE LeavePlayer(p)
  BY <1>0, <1>9 DEF LeavePlayer, Leave, Unknown, Drops
<1>10. CASE Disconnect(p)
  BY <1>0, <1>10 DEF Disconnect, VoiceJoin, local
<1> QED
  BY <1>1, <1>2, <1>3, <1>4, <1>5, <1>6, <1>7, <1>8, <1>9, <1>10
  DEF Skip, StopAll, LeaveCommand, AutoLeave, LeaveGuildVoice, SkipSnapshot, StopSnapshot,
      LeaveSnapshot

LEMMA ReadStep ==
  ASSUME FifoInv, "rest" \notin Faults, Read
  PROVE  NobodyClears' /\ (Keeps \/ Takes)
<1> USE DEF Keeps, NobodyClears, Goto
<1>0. /\ pc \in [Proc -> Label] /\ \A q \in Proc : pc[q] # "clear"
      /\ Reader \in Proc \ Track
  BY Strangers DEF FifoInv, Inv, TypeInv, TypeOK
<1>1. CASE HandleTrackEnd
  BY <1>0, <1>1 DEF HandleTrackEnd, Takes
<1>2. CASE IgnoreTrackEnd
  BY <1>0, <1>2 DEF IgnoreTrackEnd, local
<1>3. CASE Send(Reader)
  BY <1>0, <1>3 DEF Send, Request, local
<1> QED
  BY <1>1, <1>2, <1>3 DEF Read

LEMMA OutsideStep ==
  ASSUME FifoInv, "rest" \notin Faults,
         \/ \E w \in Watchers, u \in User, ch \in Channel \cup {None} : MemberMoves(w, u, ch)
         \/ \E e \in voiceEvents : HandleVoiceEvent(e)
         \/ TrackEnds
         \/ \E a \in Admins, ch \in Channel \cup {None} : ModeratorMoves(a, ch)
         \/ UNCHANGED vars
  PROVE  NobodyClears' /\ Keeps
<1>1. Keeps
  BY OutsideSteps DEF FifoInv, Keeps
<1>2. NobodyClears'
  <2>1. pc \in [Proc -> Label] /\ \A q \in Proc : pc[q] # "clear"
    BY DEF FifoInv, Inv, TypeInv, TypeOK, NobodyClears
  <2>2. \/ \E p \in Proc, l \in {"watch", "done"} : Goto(p, l)
        \/ pc' = pc
    BY Members
    DEF MemberMoves, HandleVoiceEvent, HandleVoiceState, HandleVoiceChannel, HandleVoiceServer,
        TrackEnds, ModeratorMoves, vars
  <2> QED
    BY <2>1, <2>2 DEF NobodyClears, Goto
<1> QED
  BY <1>1, <1>2

LEMMA ListStep ==
  ASSUME FifoInv, "rest" \notin Faults, [Next]_vars
  PROVE  NobodyClears' /\ (Keeps \/ Adds \/ Takes \/ Drops)
<1>1. CASE \E t \in Track : Play(t)
  BY <1>1, PlayStep
<1>2. CASE \/ \E s \in Skips : Skip(s)
           \/ \E s \in Stops : StopAll(s)
           \/ \E l \in Leaves : LeaveCommand(l)
           \/ \E w \in Watchers : AutoLeave(w)
  BY <1>2, CommandStep, Strangers
<1>3. CASE Read
  BY <1>3, ReadStep
<1>4. CASE \/ \E w \in Watchers, u \in User, ch \in Channel \cup {None} : MemberMoves(w, u, ch)
           \/ \E e \in voiceEvents : HandleVoiceEvent(e)
           \/ TrackEnds
           \/ \E a \in Admins, ch \in Channel \cup {None} : ModeratorMoves(a, ch)
           \/ UNCHANGED vars
  BY <1>4, OutsideStep
<1> QED
  BY <1>1, <1>2, <1>3, <1>4 DEF Next

------------------------------------------------------------------------------
(* Each kind of step keeps the queue empty behind an idle player, and maps *)
(* to a step of the playlist.                                              *)
LEMMA PlaylistStep ==
  ASSUME FifoInv, FifoInv', "rest" \notin Faults, Keeps \/ Adds \/ Takes \/ Drops
  PROVE  [Guild!Next]_(Upcoming(player))
<1>1. /\ player \in GuildPlayer /\ player' \in GuildPlayer
      /\ player.queue \in Seq(Track) /\ player'.queue \in Seq(Track)
      /\ player.current \in Track \cup {None} /\ None \notin Track
  BY TrackAssumption DEF FifoInv, Inv, TypeInv, TypeOK, GuildPlayer
<1>2. /\ player.current = None => Upcoming(player) = << >>
      /\ player'.current = None => Upcoming(player') = << >>
  BY DEF FifoInv, IdleMeansEmpty, Upcoming
<1>3. ASSUME Keeps PROVE UNCHANGED Upcoming(player)
  BY <1>3 DEF Keeps, Upcoming
<1>4. ASSUME Drops PROVE Guild!Reset
  BY <1>2, <1>4 DEF Drops, Guild!Reset
<1>5. ASSUME Takes PROVE Guild!Drop \/ UNCHANGED Upcoming(player)
  <2>1. CASE player.current = None
    BY <1>5, <2>1 DEF Takes, Advance
  <2>2. CASE player.current # None
    <3>1. player.current \in Track /\ Upcoming(player) = <<player.current>> \o player.queue
      BY <1>1, <2>2 DEF Upcoming
    <3>2. Upcoming(player) # << >> /\ Tail(Upcoming(player)) = player.queue
      BY <1>1, <3>1, InFront
    <3>3. Upcoming(player') = player.queue
      <4>1. CASE player.queue = << >>
        <5>1. player'.current = None
          BY <1>1, <1>5, <2>2, <4>1 DEF Takes, Advance, GuildPlayer
        <5> QED
          BY <1>2, <4>1, <5>1
      <4>2. CASE player.queue # << >>
        <5>1. player'.current = Head(player.queue) /\ player'.queue = Tail(player.queue)
          BY <1>1, <1>5, <2>2, <4>2 DEF Takes, Advance, GuildPlayer
        <5>2. Head(player.queue) \in Track /\ <<Head(player.queue)>> \o Tail(player.queue) = player.queue
          BY <1>1, <4>2
        <5> QED
          BY <1>1, <5>1, <5>2 DEF Upcoming
      <4> QED
        BY <4>1, <4>2
    <3> QED
      BY <3>2, <3>3 DEF Guild!Drop
  <2> QED
    BY <2>1, <2>2
<1>6. ASSUME Adds PROVE \E t \in Track : Guild!Accept(t)
  <2>1. PICK t \in Track, ch \in Channel \cup {None} : Untaken(t) /\ player' = Enqueue(player, ch, t)
    BY <1>6 DEF Adds
  <2>2. t # player.current /\ \A i \in DOMAIN player.queue : player.queue[i] # t
    BY <2>1 DEF Untaken, Elems
  <2>3. CASE player.current = None
    <3>1. player'.current = t /\ player'.queue = << >>
      BY <1>1, <2>1, <2>3 DEF Enqueue, EnqueueStarts, GuildPlayer, FifoInv, IdleMeansEmpty
    <3>2. Upcoming(player') = <<t>> /\ Upcoming(player) = << >>
      BY <1>1, <1>2, <2>3, <3>1 DEF Upcoming
    <3> QED
      BY <3>2 DEF Guild!Accept
  <2>4. CASE player.current # None
    <3>1. player.current \in Track /\ Upcoming(player) = <<player.current>> \o player.queue
      BY <1>1, <2>4 DEF Upcoming
    <3>2. player'.current = player.current /\ player'.queue = Append(player.queue, t)
      BY <1>1, <2>1, <2>4 DEF Enqueue, EnqueueStarts, GuildPlayer
    <3>3. Upcoming(player') = <<player.current>> \o Append(player.queue, t)
      BY <2>4, <3>2 DEF Upcoming
    <3>4. Upcoming(player') = Append(Upcoming(player), t)
      <4> DEFINE c == player.current
                 q == player.queue
                 l == Upcoming(player)
      <4>1. c \in Track /\ q \in Seq(Track) /\ l = <<c>> \o q
        BY <1>1, <3>1
      <4> HIDE DEF c, q, l
      <4>2. <<c>> \o Append(q, t) = Append(l, t)
        BY <4>1, AppendBehind
      <4> QED
        BY <3>3, <4>2 DEF c, q, l
    <3>5. \A i \in DOMAIN Upcoming(player) : Upcoming(player)[i] # t
      BY <1>1, <2>2, <3>1, InFront
    <3> QED
      BY <3>4, <3>5 DEF Guild!Accept
  <2> QED
    BY <2>3, <2>4
<1> QED
  BY <1>3, <1>4, <1>5, <1>6 DEF Guild!Next

LEMMA IdleStep ==
  ASSUME FifoInv, Inv', "rest" \notin Faults, Keeps \/ Adds \/ Takes \/ Drops
  PROVE  IdleMeansEmpty'
<1>1. player \in GuildPlayer /\ None \notin Track /\ (player.current = None => player.queue = << >>)
  BY TrackAssumption DEF FifoInv, Inv, TypeInv, TypeOK, IdleMeansEmpty
<1> SUFFICES player'.current = None => player'.queue = << >>
  BY DEF IdleMeansEmpty
<1>2. CASE Keeps \/ Drops
  BY <1>1, <1>2 DEF Keeps, Drops
<1>3. CASE Adds
  BY <1>1, <1>3 DEF Adds, Enqueue, EnqueueStarts, GuildPlayer
<1>4. CASE Takes
  <2>1. player.queue # << >> => Head(player.queue) \in Track
    BY <1>1 DEF GuildPlayer
  <2> QED
    BY <1>1, <1>4, <2>1 DEF Takes, Advance, GuildPlayer
<1> QED
  BY <1>2, <1>3, <1>4

LEMMA FifoInit == Init => FifoInv
BY TypeInit, OnceInit DEF Init, FifoInv, Inv, NobodyClears, IdleMeansEmpty, Unknown

LEMMA FifoNext == FifoInv /\ [Next]_vars => FifoInv'
<1> SUFFICES ASSUME FifoInv, [Next]_vars PROVE FifoInv'
  OBVIOUS
<1>1. Inv'
  BY TypeNext, OnceNext DEF FifoInv, Inv
<1>2. CASE "rest" \in Faults
  BY <1>1, <1>2 DEF FifoInv, NobodyClears, IdleMeansEmpty
<1>3. CASE "rest" \notin Faults
  BY <1>1, <1>3, ListStep, IdleStep DEF FifoInv
<1> QED
  BY <1>2, <1>3

LEMMA FifoInvariant == Spec => []FifoInv
BY FifoInit, FifoNext, PTL DEF Spec, Safety

(* Nothing is queued behind an idle player, so the /play that finds it     *)
(* idle overtakes nobody (manager.go:53).                                  *)
THEOREM NobodyIsOvertaken == Spec => []IdleMeansEmpty
<1>1. FifoInv => IdleMeansEmpty
  BY DEF FifoInv
<1> QED
  BY <1>1, FifoInvariant, PTL

(* However /play, /skip, /stop, a leave and the track-end handler          *)
(* interleave, what the guild will hear changes only as the playlist       *)
(* allows: append a new track, drop the first, drop everything.            *)
THEOREM PlayerIsAPlaylist ==
  ASSUME "rest" \notin Faults
  PROVE  Spec => ImplementsPlaylist
<1>1. Init => Guild!Init
  BY DEF Init, Unknown, Upcoming, Guild!Init
<1>2. FifoInv /\ FifoInv' /\ [Next]_vars => [Guild!Next]_(Upcoming(player))
  BY ListStep, PlaylistStep
<1> QED
  BY <1>1, <1>2, FifoInvariant, PTL DEF Spec, Safety, ImplementsPlaylist, Guild!Spec
==============================================================================

--------------------------- MODULE PlaylistProofs ----------------------------
(***************************************************************************)
(* What happens to tracks, for any number of them and of everybody else:   *)
(* no track is requested of Lavalink twice, whatever fails.                *)
(***************************************************************************)
EXTENDS MusicBotProofs

Elems(s) == {s[i] : i \in DOMAIN s}

Distinct(s) == \A i, j \in DOMAIN s : s[i] = s[j] => i = j

LEMMA AppendElems ==
  ASSUME NEW s \in Seq(Track), NEW x \in Track
  PROVE  /\ Elems(Append(s, x)) = Elems(s) \cup {x}
         /\ Distinct(s) /\ x \notin Elems(s) => Distinct(Append(s, x))
<1>1. /\ DOMAIN Append(s, x) = 1 .. Len(s) + 1 /\ DOMAIN s = 1 .. Len(s) /\ Len(s) \in Nat
      /\ \A i \in 1 .. Len(s) : Append(s, x)[i] = s[i]
      /\ Append(s, x)[Len(s) + 1] = x
  OBVIOUS
<1>2. \A i \in 1 .. Len(s) + 1 : i \in 1 .. Len(s) \/ i = Len(s) + 1
  BY <1>1
<1>3. Len(s) + 1 \in 1 .. Len(s) + 1 /\ 1 .. Len(s) \subseteq 1 .. Len(s) + 1
  BY <1>1
<1>4. Elems(Append(s, x)) = Elems(s) \cup {x}
  BY <1>1, <1>2, <1>3 DEF Elems
<1>5. ASSUME Distinct(s), x \notin Elems(s)
      PROVE  Distinct(Append(s, x))
  BY <1>1, <1>2, <1>5 DEF Distinct, Elems
<1> QED
  BY <1>4, <1>5

LEMMA TailElems ==
  ASSUME NEW s \in Seq(Track), s # << >>
  PROVE  /\ Head(s) \in Elems(s)
         /\ Elems(Tail(s)) \subseteq Elems(s)
         /\ Distinct(s) => Distinct(Tail(s)) /\ Head(s) \notin Elems(Tail(s))
<1>1. /\ DOMAIN s = 1 .. Len(s) /\ Len(s) \in Nat /\ Len(s) # 0 /\ Head(s) = s[1]
      /\ DOMAIN Tail(s) = 1 .. Len(s) - 1
      /\ \A i \in 1 .. Len(s) - 1 : Tail(s)[i] = s[i + 1]
  OBVIOUS
<1>2. 1 \in 1 .. Len(s) /\ \A i \in 1 .. Len(s) - 1 : i + 1 \in 1 .. Len(s) /\ i + 1 # 1
  BY <1>1
<1>3. Head(s) \in Elems(s) /\ Elems(Tail(s)) \subseteq Elems(s)
  BY <1>1, <1>2 DEF Elems
<1>4. ASSUME Distinct(s)
      PROVE  Distinct(Tail(s))
  <2> SUFFICES ASSUME NEW i \in 1 .. Len(s) - 1, NEW j \in 1 .. Len(s) - 1, Tail(s)[i] = Tail(s)[j]
               PROVE  i = j
    BY <1>1 DEF Distinct
  <2>1. i + 1 = j + 1
    BY <1>1, <1>2, <1>4 DEF Distinct
  <2> QED
    BY <2>1
<1>5. ASSUME Distinct(s)
      PROVE  Head(s) \notin Elems(Tail(s))
  BY <1>1, <1>2, <1>5 DEF Distinct, Elems
<1> QED
  BY <1>3, <1>4, <1>5

------------------------------------------------------------------------------
(* Before its /play enqueues it, a track is nowhere; a queued track has    *)
(* been neither requested nor handed to a goroutine; and a track handed to *)
(* one is its alone and not requested yet.  Each clause is what makes the  *)
(* next one inductive.                                                     *)
Pending ==
  {"new", "check", "ensure", "join", "await", "forward", "setChannel", "load"}

Untaken(t) ==
  /\ t # player.current
  /\ t \notin Elems(player.queue) \cup Elems(sent)
  /\ \A p \in Proc : next[p] # t

PendingUntaken == \A t \in Track : pc[t] \in Pending => Untaken(t)

QueuedOnce ==
  /\ Distinct(player.queue)
  /\ \A t \in Elems(player.queue) : t \notin Elems(sent) /\ \A p \in Proc : next[p] # t

HandedOnce ==
  /\ \A p \in Proc : next[p] \notin Elems(sent)
  /\ \A p, q \in Proc : next[p] = next[q] => next[p] = None \/ p = q

OnceInv == PendingUntaken /\ QueuedOnce /\ HandedOnce /\ Distinct(sent)

Inv == TypeInv /\ OnceInv

(* The kinds of step that matter here.                                     *)
Moves(p) ==
  \E l \in Label : Goto(p, l) /\ (p \in Track /\ l \in Pending => pc[p] \in Pending)

LEMMA OtherSteps ==
  ASSUME Inv, TypeInv', UNCHANGED <<next, sent>>,
         pc' = pc \/ \E p \in Proc : Moves(p),
         player'.queue \in {player.queue, << >>}, player'.current \in {player.current, None}
  PROVE  OnceInv'
<1>1. \A t \in Track : pc'[t] \in Pending => pc[t] \in Pending
  BY DEF Moves, Goto, Inv, TypeInv, TypeOK, Proc
<1>2. Distinct(player'.queue) /\ Elems(player'.queue) \subseteq Elems(player.queue)
  BY DEF Inv, OnceInv, QueuedOnce, Distinct, Elems
<1>3. None \notin Track
  BY TrackAssumption
<1>4. PendingUntaken'
  BY <1>1, <1>2, <1>3 DEF Inv, OnceInv, PendingUntaken, Untaken
<1>5. QueuedOnce' /\ HandedOnce' /\ Distinct(sent)'
  BY <1>2 DEF Inv, OnceInv, QueuedOnce, HandedOnce, Distinct
<1> QED
  BY <1>4, <1>5 DEF OnceInv

LEMMA EnqueueOnce ==
  ASSUME Inv, NEW t \in Track, LoadAndEnqueue(t)
  PROVE  OnceInv'
<1>1. Untaken(t) /\ pc'[t] \notin Pending /\ \A u \in Track : u # t => pc'[u] = pc[u]
  BY DEF LoadAndEnqueue, Goto, Pending, Inv, OnceInv, PendingUntaken, TypeInv, TypeOK, Proc
<1>2. sent' = sent /\ player.queue \in Seq(Track) /\ t # None
  BY TrackAssumption DEF LoadAndEnqueue, lavalink, Inv, TypeInv, TypeOK, GuildPlayer
<1>3. CASE EnqueueStarts(player)
  <2>1. player'.current = t /\ player'.queue = player.queue
    BY <1>3 DEF LoadAndEnqueue, Enqueue, Inv, TypeInv, TypeOK, GuildPlayer
  <2>2. next' = [next EXCEPT ![t] = t]
    BY <1>3 DEF LoadAndEnqueue
  <2>3. PendingUntaken'
    BY <1>1, <1>2, <2>1, <2>2
    DEF Inv, OnceInv, PendingUntaken, Untaken, TypeInv, TypeOK, Proc
  <2>4. QueuedOnce'
    BY <1>1, <1>2, <2>1, <2>2 DEF Inv, OnceInv, QueuedOnce, Untaken, TypeInv, TypeOK
  <2>5. HandedOnce'
    BY <1>1, <1>2, <2>2 DEF Inv, OnceInv, HandedOnce, Untaken, TypeInv, TypeOK
  <2> QED
    BY <1>2, <2>3, <2>4, <2>5 DEF Inv, OnceInv, Distinct
<1>4. CASE ~EnqueueStarts(player)
  <2>1. player'.current = player.current /\ player'.queue = Append(player.queue, t)
    BY <1>4 DEF LoadAndEnqueue, Enqueue, Inv, TypeInv, TypeOK, GuildPlayer
  <2>2. next' = next
    BY <1>4 DEF LoadAndEnqueue
  <2>3. /\ Elems(player'.queue) = Elems(player.queue) \cup {t}
        /\ Distinct(player'.queue)
    BY <1>1, <1>2, <2>1, AppendElems DEF Inv, OnceInv, QueuedOnce, Untaken
  <2>4. PendingUntaken'
    BY <1>1, <1>2, <2>1, <2>2, <2>3 DEF Inv, OnceInv, PendingUntaken, Untaken
  <2>5. QueuedOnce' /\ HandedOnce'
    BY <1>1, <1>2, <2>2, <2>3 DEF Inv, OnceInv, QueuedOnce, HandedOnce, Untaken
  <2> QED
    BY <1>2, <2>4, <2>5 DEF Inv, OnceInv, Distinct
<1> QED
  BY <1>3, <1>4

(* /skip and the track-end handler take a track in the same way.           *)
LEMMA AdvanceOnce ==
  ASSUME Inv, NEW p \in Proc, Moves(p),
         player' = Advance(player), next' = [next EXCEPT ![p] = AdvanceNext(player)],
         UNCHANGED sent
  PROVE  OnceInv'
<1>1. \A t \in Track : pc'[t] \in Pending => pc[t] \in Pending
  BY DEF Moves, Goto, Inv, TypeInv, TypeOK, Proc
<1>2. player.queue \in Seq(Track) /\ None \notin Track /\ None \notin Elems(sent)
  BY TrackAssumption DEF Inv, TypeInv, TypeOK, GuildPlayer, Elems
<1>3. CASE AdvanceNext(player) = None
  <2>1. player'.queue = player.queue /\ player'.current \in {player.current, None}
    <3>1. player.queue # << >> => Head(player.queue) \in Track
      BY <1>2
    <3> QED
      BY <1>2, <1>3, <3>1 DEF Advance, AdvanceNext, Inv, TypeInv, TypeOK, GuildPlayer
  <2>2. PendingUntaken'
    BY <1>1, <1>2, <1>3, <2>1
    DEF Inv, OnceInv, PendingUntaken, Untaken, TypeInv, TypeOK
  <2>3. QueuedOnce'
    <3>1. Elems(player.queue) \subseteq Track
      BY <1>2 DEF Elems
    <3> QED
      BY <1>2, <1>3, <2>1, <3>1 DEF Inv, OnceInv, QueuedOnce, TypeInv, TypeOK
  <2>4. HandedOnce'
    BY <1>2, <1>3 DEF Inv, OnceInv, HandedOnce, TypeInv, TypeOK
  <2> QED
    BY <2>2, <2>3, <2>4 DEF Inv, OnceInv, Distinct
<1>4. CASE AdvanceNext(player) # None
  <2> DEFINE h == Head(player.queue)
  <2>1. player.queue # << >> /\ AdvanceNext(player) = h
    BY <1>4 DEF AdvanceNext
  <2>2. player'.queue = Tail(player.queue) /\ player'.current = h
    BY <1>4 DEF Advance, AdvanceNext, Inv, TypeInv, TypeOK, GuildPlayer
  <2>3. /\ h \in Elems(player.queue) /\ h \notin Elems(player'.queue)
        /\ Elems(player'.queue) \subseteq Elems(player.queue)
        /\ Distinct(player'.queue)
    BY <1>2, <2>1, <2>2, TailElems DEF Inv, OnceInv, QueuedOnce
  <2>4. next' = [next EXCEPT ![p] = h]
    BY <2>1
  <2> HIDE DEF h
  <2>5. h \notin Elems(sent) /\ \A q \in Proc : next[q] # h
    BY <2>3 DEF Inv, OnceInv, QueuedOnce
  <2>6. PendingUntaken'
    BY <1>1, <2>2, <2>3, <2>4 DEF Inv, OnceInv, PendingUntaken, Untaken, TypeInv, TypeOK
  <2>7. QueuedOnce'
    BY <2>3, <2>4, <2>5 DEF Inv, OnceInv, QueuedOnce, TypeInv, TypeOK
  <2>8. HandedOnce'
    BY <2>4, <2>5 DEF Inv, OnceInv, HandedOnce, TypeInv, TypeOK
  <2> QED
    BY <2>6, <2>7, <2>8 DEF Inv, OnceInv, Distinct
<1> QED
  BY <1>3, <1>4

LEMMA SendOnce ==
  ASSUME Inv, NEW p \in Proc, Send(p)
  PROVE  OnceInv'
<1>1. next[p] \in Track /\ next[p] # None
  BY TrackAssumption DEF Send, Inv, TypeInv, SendHasTrack
<1>2. PICK l \in {"idle", "done", "clear"} : Goto(p, l)
  BY DEF Send, Request
<1>3. \A t \in Track : pc'[t] \in Pending => pc[t] \in Pending
  BY <1>2 DEF Goto, Pending, Inv, TypeInv, TypeOK, Proc
<1>4. sent' = Append(sent, next[p]) /\ next' = [next EXCEPT ![p] = None] /\ player' = player
  BY DEF Send, local
<1>5. Elems(sent') = Elems(sent) \cup {next[p]} /\ Distinct(sent')
  BY <1>1, <1>4, AppendElems DEF Inv, TypeInv, TypeOK, OnceInv, HandedOnce
<1>6. PendingUntaken'
  BY <1>1, <1>3, <1>4, <1>5, TrackAssumption
  DEF Inv, OnceInv, PendingUntaken, Untaken, TypeInv, TypeOK
<1>7. QueuedOnce'
  <2>1. Elems(player.queue) \subseteq Track
    BY DEF Inv, TypeInv, TypeOK, GuildPlayer, Elems
  <2> QED
    BY <1>1, <1>4, <1>5, <2>1, TrackAssumption
    DEF Inv, OnceInv, QueuedOnce, TypeInv, TypeOK
<1>8. HandedOnce'
  <2>1. Elems(sent) \subseteq Track
    BY DEF Inv, TypeInv, TypeOK, Elems
  <2>2. None \notin Elems(sent')
    BY <1>1, <1>5, <2>1, TrackAssumption
  <2> QED
    BY <1>1, <1>4, <1>5, <2>2 DEF Inv, OnceInv, HandedOnce, TypeInv, TypeOK
<1> QED
  BY <1>5, <1>6, <1>7, <1>8 DEF OnceInv

(* Every other step only moves a goroutine on, and leaves the queue as it  *)
(* is or empties it.                                                       *)
LEMMA OtherPlaySteps ==
  ASSUME Inv, NEW t \in Track, Play(t), ~Send(t), ~LoadAndEnqueue(t)
  PROVE  /\ Moves(t) /\ UNCHANGED <<next, sent>>
         /\ player'.queue = player.queue /\ player'.current \in {player.current, None}
<1> USE DEF Moves, Label, Pending
<1>1. CASE Locate(t) \/ CheckActive(t) \/ Ensure(t)
  BY <1>1 DEF Locate, CheckActive, Ensure, local, frames, lavalink
<1>2. CASE Join(t) \/ Await(t) \/ AwaitTimeout(t)
  BY <1>2 DEF Join, VoiceJoin, Await, AwaitTimeout, local, frames, lavalink
<1>3. CASE Forward(t) \/ LoadFails(t)
  BY <1>3 DEF Forward, Request, LoadFails, local, frames, lavalink
<1>4. CASE SetChannel(t)
  BY <1>4 DEF SetChannel, SetVoiceChannel, frames, lavalink, Inv, TypeInv, TypeOK, GuildPlayer
<1>5. CASE ClearAfterFailure(t)
  BY <1>5 DEF ClearAfterFailure, ClearCurrent, frames, lavalink, Inv, TypeInv, TypeOK, GuildPlayer
<1> QED
  BY <1>1, <1>2, <1>3, <1>4, <1>5 DEF Play

LEMMA OtherCommandSteps ==
  ASSUME Inv, NEW p \in Proc \ Track,
         \/ Skip(p) /\ ~Send(p) /\ ~SkipAdvance(p)
         \/ StopAll(p)
         \/ LeaveCommand(p)
         \/ AutoLeave(p)
  PROVE  /\ Moves(p) /\ UNCHANGED <<next, sent>>
         /\ player'.queue \in {player.queue, << >>} /\ player'.current \in {player.current, None}
<1> USE DEF Moves, Label
<1>1. CASE \E b \in BOOLEAN : Snapshot(p, b)
  BY <1>1 DEF Snapshot, local, lavalink
<1>2. CASE RequireInChannel(p, "advance") \/ RequireInChannel(p, "stop") \/ RequireInChannel(p, "begin")
  BY <1>2 DEF RequireInChannel, local, frames, lavalink
<1>3. CASE StopPlayer(p)
  BY <1>3 DEF StopPlayer, Stop, frames, lavalink, Inv, TypeInv, TypeOK, GuildPlayer
<1>4. CASE Halt(p) \/ Destroy(p)
  BY <1>4 DEF Halt, Destroy, Request, local, frames
<1>5. CASE Watch(p) \/ Count(p)
  BY <1>5 DEF Watch, Count, local, frames, lavalink
<1>6. CASE BeginLeave(p) \/ ClearVoice(p) \/ FinishLeave(p)
  BY <1>6 DEF BeginLeave, ClearVoice, FinishLeave, frames, lavalink
<1>7. CASE LeavePlayer(p)
  BY <1>7 DEF LeavePlayer, Leave, Unknown, frames, lavalink
<1>8. CASE Disconnect(p)
  BY <1>8 DEF Disconnect, VoiceJoin, local, frames, lavalink
<1> QED
  BY <1>1, <1>2, <1>3, <1>4, <1>5, <1>6, <1>7, <1>8
  DEF Skip, StopAll, LeaveCommand, AutoLeave, LeaveGuildVoice, SkipSnapshot, StopSnapshot,
      LeaveSnapshot

LEMMA OutsideSteps ==
  ASSUME Inv,
         \/ \E w \in Watchers, u \in User, ch \in Channel \cup {None} : MemberMoves(w, u, ch)
         \/ \E e \in voiceEvents : HandleVoiceEvent(e)
         \/ IgnoreTrackEnd
         \/ TrackEnds
         \/ \E a \in Admins, ch \in Channel \cup {None} : ModeratorMoves(a, ch)
         \/ UNCHANGED vars
  PROVE  /\ pc' = pc \/ \E p \in Proc : Moves(p)
         /\ UNCHANGED <<next, sent>>
         /\ player'.queue = player.queue /\ player'.current = player.current
<1>1. CASE \E w \in Watchers, u \in User, ch \in Channel \cup {None} : MemberMoves(w, u, ch)
  BY <1>1, Members DEF MemberMoves, Moves, Label, Pending, local, lavalink
<1>2. CASE \E e \in voiceEvents : HandleVoiceEvent(e)
  <2>1. player' = player \/ \E ch \in Channel \cup {None} : player' = SetVoiceChannel(player, ch)
    BY <1>2
    DEF HandleVoiceEvent, HandleVoiceState, HandleVoiceChannel, HandleVoiceServer, Inv, TypeInv,
        TypeOK, VoiceEvent
  <2>2. player'.queue = player.queue /\ player'.current = player.current
    BY <2>1 DEF SetVoiceChannel, Inv, TypeInv, TypeOK, GuildPlayer
  <2> QED
    BY <1>2, <2>2
    DEF HandleVoiceEvent, HandleVoiceState, HandleVoiceChannel, HandleVoiceServer, frames, lavalink
<1>3. CASE IgnoreTrackEnd \/ TrackEnds
  BY <1>3 DEF IgnoreTrackEnd, TrackEnds, local, frames
<1>4. CASE \E a \in Admins, ch \in Channel \cup {None} : ModeratorMoves(a, ch)
  BY <1>4, Members DEF ModeratorMoves, Moves, Label, Pending, local, frames, lavalink
<1>5. CASE UNCHANGED vars
  BY <1>5 DEF vars, local, frames, lavalink
<1> QED
  BY <1>1, <1>2, <1>3, <1>4, <1>5

LEMMA TakingSteps ==
  ASSUME Inv, NEW p \in Proc \ Track, SkipAdvance(p) \/ (p = Reader /\ HandleTrackEnd)
  PROVE  OnceInv'
<1>1. Moves(p)
  BY DEF SkipAdvance, HandleTrackEnd, Moves, Label
<1> QED
  BY <1>1, AdvanceOnce DEF SkipAdvance, HandleTrackEnd, lavalink

LEMMA Strangers ==
  /\ \A s \in Skips \cup Stops \cup Leaves \cup Watchers : s \in Proc \ Track
  /\ Reader \in Proc \ Track
BY ProcAssumption DEF Proc

LEMMA OnceNext == Inv /\ [Next]_vars => OnceInv'
<1> SUFFICES ASSUME Inv, [Next]_vars PROVE OnceInv'
  OBVIOUS
<1>0. TypeInv'
  BY TypeNext DEF Inv
<1>1. CASE \E t \in Track : Play(t)
  BY <1>0, <1>1, OtherPlaySteps, OtherSteps, EnqueueOnce, SendOnce, Members
<1>2. CASE \E s \in Skips : Skip(s)
  BY <1>0, <1>2, OtherCommandSteps, OtherSteps, TakingSteps, SendOnce, Strangers
<1>3. CASE \/ \E s \in Stops : StopAll(s)
           \/ \E l \in Leaves : LeaveCommand(l)
           \/ \E w \in Watchers : AutoLeave(w)
  BY <1>0, <1>3, OtherCommandSteps, OtherSteps, Strangers
<1>4. CASE Read
  BY <1>0, <1>4, OutsideSteps, OtherSteps, TakingSteps, SendOnce, Strangers DEF Read
<1>5. CASE \/ \E w \in Watchers, u \in User, ch \in Channel \cup {None} : MemberMoves(w, u, ch)
           \/ \E e \in voiceEvents : HandleVoiceEvent(e)
           \/ TrackEnds
           \/ \E a \in Admins, ch \in Channel \cup {None} : ModeratorMoves(a, ch)
           \/ UNCHANGED vars
  BY <1>0, <1>5, OutsideSteps, OtherSteps
<1> QED
  BY <1>1, <1>2, <1>3, <1>4, <1>5 DEF Next

LEMMA OnceInit == Init => OnceInv
<1> SUFFICES ASSUME Init PROVE OnceInv
  OBVIOUS
<1>1. Elems(<< >>) = {} /\ Distinct(<< >>)
  BY DEF Elems, Distinct
<1> QED
  BY <1>1, TrackAssumption
  DEF Init, Unknown, OnceInv, PendingUntaken, Untaken, QueuedOnce, HandedOnce

THEOREM BotInvariant == Spec => []Inv
<1>1. Init => Inv
  BY TypeInit, OnceInit DEF Inv
<1>2. Inv /\ [Next]_vars => Inv'
  BY TypeNext, OnceNext DEF Inv
<1> QED
  BY <1>1, <1>2, PTL DEF Spec, Safety

(* Each track is requested of Lavalink at most once, whoever takes it from *)
(* the player and whatever fails.                                          *)
THEOREM NoTrackIsSentTwice == Spec => []SentAtMostOnce
<1>1. Inv => SentAtMostOnce
  BY DEF Inv, OnceInv, Distinct, SentAtMostOnce
<1> QED
  BY <1>1, BotInvariant, PTL
==============================================================================

----------------------------- MODULE MemberCount -----------------------------
(***************************************************************************)
(* How a watcher of MusicBot finds out that a channel has no human left    *)
(* (main.go:584-603, 651-700, 768-794).  MusicBot counts in one step and   *)
(* knows no bots; here the count walks over the list of voice states that  *)
(* discordgo keeps for the guild, entry by entry and without a lock, asks  *)
(* Discord about a member it does not know, and caches the answer.  The    *)
(* list changes meanwhile, and other watchers count as well.               *)
(*                                                                         *)
(* A Go slice is a length and a pointer to an array.  The array behind the *)
(* guild's list is `array`, of which the first `live` entries are the list.*)
(***************************************************************************)
EXTENDS BotDomain, Naturals, Sequences, FiniteSets

CONSTANTS
  User,       \* members of the guild other than this bot
  Bots,       \* those that are bots
  Self,       \* this bot
  Watchers,   \* handlers of voice events of others
  Faults      \* what may fail: "guild" (not in the state cache), "lookup" (a REST request)

ASSUME CountAssumption ==
  /\ IsFiniteSet(User) /\ Bots \subseteq User
  /\ Self \notin User
  /\ Faults \subseteq {"guild", "lookup"}

VARIABLES
  active,   \* the voice channel of the guild's player
  array,    \* discordgo: the array of guild.VoiceStates
  live,     \* discordgo: its length
  cache,    \* b.botUserCache
  pc,       \* where each watcher is
  moved,    \* the voice event it handles
  frame,    \* its local variables
  seen,     \* history: what happened in its channel while it counted
  failed    \* history: a lookup or a read of the cache failed

discordgo == <<array, live>>
vars == <<active, discordgo, cache, pc, moved, frame, seen, failed>>

(* Entries of GUILD_CREATE come without the member, later ones may have it.*)
EntryOf(users) == [user : users, channel : Channel, member : BOOLEAN]
Entry == EntryOf(User \cup {Self})

Unknown == "unknown"
Kind(u) == IF u \in Bots THEN "bot" ELSE "human"

NoMove == [before |-> None, after |-> None]

(* `range` evaluates the slice once: its length is `limit`, and `copy` its *)
(* array once the list has moved to another one.                           *)
Frame ==
  [ channel : Channel \cup {None},
    copy    : Seq(Entry),
    limit   : Nat,
    cursor  : Nat,
    humans  : Nat,
    entry   : EntryOf(User) \cup {None} ]

NewFrame ==
  [channel |-> None, copy |-> << >>, limit |-> 0, cursor |-> 1, humans |-> 0, entry |-> None]

Seen == [stayed : SUBSET User, present : SUBSET User, departed : BOOLEAN]

NothingSeen == [stayed |-> {}, present |-> {}, departed |-> FALSE]

Counting == {"count", "classify", "lookup"}

TypeOK ==
  /\ active \in Channel \cup {None}
  /\ array \in Seq(Entry)
  /\ live \in 0 .. Len(array)
  /\ cache \in [User -> {Unknown, "bot", "human"}]
  /\ pc \in [Watchers -> {"new", "watch", "begin", "leave", "done"} \cup Counting]
  /\ moved \in [Watchers -> [before : Channel \cup {None}, after : Channel \cup {None}]]
  /\ frame \in [Watchers -> Frame]
  /\ seen \in [Watchers -> Seen]
  /\ failed \in BOOLEAN

ChannelOf(u) ==
  IF \E i \in 1 .. live : array[i].user = u
  THEN (CHOOSE e \in {array[i] : i \in 1 .. live} : e.user = u).channel
  ELSE None

HumansIn(ch) == {u \in User \ Bots : \E i \in 1 .. live : array[i].user = u /\ array[i].channel = ch}

Init ==
  /\ active = None
  /\ \E n \in 0 .. Cardinality(User) :
       array \in [1 .. n -> [user : User, channel : Channel, member : {FALSE}]]
  /\ \A i, j \in DOMAIN array : array[i].user = array[j].user => i = j
  /\ live = Len(array)
  /\ cache = [u \in User |-> Unknown]
  /\ pc = [w \in Watchers |-> "new"]
  /\ moved = [w \in Watchers |-> NoMove]
  /\ frame = [w \in Watchers |-> NewFrame]
  /\ seen = [w \in Watchers |-> NothingSeen]
  /\ failed = FALSE

------------------------------------------------------------------------------
Goto(w, label) == pc' = [pc EXCEPT ![w] = label]

(* The array a watcher reads.                                              *)
Array(w) == IF frame[w].copy = << >> THEN array ELSE frame[w].copy

(* discordgo's State keeps the list under its own lock: a member who is in *)
(* it is replaced in place, ...                                            *)
Replace(u, ch, member) ==
  /\ ch # None
  /\ \E i \in 1 .. live :
       /\ array[i].user = u
       /\ array' = [array EXCEPT ![i] = [user |-> u, channel |-> ch, member |-> member]]
  /\ UNCHANGED <<live, frame>>

(* ... a new one appended, in place if the array has room, ...             *)
AppendInPlace(u, ch, member) ==
  LET e == [user |-> u, channel |-> ch, member |-> member] IN
  /\ ch # None /\ ChannelOf(u) = None
  /\ array' = IF live < Len(array) THEN [array EXCEPT ![live + 1] = e] ELSE Append(array, e)
  /\ live' = live + 1
  /\ UNCHANGED frame

(* ... or in a larger copy, which leaves whoever is reading with the old   *)
(* array, ...                                                              *)
AppendElsewhere(u, ch, member) ==
  /\ ch # None /\ ChannelOf(u) = None
  /\ live = Len(array)
  /\ array' = Append(array, [user |-> u, channel |-> ch, member |-> member])
  /\ live' = live + 1
  /\ frame' = [w \in Watchers |->
                 IF pc[w] \in Counting /\ frame[w].copy = << >>
                 THEN [frame[w] EXCEPT !.copy = array] ELSE frame[w]]

(* ... and one who goes is cut out: the entries behind move up by one, and *)
(* the last one stays where it was, beyond the end.                        *)
Remove(u) ==
  /\ \E i \in 1 .. live :
       /\ array[i].user = u
       /\ array' = [j \in DOMAIN array |-> IF j \in i .. live - 1 THEN array[j + 1] ELSE array[j]]
  /\ live' = live - 1
  /\ UNCHANGED frame

ListChanges(u, ch, member) ==
  /\ \/ Replace(u, ch, member) \/ AppendInPlace(u, ch, member) \/ AppendElsewhere(u, ch, member)
     \/ ch = None /\ Remove(u)
  /\ seen' = [w \in Watchers |->
       IF pc[w] \notin Counting THEN seen[w]
       ELSE [ stayed   |-> IF ch = frame[w].channel THEN seen[w].stayed ELSE seen[w].stayed \ {u},
              present  |-> IF ch = frame[w].channel THEN seen[w].present \cup ({u} \ (Bots \cup {Self}))
                           ELSE seen[w].present,
              departed |-> seen[w].departed \/ ch = None ]]

------------------------------------------------------------------------------
(* Plausible slips in the actions below, to see which property notices     *)
(* each one.                                                               *)
CountEntryAnywhere(w) ==
  LET e == Array(w)[frame[w].cursor] IN
  /\ pc[w] = "count"
  /\ frame[w].cursor <= frame[w].limit
  /\ IF e.user = Self
     THEN frame' = [frame EXCEPT ![w].cursor = @ + 1] /\ UNCHANGED pc
     ELSE frame' = [frame EXCEPT ![w].entry = e] /\ Goto(w, "classify")
  /\ UNCHANGED <<active, discordgo, cache, moved, seen, failed>>

LookupFailsAsBot(w) ==
  /\ pc[w] = "lookup" /\ "lookup" \in Faults
  /\ frame' = [frame EXCEPT ![w].cursor = @ + 1, ![w].entry = None]
  /\ failed' = TRUE
  /\ Goto(w, "count")
  /\ UNCHANGED <<active, discordgo, cache, moved, seen>>

LookupFailsAndCaches(w) ==
  /\ pc[w] = "lookup" /\ "lookup" \in Faults
  /\ frame' = [frame EXCEPT ![w].cursor = @ + 1, ![w].humans = @ + 1, ![w].entry = None]
  /\ cache' = [cache EXCEPT ![frame[w].entry.user] = "human"]
  /\ failed' = TRUE
  /\ Goto(w, "count")
  /\ UNCHANGED <<active, discordgo, moved, seen>>

CountEntryWithSelf(w) ==
  LET e == Array(w)[frame[w].cursor] IN
  /\ pc[w] = "count"
  /\ frame[w].cursor <= frame[w].limit
  /\ IF e.channel # frame[w].channel
     THEN frame' = [frame EXCEPT ![w].cursor = @ + 1] /\ UNCHANGED pc
     ELSE frame' = [frame EXCEPT ![w].entry = e] /\ Goto(w, "classify")
  /\ UNCHANGED <<active, discordgo, cache, moved, seen, failed>>

TouchesOnArrival(move, ch) == ch # None /\ ch = move.after

------------------------------------------------------------------------------
(* A member joins, moves, mutes or leaves.  The list is up to date before  *)
(* the handler of the event starts.                                        *)
MemberMoves(w, u, ch, member) ==
  /\ pc[w] = "new"
  /\ moved' = [moved EXCEPT ![w] = [before |-> ChannelOf(u), after |-> ch]]
  /\ ListChanges(u, ch, member)
  /\ Goto(w, "watch")
  /\ UNCHANGED <<active, cache, failed>>

(* The bot itself comes and goes with /play and /leave; what happens when  *)
(* these overlap with a watcher is MusicBot's subject.                     *)
BotJoins(ch) ==
  /\ active = None /\ \A w \in Watchers : pc[w] \in {"new", "done"}
  /\ HumansIn(ch) # {}
  /\ active' = ch
  /\ ListChanges(Self, ch, TRUE)
  /\ UNCHANGED <<cache, pc, moved, failed>>

BotGoes ==
  /\ active = None
  /\ ListChanges(Self, None, TRUE)
  /\ UNCHANGED <<active, cache, pc, moved, failed>>

LeaveCommand ==
  /\ active # None
  /\ active' = None
  /\ UNCHANGED <<discordgo, cache, pc, moved, frame, seen, failed>>

------------------------------------------------------------------------------
(* voiceStateTouchesChannel.                                               *)
Touches(move, ch) == ch # None /\ ch \in {move.before, move.after}

(* maybeAutoLeaveEmptyChannel.                                             *)
Watch(w) ==
  /\ pc[w] = "watch"
  /\ frame' = [frame EXCEPT ![w].channel = active]
  /\ Goto(w, IF Touches(moved[w], active) THEN "begin" ELSE "done")
  /\ UNCHANGED <<active, discordgo, cache, moved, seen, failed>>

(* humanUsersInChannel: State.Guild, then `range` takes the slice.         *)
Begin(w) ==
  /\ pc[w] = "begin"
  /\ frame' = [frame EXCEPT ![w].limit = live]
  /\ seen' = [seen EXCEPT ![w] = [ stayed |-> HumansIn(frame[w].channel),
                                   present |-> HumansIn(frame[w].channel), departed |-> FALSE ]]
  /\ Goto(w, "count")
  /\ UNCHANGED <<active, discordgo, cache, moved, failed>>

NoGuild(w) ==
  /\ pc[w] = "begin" /\ "guild" \in Faults
  /\ failed' = TRUE
  /\ Goto(w, "done")
  /\ UNCHANGED <<active, discordgo, cache, moved, frame, seen>>

(* countHumanUsersInChannel.                                               *)
CountEntry(w) ==
  LET e == Array(w)[frame[w].cursor] IN
  /\ pc[w] = "count"
  /\ frame[w].cursor <= frame[w].limit
  /\ IF e.channel # frame[w].channel \/ e.user = Self
     THEN frame' = [frame EXCEPT ![w].cursor = @ + 1] /\ UNCHANGED pc
     ELSE frame' = [frame EXCEPT ![w].entry = e] /\ Goto(w, "classify")
  /\ UNCHANGED <<active, discordgo, cache, moved, seen, failed>>

EndCount(w) ==
  /\ pc[w] = "count"
  /\ frame[w].cursor > frame[w].limit
  /\ Goto(w, IF frame[w].humans > 0 THEN "done" ELSE "leave")
  /\ UNCHANGED <<active, discordgo, cache, moved, frame, seen, failed>>

(* The entry counts unless it is found to be a bot's.                      *)
Counted(w, kind) ==
  /\ frame' = [frame EXCEPT ![w].cursor = @ + 1, ![w].entry = None,
                            ![w].humans = IF kind = "bot" THEN @ ELSE @ + 1]
  /\ Goto(w, "count")

(* isBotUser: the member in the entry, or else the cache, or else Discord. *)
Classify(w) ==
  LET e == frame[w].entry IN
  /\ pc[w] = "classify"
  /\ \/ /\ e.member
        /\ cache' = [cache EXCEPT ![e.user] = Kind(e.user)]
        /\ Counted(w, Kind(e.user))
     \/ /\ ~e.member /\ cache[e.user] # Unknown
        /\ Counted(w, cache[e.user])
        /\ UNCHANGED cache
     \/ /\ ~e.member /\ cache[e.user] = Unknown
        /\ Goto(w, "lookup")
        /\ UNCHANGED <<cache, frame>>
  /\ UNCHANGED <<active, discordgo, moved, seen, failed>>

Lookup(w) ==
  LET u == frame[w].entry.user IN
  /\ pc[w] = "lookup"
  /\ cache' = [cache EXCEPT ![u] = Kind(u)]
  /\ Counted(w, Kind(u))
  /\ UNCHANGED <<active, discordgo, moved, seen, failed>>

LookupFails(w) ==
  /\ pc[w] = "lookup" /\ "lookup" \in Faults
  /\ failed' = TRUE
  /\ Counted(w, Unknown)
  /\ UNCHANGED <<active, discordgo, cache, moved, seen>>

(* leaveGuildVoice, as far as it matters here: the player forgets.         *)
AutoLeave(w) ==
  /\ pc[w] = "leave"
  /\ active' = None
  /\ Goto(w, "done")
  /\ UNCHANGED <<discordgo, cache, moved, frame, seen, failed>>

Watcher(w) ==
  \/ Watch(w) \/ Begin(w) \/ NoGuild(w) \/ CountEntry(w) \/ EndCount(w) \/ Classify(w)
  \/ Lookup(w) \/ LookupFails(w) \/ AutoLeave(w)

Next ==
  \/ \E w \in Watchers : Watcher(w)
  \/ \E w \in Watchers, u \in User, ch \in Channel \cup {None}, member \in BOOLEAN :
       MemberMoves(w, u, ch, member)
  \/ \E ch \in Channel : BotJoins(ch)
  \/ BotGoes
  \/ LeaveCommand

(* A watcher that counts goes on: a lookup is answered or times out.       *)
Spec == Init /\ [][Next]_vars /\ \A w \in Watchers : WF_vars(Watcher(w))

------------------------------------------------------------------------------
(* A member is never taken for what it is not once an answer is cached:    *)
(* the cache outlives every event (main.go:687-700).                       *)
CacheTrue == \A u \in User : cache[u] \in {Unknown, Kind(u)}

(* A watcher that finds the channel empty is right about everybody who was *)
(* there all along, however entries are replaced, appended or moved to     *)
(* another array under it; but not when one is cut out behind its back,    *)
(* which makes it skip the next one (main.go:658, 780).                    *)
NoHumanMissed ==
  \A w \in Watchers : pc[w] = "leave" /\ ~seen[w].departed => seen[w].stayed = {}

(* Who makes the bot stay was there: without a failure, only a human who   *)
(* was in the channel during the count is counted.                         *)
KeptByHumans ==
  \A w \in Watchers :
    pc[w] \in Counting /\ frame[w].humans > 0 /\ ~failed => seen[w].present # {}

(* Bots are no company: once every event is handled, the bot is in no      *)
(* channel without humans (main.go:584-605), unless Discord failed to      *)
(* answer (main.go:594, 680).                                              *)
NotAmongBots ==
  (\A w \in Watchers : pc[w] \in {"new", "done"}) /\ ~failed /\ active # None
    => HumansIn(active) # {}
==============================================================================

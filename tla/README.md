# go-discord-music-bot in TLA+

TLA+ modules for the parts of the bot that are hard to test: goroutines that
share a guild's state without holding a lock across their network calls, a
hand-written wait on Discord's split voice events, and requests to Lavalink that
fail half-way. The modules are translated from the Go source; TLC checks them on
small instances, and TLAPS proves the central invariants for every value of the
constants.

## 1. The system

The bot is one process. Discord's gateway library (discordgo) starts a goroutine
for every event; Lavalink, the audio server, is told what to play by REST calls
and reports on a websocket.

| Component | Source | State | Operations |
|---|---|---|---|
| Player manager | `internal/player/manager.go` | per guild: voice channel, current track, queue; one mutex for all | `Enqueue`, `Advance`, `Stop`, `Leave`, `SetVoiceChannel`, `ClearCurrent`, reads `Snapshot`, `Summary` |
| Voice state store | `internal/lavalink/voice_state.go` | per guild: merged voice state, list of waiters; one mutex | `UpdateVoiceState`, `UpdateVoiceServer`, `Clear`, `WaitForFullState` |
| Lavalink client | `internal/lavalink/client.go` | session ID, websocket, event handler | player requests (`UpdateVoiceState`, `PlayTrack`, `StopTrack`, `DestroyPlayer`), `LoadTrack`, `Stats`, `Connect`, `readLoop`, `Close` |
| Slash commands | `cmd/bot/main.go` | none of their own: snapshots in local variables | `/play`, `/skip`, `/stop`, `/leave`; `/queue`, `/nowplaying`, `/ping` only read |
| Voice event handlers | `cmd/bot/main.go` | `leavingGuild` | bot's own voice state, voice server, members' voice states (auto-leave) |
| Track-end handler | `cmd/bot/main.go` | none | `onLavalinkEvent`, called by `readLoop` |
| Bot-user cache | `cmd/bot/main.go` | `botUserCache`; beside it discordgo's list of the guild's voice states | `countHumanUsersInChannel`, `isBotUser` |
| Startup, shutdown | `cmd/bot/main.go` | `createdCommands`, `discordReady`; at Discord the registered commands | connect in order, register and clean up commands, signal, `log.Fatal` |
| Configuration | `internal/config/config.go` | – | `Load` |
| Metrics | `internal/observability` | gauges and counters | `RecordCommand`, `RecordLavalinkEvent`, stats poller, scrape |

How they interact. A command handler reads a `Snapshot`, decides, changes the
player or the store in one critical section, and then tells Lavalink or Discord
about it with nothing held. `/play` asks Discord to join a channel; Discord
answers with two events, handled by other goroutines, which write the two halves
of the voice state into the store; the store wakes the `/play` that waits there;
it forwards the merged state to Lavalink and writes the player. Lavalink's track
ends come back through `readLoop`, whose handler advances the queue and sends
the next track. A member's voice event may find the channel empty and run the
same tear-down as `/leave`.

What is hard about it, and what each part has to get right:

- *Store.* A voice event must not fall between "not complete" and "registered",
  or between the wakeup and the re-read; a timeout must take the registration
  with it; a call must not be answered with a state of another channel.
- *Player.* Four kinds of goroutine take tracks from it. No track may be taken
  twice, none may be overtaken, none may be forgotten in the queue.
- *Player against Lavalink.* "Change my state, then tell Lavalink" is not
  atomic: requests may arrive in the other order, fail before or after their
  effect, or answer a track end that is no longer about the current track.
- *Bot against Discord.* The channel is known to Discord, to the store and to
  the player, and changes in each at another moment; events about it are handled
  in any order.
- *Tear-down.* Several may start at once, each can fail in the middle, and the
  mark that excludes a second one must always be released.

- *Counting.* Whether a channel is empty is read off a list that another library
  changes meanwhile, with REST requests in between that may fail. Nobody who is
  there may be missed, and bots are no company.
- *Session.* One goroutine reads the websocket, publishes the session, runs the
  event handlers and notices the end; `main` and the poller look at it from
  outside. It must not look up when nobody serves it.
- *Process.* `main` makes things visible outside (commands, a gauge) and must
  undo them; `log.Fatal` and crashes undo nothing, and what stays meets the next
  process.

The hazards behind these points are listed with their lines in `PROJECT.json`.

## 2. Modules

```
BotDomain        channels and "no value"
 ├─ Player       the manager's operations as functions on a guild's record
 └─ VoiceState   the voice state value, its two halves, completeness
     ├─ VoiceWait        abstract: what callers of WaitForFullState rely on
     └─ VoiceStateStore  detailed: mutex, waiter channels, select, deadline
Playlist         abstract: a list that only grows at the end and shrinks at the front
MusicBot         composition: every goroutine of one guild, Discord, Lavalink
 ├─ MCMusicBot   symmetry for TLC
 ├─ Settled      MusicBot without the overlaps that harm; what holds when nothing is in flight
 │   └─ MCSettled    symmetry for TLC
 └─ Claims       sentences of the repository the program breaks
MemberCount      how a watcher counts the humans of a channel, entry by entry
 └─ MCMemberCount    symmetry for TLC
Session          abstract: at most one Lavalink session per process
LavalinkClient   detailed: the websocket, its reader, what it publishes
Settings         config.Load as an operator on environments
Lifecycle        composition: main, LavalinkClient, Settings, the poller, several processes
 └─ MCLifecycle  a process and its successor
VoiceStateStoreProofs, MemberCountProofs, LifecycleProofs        theorems
MusicBotProofs ─ PlaylistProofs ─ FifoProofs ─ SettledProofs     theorems, each
                                              extending the one before
```

**Player.** A guild's entry is the record `GuildPlayer`; a guild missing from the
map is `Unknown` (`known` is FALSE), because `Snapshot` returns the zero value for
it. Each method holds the mutex from its first to its last statement, so each is
an operator applied in one step. `EnqueueStarts` and `AdvanceNext` are the
results the callers use. A `Track` stands for one resolved request: a track
requested twice is two elements.

**VoiceState, VoiceStateStore.** One action per critical section and per arm of
the `select`. The waiter channel of capacity one is the Boolean `signal`: the
non-blocking send leaves at most one token. `expired` is the context being done.
Both arms of the `select` may be ready; Go picks either, and so does the model.
`pc = "check"` is the moment between receiving the token and taking the lock,
where writes may fall. `result` keeps the state the call returns, `EmptyState`
standing for the error.

**VoiceWait.** The contract: a call is answered with the guild's state at a
moment when it was complete for the requested channel, or it gives up; and a call
whose answer is there does not stay blocked for ever (`Responsive`, which is weak
fairness of `Answer` written as a state predicate). It knows no waiters, tokens
or locks. `VoiceStateStore!Contract` is the refinement mapping; a caller counts as
answered when it reads the complete state, not when it has returned.

**MusicBot.** One guild. Everything the bot keeps is keyed by guild, so the
handlers of two guilds meet only in the two mutexes and in `readLoop` (see
section 6). Each goroutine is an element of `Proc` with a program counter;
between two of its steps any other goroutine runs. Names of actions follow the code:

| Code | Actions |
|---|---|
| `handlePlay`, `ensureVoiceConnection` | `Locate`, `CheckActive`, `Ensure`, `Join`, `Await`/`AwaitTimeout`, `Forward`, `SetChannel`, `LoadFails`/`LoadAndEnqueue`, `Send`, `ClearAfterFailure` |
| `handleSkip` | `SkipSnapshot`, `RequireInChannel`, `SkipAdvance`, `Send` or `Halt` |
| `handleStop` | `StopSnapshot`, `RequireInChannel`, `StopPlayer`, `Halt` |
| `handleLeave` | `LeaveSnapshot`, `RequireInChannel`, then `leaveGuildVoice` |
| `maybeAutoLeaveEmptyChannel` | `Watch`, `Count`, then `leaveGuildVoice` |
| `leaveGuildVoice` | `BeginLeave`, `LeavePlayer`, `ClearVoice`, `Destroy`, `Disconnect`, `FinishLeave` |
| `onVoiceStateUpdate` (the bot) | `HandleVoiceState` (the store), then `HandleVoiceChannel` (the player) |
| `onVoiceServerUpdate` | `HandleVoiceServer` |
| `onLavalinkEvent` in `readLoop` | `HandleTrackEnd`, `IgnoreTrackEnd`, `Send` of `Reader` |

Waiting for the voice state is one step here, as `VoiceWait` allows: that the
store really behaves so is what `ImplementsWait` checks and `StoreImplementsWait`
proves. A handler whose `deferInteraction` fails does nothing and is a handler
that never starts. The replies to the user are left out.

The outside world is in the module too, and marked external in the map.
*Discord*: `botChannel`, `userChannel`, and `voiceEvents`, a set, because every
event has a goroutine of its own; it reports the voice state whenever the channel
changed and the voice server on a fresh connection, and may report either once more.
A moderator may move the bot or throw it out. *Lavalink*: `lava` is the guild's
player, `events` the track ends on the websocket, in order; a track that is cut
short ends without being `finished`; `finished` and `loadFailed` are one case,
as they are for the handler. `Faults` names what may fail: `"rest"` lets any player request
fail before or after its effect (a refused request, a missing session, the
client's own timeout and the handler's 10 s context are all seen as this one
error), `"gateway"` lets a join or a disconnect fail and a watcher find the guild
missing from discordgo's state (main.go:594). `LoadTrack` may always fail.

**Settled.** The bot holds no lock across a change and the request that announces
it, so two handlers doing so at once can leave bot, Lavalink and Discord in
disagreement: `Claims` shows how. `Settled` says when exactly. Its next-state
relation `Undisturbed` is `Next` without the steps that bring two such sections
together (`Overlap`: two joins, two requests to Lavalink, a tear-down beside a
`/play`, an auto-leave's decision beside a `/play` or an unhandled event about the
bot), that handle events about the bot in the wrong order (`Overtaken`), or that
give a track end to a player that has moved on (`Stale`). Everything else still
interleaves freely, and in it the three agree whenever nothing is in flight. One
overlap is there because a run asked for it: between `Disconnect` and
`FinishLeave` the mark is still up while a new `/play` may already join; if the last member
goes at that moment, the auto-leave is refused by the mark of a tear-down that is
over, and the bot stays alone. Hence `Tearing` is the whole of `LeaveSection`.

**MemberCount.** `MusicBot` counts the members of a channel in one step and knows
no bots. Here `Count` is taken apart: `Begin` (`humanUsersInChannel` takes the
slice), `CountEntry` (the loop's two `continue`s), `Classify` (the member in the
entry, else the cache), `Lookup`/`LookupFails` (the REST request), `EndCount`. The
guild's list is discordgo's: `array` and `live` are the array and the length of
the slice, and `ListChanges` does what `State` does to it, replacing an entry,
appending in place or to a larger copy, or cutting one out. `range` keeps the
length (`limit`) and the array (`copy`) it began with. `seen` is history: who
stayed in the watcher's channel during its count, who was there at some moment,
and whether somebody went. Entries of `GUILD_CREATE` have no member, later ones may. `BotJoins`
and `LeaveCommand` stand for `/play` and `/leave`, which run here between watchers
only: their overlaps with a watcher are the subject of `MusicBot` and `Settled`.

**Session, LavalinkClient.** `client[p]` is the `Client` of process `p` with its reader.
`wsConn` and `sessionID` are set and cleared together under the mutex and are
one Boolean, `connected`; `reader` is the program counter of `readLoop`, one action
per critical section or channel send: `ReadReady` publishes, `AnswerReady`
answers `Connect` (of a ready frame, section 6 says what is assumed), `GiveUp` is a failed read or decode (the answer if there was
none, else the deferred `clearConnection`). `socket = "closed"` is when the reader
sees it. `Session` says what others may rely on: each process has one session,
and once it is down it stays down. `OneSession` is the refinement mapping
(`Phase`).

**Settings.** `Environment` has a value, `Unset` (missing or blank) or `Garbled` (does
not parse) for each variable; `Load` gives the configuration and `Accepted` says
whether there is one. Which of several errors is reported only changes a message.
`Usable` is what the rest of the program needs of the numbers.

**Lifecycle.** `func main` as a program counter per process, with one action per
call that can fail or that others can observe; `OrFatal` is the `log.Fatal` after
each. Deferred calls run from the last to the first: `DeleteCommand`,
`ReportDisconnected`, `CloseLavalink`, `Exit`. A creation or a deletion that returns an error may
have taken effect; `undeleted` is history, the commands whose deletion returned one. `registry` is Discord's set of the
application's commands, shared by all processes; `ApplicationCommandCreate` replaces a command of the same
name and keeps its ID. The poller reads `Connected` and sets the gauge in two
steps. A process may be killed at any moment (`Kill`), and all it had is gone
except the registry. `DeploymentAssumption` is the documents' rule for shards
(docs/project-overview.en.md:475): of two processes that run at once at most one
registers commands.

**Claims.** Sentences of comments, replies and documents, each broken by a run.

## 3. What is checked

All runs end by themselves. `CHECK_DEADLOCK` is off where every handler may have
finished and no more requests are to come; the store never stops.

| Run | Question | Instance, and why it is enough |
|---|---|---|
| `VoiceStateStore` | No wakeup lost (`NoLostWakeup`), waiter lists exact (`WaitersExact`), the contract implemented (`ImplementsWait`), every call returns if deadlines pass (`CallsReturn`) | Two callers of one guild, two channels: a write must wake both and may suit one |
| `Queue` | `SentAtMostOnce`, `IdleMeansEmpty`, the player is a FIFO playlist (`ImplementsPlaylist`) | Three tracks (one playing and two with an order), one `/skip`, one `/stop`, one channel, no failures; any interleaving |
| `Drain` | Every queued track is sent (`QueueDrains`) | Three tracks; tracks come to an end; no other command |
| `Leaving` | `TypeOK`, one tear-down at a time (`LeaveExclusive`), it always ends (`LeavingEnds`), the handlers that can leave or wait return (`HandlersReturn`; `/skip` and `/stop` wait for nobody) | Two `/leave`, a member's event, one `/play`; all requests may fail |
| `InSync` | Undisturbed and quiet, Lavalink plays the player's current track (`PlaybackInSync`), and player, store and Discord name one channel (`VoiceInSync`) | Two tracks, two channels, one each of `/skip`, `/stop`, `/leave` and a moderator's move: each of the four can come before, between and after the two `/play` |
| `Alone` | Undisturbed and quiet, the bot is in no empty channel (`NotAlone`) | Two tracks, two channels, two members and two of their moves, a `/leave`: a `/play` can follow either kind of leave, and the last member to go need not be the first to move |
| `Members` | `TypeOK`, the cache is never wrong (`CacheTrue`), no human who stayed is missed unless an entry was cut out (`NoHumanMissed`), only those present keep the bot (`KeptByHumans`), and it does not stay among bots (`NotAmongBots`) | Two humans, a bot and this bot, two channels, two watchers: each event can fall into the other's count, and every way to change the list, every kind of answer and every failure occurs |
| `Lifecycle` | `TypeOK`, a published session is read (`ConnectedIsServed`) and is the only one (`ImplementsSession`), a drop is noticed (`DropIsNoticed`); nothing is announced before it (`NothingBeforeSession`); commands are all there while running (`CommandsServed`) and gone after a clean-up, except those whose own deletion failed (`LeavesNoCommand`); no unusable number gets past `Load` (`RunsUsable`); the gauge settles (`GaugeConverges`); signals end the process (`SignalsHonoured`) | A process and its successor, two commands: registration, clean-up and a crash can each stop between the two, and the successor finds what is left. Eight environments for the first, with port, interval, shard and shard count on either side of their bounds, six of them refused, and two for the second, so that each switch is on and off |
| `ClaimSkip` | `SkipKeepsInSync` (main.go:370): broken | A `/skip` on the last track and a `/play` between its `Advance` and its `StopTrack` |
| `ClaimFIFO` | `EnqueueIsFIFO` (manager.go:45): broken | A failed `PlayTrack` with a track queued behind it, and a third `/play` |
| `ClaimChannel` | `OneActiveChannel` (project-overview.en.md:481): broken | Two first `/play` from two channels |
| `ClaimAdvance` | `OneEndOneAdvance` (main.go:253): broken | A track that ends while it is skipped: its end pulls from the queue as well |

Bounds. The sets of requests (`Track`, `Skips`, `Stops`, `Leaves`, `Watchers`,
`Admins`) are finite and each element is used once; this bounds `sent`, `events`,
the queue and `voiceOps`, and there is no other bound. Two requests of a kind are
enough for every race of that kind, three tracks for every question about order.
In `Members` each watcher handles one event; the bot's own coming and going is
unbounded, and the list is bounded by the members. In `Lifecycle` each process runs once;
messages, polls and events of Lavalink are unbounded. The two processes of the
run follow each other: side by side they have 683 thousand states, too many for the
four temporal properties, and what holds of any number of them side by side is proved (section 4).
`Symmetry` (tracks, channels, members) is used in the runs that check invariants
and step properties only (`Queue`, `InSync`, `Alone`, `Members`); the same runs identify states that differ only
in the local variables of goroutines that have returned and in the absolute
number of a Discord move (`View`).

Every property of a passing run is paired with a slip of the code it depends on
(`mutants`; the slips are defined beside the operations, under a comment that says
so), under which TLC finds it broken.

### Fairness

- A goroutine that runs is scheduled, and its requests come back: `http.Client`
  has a 5 s timeout and every handler a 10 s context. Hence weak fairness of each
  handler that has begun, and of `readLoop`. Nobody has to issue a command and no
  Discord event has to arrive. Weak fairness is of the whole handler: a
  `/play` that waits may time out rather than be answered.
- In the store, a runnable caller proceeds (`Fairness`). `CallsReturn` also needs
  the deadline to pass and the `select` not to prefer the other arm for ever; Go
  chooses uniformly among ready arms, which is strong fairness of `SelectDone`
  (`Deadlines`).
- In `Lifecycle` each `main` goes on by itself, because each of its waits has a
  deadline: `Version` 5 s, `waitForDiscordReady` 10 s, `Connect` 10 s, discordgo's REST
  requests a client timeout. discordgo's `Open` reads from the gateway without one; fairness
  leaves it out, and `SignalsHonoured` therefore starts when the gateway is open.
  The poller's requests have deadlines and its ticker ticks; the reader goes on
  (a handler ends by its own 10 s context). Nobody has to send a signal, to
  start a process or to drop a websocket.
- `Drain` assumes that a track comes to an end (`SpecTracksEnd`) and that the
  websocket stays up.

## 4. What is proved

TLAPS checks the following for all values of the constants that satisfy the
assumptions (`ChannelAssumption`, `TrackAssumption`, `VoiceAssumption`: `None` is
no channel, track, session, token or endpoint; `BotAssumption`: the bot's session, token and endpoint are some
of these; `ProcAssumption`: the kinds of request are disjoint; `CountAssumption`:
members are finitely many and this bot is not one of them; `SettingsAssumption`: `Unset` and
`Garbled` are neither numbers nor switches; `DeploymentAssumption`: section 2).

| Theorem | Says |
|---|---|
| `VoiceStateStoreProofs!StoreTypeCorrect` | `TypeOK` of the store |
| `VoiceStateStoreProofs!NoWakeupIsLost` | `NoLostWakeup` |
| `VoiceStateStoreProofs!NoWaiterLeaks` | `WaitersExact` |
| `VoiceStateStoreProofs!StoreImplementsWait` | the store implements the safety part of `VoiceWait` |
| `MusicBotProofs!BotTypeCorrect` | `TypeOK` of the bot |
| `MusicBotProofs!OneLeaveAtATime` | `LeaveExclusive` |
| `PlaylistProofs!NoTrackIsSentTwice` | `SentAtMostOnce`, failures included |
| `FifoProofs!NobodyIsOvertaken` | `IdleMeansEmpty` |
| `FifoProofs!PlayerIsAPlaylist` | `ImplementsPlaylist`, when no Lavalink request fails |
| `MemberCountProofs!TypeCorrect` | `TypeOK` of the member count |
| `MemberCountProofs!CacheIsTrue` | `CacheTrue` |
| `MemberCountProofs!NobodyMissed` | `NoHumanMissed` |
| `MemberCountProofs!KeptByThosePresent` | `KeptByHumans` |
| `MemberCountProofs!NoCompanyOfBots` | `NotAmongBots` |
| `SettledProofs!LavalinkInSync` | `PlaybackInSync`, when no Lavalink request fails (`"rest" \notin Faults`) |
| `SettledProofs!VoiceSettles` | `VoiceInSync`, without failures (`Faults = {}`) |
| `SettledProofs!NeverLeftAlone` | `NotAlone`, without failures |
| `LifecycleProofs!AcceptedUsable` | an environment is accepted exactly if it has what is required and gives a positive port and interval, a shard that exists and switches that are on or off |
| `LifecycleProofs!NumbersUsable` | `RunsUsable` |
| `LifecycleProofs!TypeCorrect` | `TypeOK` of the life cycle |
| `LifecycleProofs!ConnectedServed` | `ConnectedIsServed` |
| `LifecycleProofs!SessionImplemented` | `ImplementsSession` |
| `LifecycleProofs!AnnouncedLate` | `NothingBeforeSession` |
| `LifecycleProofs!AllCommandsServed` | `CommandsServed`, for any number of processes side by side |
| `LifecycleProofs!NoCommandLeft` | `LeavesNoCommand`, likewise |

Proofs need more than the property. For the store the inductive invariant adds
to `NoLostWakeup` that waiter lists are exact (otherwise a write would miss a
caller that sleeps) and that a call in progress knows its arguments
(`CallsHaveArgs`). For the bot, `TypeOK` adds what each program counter says
about the frame beside it (a goroutine about to send has a track, one about to join
has a channel), and `LeaveExclusive` is inductive on its own given `TypeOK`. For
`SentAtMostOnce` the tracks in `sent`, in the hands of senders and in the player
form one list without repetition, and a `/play` that has not enqueued yet is in
none of them: only this relation of four pieces of state is inductive.

For the playlist the invariant adds `IdleMeansEmpty` and that, without failing
requests, no `/play` reaches `ClearCurrent`; then every step keeps the list, adds
an untaken track, takes the head or empties it (`Keeps`, `Adds`, `Takes`,
`Drops`), and each of the four maps to a step of `Playlist`.

For the count (`CountInv`) each watcher's walk is tied to the list: what lies behind
its cursor and within its limit, in the array it reads, contains every human who
stayed and has not been counted (`Complete`), and everybody it has counted was
present (`Sound`). This survives a replacement, an append in place and an append
to a copy, and is lost by a removal, which is why the property has its condition.

`NotAmongBots` says nothing while a handler runs, so its invariant (`CompanyInv`) says
what happens then: when the bot's channel has no human and nothing has failed, some watcher is on
its way to find out (`Leaver`). It has been told of a move that touches the
channel, or is about to count that channel, or counts it and has seen nobody in it, or
leaves. That the last human to go puts a watcher there needs that nobody
has two entries in the list (`OneEntryEach`): only then does `ChannelOf` name the
channel that was left. That the count ends in a leave needs `Sound`. A human who comes
meanwhile ends the premise, not the argument.

The three agreements of `Settled` are likewise about moments when nothing is in flight;
their invariants name, for every other moment, the request, the event or the handler
that will restore the agreement. All rest on `Calm`: the playlist's invariant, `LeaveExclusive`,
and what the absence of `Overlap` means program counter by program counter (`Apart`).

- `PlaybackInv` for `PlaybackInSync`: player and Lavalink agree, or the end of the
  track is among the `events`, or a goroutine is about to send the current track
  (`StartsCurrent`) or to silence what plays (`AgreeOrEnded`); each track ends once (`EndedOnce`),
  and nobody is about to stop a track that should play (`SilencesNothing`).
- `VoiceInv` for `VoiceInSync`: an event of the bot's last move names the channel it is in
  (`EventsOfNow`), and the store and the player each know that channel, or an event that
  will tell them is to come, or they are empty and a tear-down is on its way to
  disconnect (`StoreKnows`, `PlayerKnows`); a `/play` that has its voice state is about to record
  the right channel, or an event will correct it (`ArrivedKnows`). The exception is an event that
  was overtaken (`Passed`): it cannot be handled in order any more, so such a behaviour
  never becomes quiet again.
- `AloneInv` for `NotAlone`, on top of `VoiceInv`: as long as no moderator moves the bot, a channel
  that a `/play` joins or an event names has somebody in it (`PlaysToSomebody`), and a player's channel
  without anybody has a watcher that was told, a tear-down or an event that changes it
  (`HeardOrLeaves`); a tear-down that ends has left (`LeftForGood`).

Their hypotheses are needed. With a Lavalink request that may fail TLC finds all three
agreements broken on the same instances, and with a gateway call that may fail `VoiceInSync` and `NotAlone`;
`PlaybackInSync` holds there, as the theorem says. TLC checked each of these invariants on the instances
of section 3 (`Members`, `InSync`, `Alone`) before it was proved.

For the life cycle (`SessionInv`) the program counters of `main` and of the reader
are related to what `Connect` was answered and to what is published; a process
that has the answer has had its session. `CommandsServed` and `LeavesNoCommand` need that only a
process that registers touches the registry and that no two of these are alive at
once, which `Start` and `DeploymentAssumption` together give. During a clean-up every
registered command is still to be deleted or has had its deletion fail (`Owns`).

Every safety invariant and every step property of a passing run is a theorem. Only
model-checked is everything temporal (`CallsReturn`, `Responsive`,
`HandlersReturn`, `LeavingEnds`, `QueueDrains`, `DropIsNoticed`, `GaugeConverges`,
`SignalsHonoured`): liveness and `ENABLED` are out of the prover's reach.

## 5. What the checks say about the code

The store is right: no lost wakeup, no leak, no wrong answer, for any number of
callers. The player never gives a track out twice, and tear-downs exclude each
other and always release their mark, whatever fails. So is the client's session:
published only while somebody reads it, one per process, withdrawn on every
failure. `main` announces nothing too early, and commands are neither missing
nor left behind after a crash and a restart, unless the deletion of that very
command failed.

Where the code fails is between the critical sections, as the four claims show,
and by the same gaps, which the hazards of `PROJECT.json` without properties list:

- a `PlayTrack` in flight may arrive after the `StopTrack` of a `/stop`, so that a
  track plays which the player does not know;
- a `/leave` that meets another one in progress reports success before, or
  without, the disconnection;
- a `/leave` whose `DestroyPlayer` fails (main.go:621) has forgotten the player and
  returns without disconnecting: the bot sits in the channel, and the next
  `/leave` answers that it is not connected;
- when the `PlayTrack` of the track-end handler fails (main.go:267) the player keeps a current
  track that Lavalink never got; no track end will come, and a new `/play` only
  queues;
- a leave that runs between the steps of a `/play` leaves it playing into a
  destroyed player and recording a channel the bot is not in;
- the bot's own voice events may be handled in the wrong order, and the store and
  the player then keep the older one (main.go:226);
- an auto-leave that is refused by the mark of a tear-down which is over
  leaves the bot alone in the channel of a new `/play` (main.go:636);
- a member who goes while a watcher counts can make it skip the next entry
  (main.go:780): the bot then leaves a channel with a listener in it. Without
  `departed` in `NoHumanMissed` TLC shows how;
- a websocket that drops is noticed but not dialled again (client.go:410):
  playback commands fail until the process is restarted, and the players keep their state;
- a process started before the old one has finished its clean-up loses commands
  to it; the rule in the documents is needed, and `DeploymentAssumption` states it.

`IdleMeansEmpty` and `ImplementsPlaylist` hold only without failing requests:
`ClearCurrent` empties the current slot in front of a queue, which `ClaimFIFO` shows.

## 6. Not modelled, and what is left

- *Track selection* (`LoadTrack`): which track of a search or playlist is taken is
  a choice of payload; no state depends on it. Its branches are one step that
  finds a track or does not.
- *Ready frames*: Lavalink is assumed to send one for each websocket, with a session
  ID in it. `readLoop` would publish the connection again on a second one, and one
  without an ID would leave `Connected` false after `Connect` has succeeded
  (client.go:439-450).
- *Metrics* other than the Lavalink gauge: counters and gauges record what is
  modelled elsewhere, the scrape and `Summary` only read. The HTTP server is library code.
- *Message rendering* (`/queue`, `/nowplaying`, `formatDuration`) and the replies:
  wording and layout.
- *Deployment files and scripts*: no state of the program.
- *Voice servers told apart*: the bot stores a token that changes during playback
  and does not forward it (main.go:239); what Lavalink does with the old one is not in
  this repository.
- *Two guilds*: the handlers of different guilds meet only in the mutexes and in
  `readLoop`, where a slow request of one delays the track ends of the other.
- *A torn slice header* in `humanUsersInChannel`: pointer and length of
  different lists have no bounded set of outcomes.
- *discordgo* itself: its reconnection, its rate limits, its state cache beyond the list of voice states.

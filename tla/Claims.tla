------------------------------- MODULE Claims --------------------------------
(***************************************************************************)
(* What comments, messages and documents of the repository say of the      *)
(* program and the program does not do.  Each claim is checked by a run    *)
(* of its own, in which TLC finds a behaviour of MusicBot that breaks it.  *)
(***************************************************************************)
EXTENDS MusicBot

Quiet ==
  /\ \A p \in Proc : pc[p] \in {"new", "idle", "done"}
  /\ voiceEvents = {}
  /\ events = << >>

(* handleSkip "keeps Lavalink in sync with the next playback state"        *)
(* (main.go:370).  Broken by a /play between a skip's Advance and its      *)
(* StopTrack, which then silences the new track.                           *)
SkipKeepsInSync == Quiet /\ player.current # None => lava.track # None

(* Enqueue "starts playback immediately when the guild is idle, otherwise  *)
(* it appends the track to the FIFO queue" (manager.go:45).  Broken when   *)
(* ClearCurrent leaves tracks queued behind an empty current slot: the     *)
(* next /play overtakes them.                                              *)
EnqueueIsFIFO == [][Guild!Next]_(Upcoming(player))

(* "If the bot is already active in another channel, it blocks a new       *)
(* `/play` request" (docs/project-overview.en.md:481).  Broken by two      *)
(* first requests from members of different channels.                      *)
OneActiveChannel ==
  [][\A t \in Track :
       pc[t] = "join" /\ pc'[t] = "await" => botChannel \in {None, chan[t]}]_vars

(* "Only terminal endings should pull from the queue. User-driven          *)
(* skips/stops are handled elsewhere." (main.go:253): whatever moves the   *)
(* player on, an ending does so only for the track that ended.  Broken     *)
(* when a track ends as it is skipped: its end pulls once more.            *)
OneEndOneAdvance ==
  [][ /\ events # << >> /\ events' = Tail(events)
      /\ Head(events).finished
      /\ player' # player
      => player.current = Head(events).track ]_vars
==============================================================================

\* Two channels, so that the bot can be in the wrong one; two tracks, so that a
\* /play can follow a leave or a moderator's move.
CONSTANTS
  None = None
  Channel = {lounge, stage}
  Track = {t1, t2}
  Skips = {k1}
  Stops = {x1}
  Leaves = {l1}
  Watchers = {}
  Admins = {a1}
  User = {ann}
  Faults = {}
  Reader = reader
  Session = {s1}
  BotSession = s1
  Token = {tok}
  VoiceToken = tok
  Endpoint = {e1}
  VoiceEndpoint = e1
SPECIFICATION SettledSpec
INVARIANTS PlaybackInSync VoiceInSync
SYMMETRY Symmetry
VIEW View
CHECK_DEADLOCK FALSE

\* Two members and two moves: the last one to go is not the first to move; two
\* tracks, so that a /play can bring the bot back after a leave of either kind.
CONSTANTS
  None = None
  Channel = {lounge, stage}
  Track = {t1, t2}
  Skips = {}
  Stops = {}
  Leaves = {l1}
  Watchers = {w1, w2}
  Admins = {}
  User = {ann, bob}
  Faults = {}
  Reader = reader
  Session = {s1}
  BotSession = s1
  Token = {tok}
  VoiceToken = tok
  Endpoint = {e1}
  VoiceEndpoint = e1
SPECIFICATION SettledSpec
INVARIANTS NotAlone
SYMMETRY Symmetry
VIEW View
CHECK_DEADLOCK FALSE

\* A /play, three ways to leave at once (two commands and the auto-leave), and
\* every request to Lavalink or Discord may fail.
CONSTANTS
  None = None
  Channel = {lounge}
  Track = {t1}
  Skips = {}
  Stops = {}
  Leaves = {l1, l2}
  Watchers = {w1}
  Admins = {}
  User = {ann}
  Faults = {"rest", "gateway"}
  Reader = reader
  Session = {s1}
  BotSession = s1
  Token = {tok}
  VoiceToken = tok
  Endpoint = {e1}
  VoiceEndpoint = e1
SPECIFICATION Spec
INVARIANTS TypeOK LeaveExclusive
PROPERTIES HandlersReturn LeavingEnds
CHECK_DEADLOCK FALSE

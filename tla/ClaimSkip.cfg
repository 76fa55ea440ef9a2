\* A track that plays, one that is enqueued during the skip.
CONSTANTS
  None = None
  Channel = {lounge}
  Track = {t1, t2}
  Skips = {k1}
  Stops = {}
  Leaves = {}
  Watchers = {}
  Admins = {}
  User = {ann}
  Faults = {}
  Reader = reader
  Session = {s1}
  BotSession = s1
  Token = {tok}
  VoiceToken = tok
  Endpoint = {e1}
  VoiceEndpoint = e1
SPECIFICATION Safety
INVARIANTS SkipKeepsInSync
CHECK_DEADLOCK FALSE

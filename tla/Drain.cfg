\* Only /play and the end of tracks: the guild is left alone with its queue.
\* Three tracks, so that a queued track may wait behind another queued one.
CONSTANTS
  None = None
  Channel = {lounge}
  Track = {t1, t2, t3}
  Skips = {}
  Stops = {}
  Leaves = {}
  Watchers = {}
  Admins = {}
  User = {ann}
  Faults = {}
  Reader = reader
  Session = {s1}
  BotSession = s1
  Token = {tok}
  VoiceToken = tok
  Endpoint = {e1}
  VoiceEndpoint = e1
SPECIFICATION SpecTracksEnd
PROPERTIES QueueDrains
CHECK_DEADLOCK FALSE

\* The track that ends as it is skipped, and the next one.
CONSTANTS
  None = None
  Channel = {lounge}
  Track = {t1, t2}
  Skips = {k1}
  Stops = {}
  Leaves = {}
  Watchers = {}
  Admins = {}
  User = {ann}
  Faults = {}
  Reader = reader
  Session = {s1}
  BotSession = s1
  Token = {tok}
  VoiceToken = tok
  Endpoint = {e1}
  VoiceEndpoint = e1
SPECIFICATION Safety
PROPERTIES OneEndOneAdvance
CHECK_DEADLOCK FALSE

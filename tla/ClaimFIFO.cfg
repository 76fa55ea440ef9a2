\* Three tracks: the one that fails to start, the one queued behind it, and the
\* one that overtakes.
CONSTANTS
  None = None
  Channel = {lounge}
  Track = {t1, t2, t3}
  Skips = {}
  Stops = {}
  Leaves = {}
  Watchers = {}
  Admins = {}
  User = {ann}
  Faults = {"rest"}
  Reader = reader
  Session = {s1}
  BotSession = s1
  Token = {tok}
  VoiceToken = tok
  Endpoint = {e1}
  VoiceEndpoint = e1
SPECIFICATION Safety
PROPERTIES EnqueueIsFIFO
CHECK_DEADLOCK FALSE

\* Three tracks, so that a queue has an order; a skip, a stop and the end of a
\* track all take from it.
CONSTANTS
  None = None
  Channel = {lounge}
  Track = {t1, t2, t3}
  Skips = {k1}
  Stops = {x1}
  Leaves = {}
  Watchers = {}
  Admins = {}
  User = {ann}
  Faults = {}
  Reader = reader
  Session = {s1}
  BotSession = s1
  Token = {tok}
  VoiceToken = tok
  Endpoint = {e1}
  VoiceEndpoint = e1
SPECIFICATION Safety
INVARIANTS SentAtMostOnce IdleMeansEmpty
PROPERTIES ImplementsPlaylist
SYMMETRY Symmetry
VIEW View
CHECK_DEADLOCK FALSE

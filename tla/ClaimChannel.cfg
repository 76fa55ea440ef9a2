\* Two members, each in a channel of their own.
CONSTANTS
  None = None
  Channel = {lounge, stage}
  Track = {t1, t2}
  Skips = {}
  Stops = {}
  Leaves = {}
  Watchers = {}
  Admins = {}
  User = {ann, bob}
  Faults = {}
  Reader = reader
  Session = {s1}
  BotSession = s1
  Token = {tok}
  VoiceToken = tok
  Endpoint = {e1}
  VoiceEndpoint = e1
SPECIFICATION Safety
PROPERTIES OneActiveChannel
CHECK_DEADLOCK FALSE

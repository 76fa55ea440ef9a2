\* Two callers of one guild, asking for the same channel or for different
\* ones: a write must wake both, and may suit only one of them.
CONSTANTS
  Guild = {g1}
  Caller = {c1, c2}
  Channel = {lounge, stage}
  Session = {s1}
  Token = {t1}
  Endpoint = {e1}
  None = None
SPECIFICATION Spec
INVARIANTS TypeOK NoLostWakeup WaitersExact
PROPERTIES ImplementsWait CallsReturn

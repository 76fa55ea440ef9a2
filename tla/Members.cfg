\* Two humans and a bot; two events, so that one member can move or go while the
\* handler of the other event counts, and a bot can be looked up by both.
CONSTANTS
  None = None
  Channel = {lounge, stage}
  User = {ann, bob, dj}
  Bots = {dj}
  Self = hnmo
  Watchers = {w1, w2}
  Faults = {"guild", "lookup"}
SPECIFICATION Spec
INVARIANTS TypeOK CacheTrue NoHumanMissed KeptByHumans NotAmongBots
SYMMETRY Symmetry
VIEW View
CHECK_DEADLOCK FALSE

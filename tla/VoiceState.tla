----------------------------- MODULE VoiceState ------------------------------
(***************************************************************************)
(* The VoiceState value of internal/lavalink: what Lavalink needs to join  *)
(* a Discord voice channel.  Discord delivers it in two halves: the voice  *)
(* state (session and channel) and the voice server (token and endpoint).  *)
(* A guild missing from the store is EmptyState, which is never complete.  *)
(***************************************************************************)
EXTENDS BotDomain

CONSTANTS
  Session,    \* Discord voice session IDs
  Token,      \* voice server tokens
  Endpoint    \* voice server endpoints

ASSUME VoiceAssumption == None \notin Session \cup Token \cup Endpoint

State ==
  [ token     : Token \cup {None},
    endpoint  : Endpoint \cup {None},
    sessionID : Session \cup {None},
    channelID : Channel \cup {None} ]

EmptyState == [token |-> None, endpoint |-> None, sessionID |-> None, channelID |-> None]

WithVoiceState(s, session, ch) == [s EXCEPT !.sessionID = session, !.channelID = ch]

(* A slip for the checks: the two halves of the voice server swapped.      *)
WithVoiceServerSwapped(s, token, endpoint) == [s EXCEPT !.token = endpoint, !.endpoint = token]

WithVoiceServer(s, token, endpoint) == [s EXCEPT !.token = token, !.endpoint = endpoint]

(* A slip for the checks: the channel is not compared.                     *)
CompleteForAny(s, ch) == None \notin {s.token, s.endpoint, s.sessionID, s.channelID}

CompleteFor(s, ch) ==
  /\ None \notin {s.token, s.endpoint, s.sessionID, s.channelID}
  /\ ch # None => s.channelID = ch
==============================================================================

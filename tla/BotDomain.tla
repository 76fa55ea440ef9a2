------------------------------ MODULE BotDomain ------------------------------
(***************************************************************************)
(* The identifiers every component shares.  Go uses "" for "no channel",   *)
(* "no token" and a nil pointer for "no track"; all three are None here.   *)
(***************************************************************************)
CONSTANTS
  Channel,   \* voice channels of a guild
  None       \* "" or nil

ASSUME ChannelAssumption == None \notin Channel
==============================================================================

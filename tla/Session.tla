------------------------------- MODULE Session -------------------------------
(***************************************************************************)
(* What the rest of the bot may rely on about its Lavalink session: there  *)
(* is at most one in the life of a process.  It comes up, or it does not;  *)
(* and once it is down it stays down, since nothing dials again.           *)
(***************************************************************************)
CONSTANT Process

VARIABLE phase

Init == phase = [p \in Process |-> "none"]

Becomes(p, from, to) ==
  /\ phase[p] \in from
  /\ phase' = [phase EXCEPT ![p] = to]

Next == \E p \in Process : Becomes(p, {"none"}, "up") \/ Becomes(p, {"none", "up"}, "down")

Spec == Init /\ [][Next]_phase
==============================================================================

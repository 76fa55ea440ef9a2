------------------------------ MODULE MCSettled ------------------------------
(***************************************************************************)
(* Settled for TLC, with the symmetry of MCMusicBot.                       *)
(***************************************************************************)
EXTENDS Settled, TLC

Symmetry == UNION {Permutations(S) : S \in {Track, Channel, User}}

(* A goroutine that has returned never reads its variables again, and of   *)
(* the moves Discord counts only their order is ever compared: states that *)
(* differ in nothing else have the same future, and no property tells them *)
(* apart.                                                                  *)
Live(f, dead) == [p \in DOMAIN f |-> IF pc[p] = "done" THEN dead ELSE f[p]]

View ==
  << local, pc, Live(chan, None), next, Live(handed, EmptyState), Live(moved, NoMove),
     botChannel, userChannel, {[e EXCEPT !.op = voiceOps - @] : e \in voiceEvents}, lavalink >>
==============================================================================

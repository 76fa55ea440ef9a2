---------------------------- MODULE MCMemberCount ----------------------------
(***************************************************************************)
(* MemberCount for TLC: humans are interchangeable, and so are watchers    *)
(* and channels.                                                           *)
(***************************************************************************)
EXTENDS MemberCount, TLC

Symmetry == UNION {Permutations(S) : S \in {User \ Bots, Watchers, Channel}}

(* A watcher that has returned, or has not started, reads nothing of this  *)
(* again.                                                                  *)
Live(f, labels, dead) == [w \in Watchers |-> IF pc[w] \in labels THEN f[w] ELSE dead]

View ==
  << active, discordgo, cache, pc, Live(moved, {"watch"}, NoMove),
     Live(frame, Counting \cup {"begin"}, NewFrame),
     Live(seen, Counting \cup {"leave"}, NothingSeen), failed >>
==============================================================================

------------------------------ MODULE Playlist -------------------------------
(***************************************************************************)
(* What a guild's listeners are promised, as one list: what is playing and *)
(* what comes after it.  A track joins at the end, only the first one ever *)
(* leaves, and stopping or leaving drops everything at once.  Nothing is   *)
(* overtaken, repeated or lost from the middle.                            *)
(***************************************************************************)
EXTENDS Sequences

CONSTANT Track

VARIABLE list

TypeOK == list \in Seq(Track)

Init == list = << >>

Accept(t) ==
  /\ \A i \in DOMAIN list : list[i] # t
  /\ list' = Append(list, t)

Drop ==
  /\ list # << >>
  /\ list' = Tail(list)

Reset == list' = << >>

Next == Drop \/ Reset \/ \E t \in Track : Accept(t)

Spec == Init /\ [][Next]_list
==============================================================================

----------------------------- MODULE VoiceWait -------------------------------
(***************************************************************************)
(* What callers of VoiceStateStore.WaitForFullState may rely on, with no   *)
(* mention of how waiting is done: a call asks for a guild and a channel,  *)
(* and is answered with the guild's voice state at a moment when that      *)
(* state was complete for the channel, or fails when its context ends.     *)
(***************************************************************************)
EXTENDS VoiceState

CONSTANTS Guild, Caller

VARIABLES
  states,    \* the merged voice state of each guild
  asked,     \* what each caller is blocked on
  answer     \* what each caller was told last

vars == <<states, asked, answer>>

NotAsking == [guild |-> None, channel |-> None]
Failed == EmptyState

TypeOK ==
  /\ states \in [Guild -> State]
  /\ asked \in [Caller -> [guild : Guild, channel : Channel] \cup {NotAsking}]
  /\ answer \in [Caller -> State]

Init ==
  /\ states = [g \in Guild |-> EmptyState]
  /\ asked = [c \in Caller |-> NotAsking]
  /\ answer = [c \in Caller |-> Failed]

------------------------------------------------------------------------------
Ask(c, g, ch) ==
  /\ asked[c] = NotAsking
  /\ asked' = [asked EXCEPT ![c] = [guild |-> g, channel |-> ch]]
  /\ UNCHANGED <<states, answer>>

(* A complete state is there already: the caller does not block.           *)
AnswerAtOnce(c, g, ch) ==
  /\ asked[c] = NotAsking
  /\ CompleteFor(states[g], ch)
  /\ answer' = [answer EXCEPT ![c] = states[g]]
  /\ UNCHANGED <<states, asked>>

Answerable(c) ==
  /\ asked[c] # NotAsking
  /\ CompleteFor(states[asked[c].guild], asked[c].channel)

Answer(c) ==
  /\ Answerable(c)
  /\ answer' = [answer EXCEPT ![c] = states[asked[c].guild]]
  /\ asked' = [asked EXCEPT ![c] = NotAsking]
  /\ UNCHANGED states

GiveUp(c) ==
  /\ asked[c] # NotAsking
  /\ answer' = [answer EXCEPT ![c] = Failed]
  /\ asked' = [asked EXCEPT ![c] = NotAsking]
  /\ UNCHANGED states

(* Discord reports half of a voice state, or the bot forgets a guild.      *)
Change(g, s) ==
  /\ states' = [states EXCEPT ![g] = s]
  /\ UNCHANGED <<asked, answer>>

Next ==
  \/ \E c \in Caller : Answer(c) \/ GiveUp(c)
  \/ \E c \in Caller, g \in Guild, ch \in Channel : Ask(c, g, ch) \/ AnswerAtOnce(c, g, ch)
  \/ \E g \in Guild, s \in State : Change(g, s)

(* A call whose answer is there does not stay blocked for ever unless the  *)
(* state keeps changing under it.  This is weak fairness of Answer, spelt  *)
(* out: whether an answer is possible is a predicate of the state.         *)
Responsive == \A c \in Caller : []<>~Answerable(c)

Safety == Init /\ [][Next]_vars

Spec == Safety /\ Responsive
==============================================================================

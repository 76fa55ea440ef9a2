-------------------------- MODULE VoiceStateStore ----------------------------
(***************************************************************************)
(* internal/lavalink/voice_state.go.  Discord's gateway handlers write the *)
(* two halves of a guild's voice state; each /play handler waits for a     *)
(* complete one, registered under a channel of capacity one on which every *)
(* write leaves at most one token.  s.mu makes each critical section one   *)
(* step; a waiting goroutine runs unlocked between them, so a write can    *)
(* fall between any two of its steps.                                      *)
(***************************************************************************)
EXTENDS VoiceState

CONSTANTS
  Guild,
  Caller    \* goroutines that wait, one call at a time each

VARIABLES
  states,     \* s.states; a guild the map lacks is EmptyState
  waiters,    \* s.waiters: the callers registered under each guild
  signal,     \* the caller's waiter channel holds a token
  expired,    \* the caller's context is done
  pc,         \* where the caller is in WaitForFullState
  args,       \* the guild and the channel it asked for
  result      \* the state it returns; EmptyState stands for the error

vars == <<states, waiters, signal, expired, pc, args, result>>

Idle == [guild |-> None, channel |-> None]

TypeOK ==
  /\ states \in [Guild -> State]
  /\ waiters \in [Guild -> SUBSET Caller]
  /\ signal \in [Caller -> BOOLEAN]
  /\ expired \in [Caller -> BOOLEAN]
  /\ pc \in [Caller -> {"idle", "select", "check", "remove"}]
  /\ args \in [Caller -> [guild : Guild, channel : Channel] \cup {Idle}]
  /\ result \in [Caller -> State]

Init ==
  /\ states = [g \in Guild |-> EmptyState]
  /\ waiters = [g \in Guild |-> {}]
  /\ signal = [c \in Caller |-> FALSE]
  /\ expired = [c \in Caller |-> FALSE]
  /\ pc = [c \in Caller |-> "idle"]
  /\ args = [c \in Caller |-> Idle]
  /\ result = [c \in Caller |-> EmptyState]

------------------------------------------------------------------------------
(* Plausible slips, to see which property notices each one.                *)
NotifiedOne(g) ==
  [c \in Caller |-> signal[c] \/ (waiters[g] # {} /\ c = CHOOSE w \in waiters[g] : TRUE)]

SelectDoneOnWakeup(c) ==
  /\ pc[c] = "select"
  /\ expired[c] /\ signal[c]
  /\ result' = [result EXCEPT ![c] = EmptyState]
  /\ pc' = [pc EXCEPT ![c] = "remove"]
  /\ UNCHANGED <<states, waiters, signal, expired, args>>

RemoveWaiterOnSuccess(c) ==
  /\ pc[c] = "remove"
  /\ waiters' = IF result[c] = EmptyState THEN waiters
                ELSE [waiters EXCEPT ![args[c].guild] = @ \ {c}]
  /\ pc' = [pc EXCEPT ![c] = "idle"]
  /\ args' = [args EXCEPT ![c] = Idle]
  /\ signal' = [signal EXCEPT ![c] = FALSE]
  /\ expired' = [expired EXCEPT ![c] = FALSE]
  /\ UNCHANGED <<states, result>>

CheckAnyChannel(c) ==
  LET s == states[args[c].guild] IN
  /\ pc[c] = "check"
  /\ \/ /\ CompleteForAny(s, args[c].channel)
        /\ result' = [result EXCEPT ![c] = s]
        /\ pc' = [pc EXCEPT ![c] = "remove"]
     \/ /\ ~CompleteForAny(s, args[c].channel)
        /\ pc' = [pc EXCEPT ![c] = "select"]
        /\ UNCHANGED result
  /\ UNCHANGED <<states, waiters, signal, expired, args>>

------------------------------------------------------------------------------
(* notifyLocked: a send that never blocks; a token already there stays.    *)
Notified(g) == [c \in Caller |-> signal[c] \/ c \in waiters[g]]

Write(g, s) ==
  /\ states' = [states EXCEPT ![g] = s]
  /\ signal' = Notified(g)
  /\ UNCHANGED <<waiters, expired, pc, args, result>>

UpdateVoiceState(g, session, ch) == Write(g, WithVoiceState(states[g], session, ch))

(* Discord sends an empty endpoint while it moves a voice server.          *)
UpdateVoiceServer(g, token, endpoint) == Write(g, WithVoiceServer(states[g], token, endpoint))

Clear(g) == Write(g, EmptyState)

------------------------------------------------------------------------------
(* WaitForFullState up to the select: return what is complete already, or  *)
(* register, in the same critical section.                                 *)
ReturnAtOnce(c, g, ch) ==
  /\ pc[c] = "idle"
  /\ CompleteFor(states[g], ch)
  /\ result' = [result EXCEPT ![c] = states[g]]
  /\ UNCHANGED <<states, waiters, signal, expired, pc, args>>

Register(c, g, ch) ==
  /\ pc[c] = "idle"
  /\ ~CompleteFor(states[g], ch)
  /\ args' = [args EXCEPT ![c] = [guild |-> g, channel |-> ch]]
  /\ waiters' = [waiters EXCEPT ![g] = @ \cup {c}]
  /\ pc' = [pc EXCEPT ![c] = "select"]
  /\ UNCHANGED <<states, signal, expired, result>>

(* The context's deadline passes, wherever the caller is.                  *)
Expire(c) ==
  /\ pc[c] # "idle"
  /\ ~expired[c]
  /\ expired' = [expired EXCEPT ![c] = TRUE]
  /\ UNCHANGED <<states, waiters, signal, pc, args, result>>

(* The two arms of the select; Go picks either when both are ready.        *)
SelectDone(c) ==
  /\ pc[c] = "select"
  /\ expired[c]
  /\ result' = [result EXCEPT ![c] = EmptyState]
  /\ pc' = [pc EXCEPT ![c] = "remove"]
  /\ UNCHANGED <<states, waiters, signal, expired, args>>

SelectSignal(c) ==
  /\ pc[c] = "select"
  /\ signal[c]
  /\ signal' = [signal EXCEPT ![c] = FALSE]
  /\ pc' = [pc EXCEPT ![c] = "check"]
  /\ UNCHANGED <<states, waiters, expired, args, result>>

(* Read the state under the lock; keep waiting unless it is complete.      *)
Check(c) ==
  LET s == states[args[c].guild] IN
  /\ pc[c] = "check"
  /\ \/ /\ CompleteFor(s, args[c].channel)
        /\ result' = [result EXCEPT ![c] = s]
        /\ pc' = [pc EXCEPT ![c] = "remove"]
     \/ /\ ~CompleteFor(s, args[c].channel)
        /\ pc' = [pc EXCEPT ![c] = "select"]
        /\ UNCHANGED result
  /\ UNCHANGED <<states, waiters, signal, expired, args>>

(* The deferred removeWaiter, and the return.  The waiter channel is       *)
(* garbage afterwards, with any token left in it.                          *)
RemoveWaiter(c) ==
  /\ pc[c] = "remove"
  /\ waiters' = [waiters EXCEPT ![args[c].guild] = @ \ {c}]
  /\ pc' = [pc EXCEPT ![c] = "idle"]
  /\ args' = [args EXCEPT ![c] = Idle]
  /\ signal' = [signal EXCEPT ![c] = FALSE]
  /\ expired' = [expired EXCEPT ![c] = FALSE]
  /\ UNCHANGED <<states, result>>

------------------------------------------------------------------------------
Proceed(c) == SelectDone(c) \/ SelectSignal(c) \/ Check(c) \/ RemoveWaiter(c)

Discord(g) ==
  \/ \E session \in Session, ch \in Channel : UpdateVoiceState(g, session, ch)
  \/ \E token \in Token, endpoint \in Endpoint \cup {None} : UpdateVoiceServer(g, token, endpoint)

Next ==
  \/ \E g \in Guild : Discord(g) \/ Clear(g)
  \/ \E c \in Caller, g \in Guild, ch \in Channel : ReturnAtOnce(c, g, ch) \/ Register(c, g, ch)
  \/ \E c \in Caller : Expire(c) \/ Proceed(c)

(* A runnable goroutine is scheduled.  Nothing makes Discord answer.       *)
Fairness == \A c \in Caller : WF_vars(Proceed(c))

(* Every context of the bot is made by context.WithTimeout.  Its arm of    *)
(* the select needs strong fairness, which Go's uniform choice among the   *)
(* ready arms gives: writes may keep the other arm ready for ever.         *)
Deadlines == \A c \in Caller : WF_vars(Expire(c)) /\ SF_vars(SelectDone(c))

Safety == Init /\ [][Next]_vars

Spec == Safety /\ Fairness

------------------------------------------------------------------------------
(* No wakeup is lost: a caller that sleeps with nothing in its channel has *)
(* nothing to be woken for.  The check and the registration share one      *)
(* critical section (voice_state.go:53-61), and the token is consumed      *)
(* before the state is read (70-73), never after.                          *)
NoLostWakeup ==
  \A c \in Caller :
    pc[c] = "select" /\ ~signal[c] => ~CompleteFor(states[args[c].guild], args[c].channel)

(* A guild's waiter list holds the calls in progress for that guild and    *)
(* nothing else: nobody waits unregistered, and every return, the timeout  *)
(* included, takes its registration with it (voice_state.go:63).           *)
WaitersExact ==
  \A g \in Guild : waiters[g] = {c \in Caller : pc[c] # "idle" /\ args[c].guild = g}

(* Only a call in progress has arguments, and it has both.  With TypeOK    *)
(* and the two invariants above this is inductive.                         *)
CallsHaveArgs ==
  \A c \in Caller : IF pc[c] = "idle" THEN args[c] = Idle ELSE args[c] # Idle

(* With deadlines a call always comes back, even when Discord stays silent *)
(* or keeps reporting states the call cannot use (voice_state.go:66-78).   *)
CallsReturn == Deadlines => \A c \in Caller : pc[c] = "select" ~> pc[c] = "idle"

(* The store keeps the promise of VoiceWait.  A call is answered at the    *)
(* moment it reads a complete state, not when its return is seen.          *)
Blocked(c) == pc[c] \in {"select", "check"}

Asked == [c \in Caller |-> IF Blocked(c) THEN args[c] ELSE Idle]

Contract == INSTANCE VoiceWait WITH asked <- Asked, answer <- result

ImplementsWait == Contract!Spec
==============================================================================

------------------------ MODULE VoiceStateStoreProofs ------------------------
(***************************************************************************)
(* For any guilds, callers, channels and voice data: no wakeup is lost, no *)
(* registration leaks, and the store implements the safety part of its     *)
(* contract.  (That a blocked call is answered, and that calls return, are *)
(* liveness properties and stay with TLC.)                                 *)
(***************************************************************************)
EXTENDS VoiceStateStore, TLAPS

(* WaitersExact is what makes NoLostWakeup inductive: a write signals the  *)
(* registered callers, so a sleeping caller must be registered, under the  *)
(* guild it asked for.  CallsHaveArgs gives that guild.                    *)
IInv == TypeOK /\ CallsHaveArgs /\ WaitersExact /\ NoLostWakeup

LEMMA IdleIsNoCall ==
  ASSUME NEW g \in Guild, NEW ch \in Channel
  PROVE  [guild |-> g, channel |-> ch] # Idle
BY ChannelAssumption DEF Idle

(* The voice data a handler writes are well formed.                        *)
LEMMA MergedStates ==
  ASSUME NEW s \in State
  PROVE  /\ EmptyState \in State
         /\ \A session \in Session, ch \in Channel : WithVoiceState(s, session, ch) \in State
         /\ \A token \in Token, endpoint \in Endpoint \cup {None} :
              WithVoiceServer(s, token, endpoint) \in State
BY DEF State, EmptyState, WithVoiceState, WithVoiceServer

LEMMA EmptyIsIncomplete == \A ch \in Channel \cup {None} : ~CompleteFor(EmptyState, ch)
BY DEF CompleteFor, EmptyState

LEMMA InitInv == Init => IInv
<1> SUFFICES ASSUME Init PROVE IInv
  OBVIOUS
<1>1. TypeOK
  BY DEF Init, TypeOK, State, EmptyState
<1>2. CallsHaveArgs /\ WaitersExact /\ NoLostWakeup
  BY DEF Init, CallsHaveArgs, WaitersExact, NoLostWakeup
<1> QED
  BY <1>1, <1>2 DEF IInv

(* Every write is the same step: it changes one guild and signals whoever  *)
(* is registered there.                                                    *)
LEMMA WriteKeepsInv ==
  ASSUME IInv, NEW g \in Guild, NEW s \in State, Write(g, s)
  PROVE  IInv'
<1>1. TypeOK'
  BY DEF IInv, TypeOK, Write, Notified
<1>2. CallsHaveArgs' /\ WaitersExact'
  BY DEF IInv, TypeOK, CallsHaveArgs, WaitersExact, Write
<1>3. NoLostWakeup'
  <2> SUFFICES ASSUME NEW c \in Caller, pc'[c] = "select", ~signal'[c]
               PROVE  ~CompleteFor(states'[args'[c].guild], args'[c].channel)
    BY DEF NoLostWakeup
  <2>1. pc[c] = "select" /\ ~signal[c] /\ c \notin waiters[g] /\ args' = args
    BY DEF IInv, TypeOK, Write, Notified
  <2>2. args[c].guild # g
    BY <2>1 DEF IInv, WaitersExact
  <2>3. args[c] \in [guild : Guild, channel : Channel]
    BY <2>1 DEF IInv, TypeOK, CallsHaveArgs
  <2>4. states'[args[c].guild] = states[args[c].guild]
    BY <2>2, <2>3 DEF IInv, TypeOK, Write
  <2> QED
    BY <2>1, <2>4 DEF IInv, NoLostWakeup
<1> QED
  BY <1>1, <1>2, <1>3 DEF IInv

LEMMA RegisterKeepsInv ==
  ASSUME IInv, NEW c \in Caller, NEW g \in Guild, NEW ch \in Channel, Register(c, g, ch)
  PROVE  IInv'
<1>1. TypeOK'
  BY DEF IInv, TypeOK, Register
<1>2. CallsHaveArgs'
  BY IdleIsNoCall DEF IInv, TypeOK, CallsHaveArgs, Register
<1>3. WaitersExact'
  BY DEF IInv, TypeOK, WaitersExact, Register
<1>4. NoLostWakeup'
  BY DEF IInv, TypeOK, NoLostWakeup, Register
<1> QED
  BY <1>1, <1>2, <1>3, <1>4 DEF IInv

LEMMA CallerKeepsInv ==
  ASSUME IInv, NEW c \in Caller, Expire(c) \/ Proceed(c)
  PROVE  IInv'
<1>1. CASE Expire(c)
  BY <1>1 DEF IInv, TypeOK, CallsHaveArgs, WaitersExact, NoLostWakeup, Expire
<1>2. CASE SelectDone(c)
  <2>1. TypeOK'
    BY <1>2, MergedStates DEF IInv, TypeOK, SelectDone, State, EmptyState
  <2>2. CallsHaveArgs' /\ WaitersExact' /\ NoLostWakeup'
    BY <1>2 DEF IInv, TypeOK, CallsHaveArgs, WaitersExact, NoLostWakeup, SelectDone
  <2> QED
    BY <2>1, <2>2 DEF IInv
<1>3. CASE SelectSignal(c)
  BY <1>3 DEF IInv, TypeOK, CallsHaveArgs, WaitersExact, NoLostWakeup, SelectSignal
<1>4. CASE Check(c)
  <2>1. args[c] \in [guild : Guild, channel : Channel]
    BY <1>4 DEF IInv, TypeOK, CallsHaveArgs, Check
  <2>2. states[args[c].guild] \in State
    BY <2>1 DEF IInv, TypeOK
  <2>3. TypeOK'
    BY <1>4, <2>2 DEF IInv, TypeOK, Check
  <2>4. CallsHaveArgs' /\ WaitersExact'
    BY <1>4 DEF IInv, TypeOK, CallsHaveArgs, WaitersExact, Check
  <2>5. NoLostWakeup'
    BY <1>4 DEF IInv, TypeOK, NoLostWakeup, Check
  <2> QED
    BY <2>3, <2>4, <2>5 DEF IInv
<1>5. CASE RemoveWaiter(c)
  <2>1. TypeOK'
    BY <1>5 DEF IInv, TypeOK, RemoveWaiter
  <2>2. CallsHaveArgs'
    BY <1>5 DEF IInv, TypeOK, CallsHaveArgs, RemoveWaiter
  <2>3. WaitersExact'
    BY <1>5 DEF IInv, TypeOK, CallsHaveArgs, WaitersExact, RemoveWaiter
  <2>4. NoLostWakeup'
    BY <1>5 DEF IInv, TypeOK, NoLostWakeup, RemoveWaiter
  <2> QED
    BY <2>1, <2>2, <2>3, <2>4 DEF IInv
<1> QED
  BY <1>1, <1>2, <1>3, <1>4, <1>5 DEF Proceed

LEMMA ReturnAtOnceKeepsInv ==
  ASSUME IInv, NEW c \in Caller, NEW g \in Guild, NEW ch \in Channel, ReturnAtOnce(c, g, ch)
  PROVE  IInv'
BY DEF IInv, TypeOK, CallsHaveArgs, WaitersExact, NoLostWakeup, ReturnAtOnce

LEMMA NextInv == IInv /\ [Next]_vars => IInv'
<1> SUFFICES ASSUME IInv, [Next]_vars PROVE IInv'
  OBVIOUS
<1>1. CASE \E g \in Guild : Discord(g) \/ Clear(g)
  <2>1. PICK g \in Guild : Discord(g) \/ Clear(g)
    BY <1>1
  <2>2. states[g] \in State
    BY DEF IInv, TypeOK
  <2>3. \E s \in State : Write(g, s)
    BY <2>1, <2>2, MergedStates DEF Discord, Clear, UpdateVoiceState, UpdateVoiceServer
  <2> QED
    BY <2>3, WriteKeepsInv
<1>2. CASE \E c \in Caller, g \in Guild, ch \in Channel :
             ReturnAtOnce(c, g, ch) \/ Register(c, g, ch)
  BY <1>2, ReturnAtOnceKeepsInv, RegisterKeepsInv
<1>3. CASE \E c \in Caller : Expire(c) \/ Proceed(c)
  BY <1>3, CallerKeepsInv
<1>4. CASE UNCHANGED vars
  BY <1>4 DEF IInv, TypeOK, CallsHaveArgs, WaitersExact, NoLostWakeup, vars
<1> QED
  BY <1>1, <1>2, <1>3, <1>4 DEF Next

THEOREM StoreInvariant == Safety => []IInv
BY InitInv, NextInv, PTL DEF Safety

(* A caller asleep with nothing in its channel has nothing to be woken     *)
(* for, whatever the interleaving of writers and waiters.                  *)
THEOREM NoWakeupIsLost == Spec => []NoLostWakeup
<1>1. IInv => NoLostWakeup
  BY DEF IInv
<1> QED
  BY <1>1, StoreInvariant, PTL DEF Spec

(* The waiter lists hold the calls in progress and nothing else.           *)
THEOREM NoWaiterLeaks == Spec => []WaitersExact
<1>1. IInv => WaitersExact
  BY DEF IInv
<1> QED
  BY <1>1, StoreInvariant, PTL DEF Spec

THEOREM StoreTypeCorrect == Spec => []TypeOK
<1>1. IInv => TypeOK
  BY DEF IInv
<1> QED
  BY <1>1, StoreInvariant, PTL DEF Spec

------------------------------------------------------------------------------
(* The steps of the contract that the store's steps amount to.             *)
LEMMA WriteImplements ==
  ASSUME IInv, NEW g \in Guild, NEW s \in State, Write(g, s)
  PROVE  Contract!Next
<1>1. Asked' = Asked
  BY DEF Asked, Blocked, Write
<1>2. Contract!Change(g, s)
  BY <1>1 DEF Contract!Change, Write
<1>3. s \in Contract!State
  BY DEF State, Contract!State
<1> QED
  BY <1>2, <1>3 DEF Contract!Next

LEMMA RegisterImplements ==
  ASSUME IInv, NEW c \in Caller, NEW g \in Guild, NEW ch \in Channel, Register(c, g, ch)
  PROVE  Contract!Next
<1>1. Asked[c] = Contract!NotAsking
  BY DEF Asked, Blocked, Register, Idle, Contract!NotAsking
<1>2. Asked' = [Asked EXCEPT ![c] = [guild |-> g, channel |-> ch]]
  BY DEF IInv, TypeOK, Asked, Blocked, Register
<1>3. Contract!Ask(c, g, ch)
  BY <1>1, <1>2 DEF Contract!Ask, Register
<1> QED
  BY <1>3 DEF Contract!Next

LEMMA ReturnAtOnceImplements ==
  ASSUME IInv, NEW c \in Caller, NEW g \in Guild, NEW ch \in Channel, ReturnAtOnce(c, g, ch)
  PROVE  Contract!Next
<1>1. Asked[c] = Contract!NotAsking /\ Asked' = Asked
  BY DEF Asked, Blocked, ReturnAtOnce, Idle, Contract!NotAsking
<1>2. Contract!CompleteFor(states[g], ch)
  BY DEF ReturnAtOnce, CompleteFor, Contract!CompleteFor
<1>3. Contract!AnswerAtOnce(c, g, ch)
  BY <1>1, <1>2 DEF Contract!AnswerAtOnce, ReturnAtOnce
<1> QED
  BY <1>3 DEF Contract!Next

LEMMA CallerImplements ==
  ASSUME IInv, NEW c \in Caller, Expire(c) \/ Proceed(c)
  PROVE  Contract!Next \/ UNCHANGED Contract!vars
<1>0. pc[c] \in {"select", "check"} => Asked[c] = args[c] /\ Asked[c] # Contract!NotAsking
  BY DEF IInv, CallsHaveArgs, Asked, Blocked, Idle, Contract!NotAsking
<1>1. CASE Expire(c)
  BY <1>1 DEF Expire, Asked, Blocked, Contract!vars
<1>2. CASE SelectDone(c)
  <2>1. Asked' = [Asked EXCEPT ![c] = Contract!NotAsking]
    BY <1>2 DEF IInv, TypeOK, SelectDone, Asked, Blocked, Idle, Contract!NotAsking
  <2>2. Contract!GiveUp(c)
    BY <1>0, <1>2, <2>1
    DEF SelectDone, Contract!GiveUp, Contract!Failed, EmptyState, Contract!EmptyState
  <2> QED
    BY <2>2 DEF Contract!Next
<1>3. CASE SelectSignal(c)
  <2>1. Asked' = Asked
    BY <1>3 DEF IInv, TypeOK, SelectSignal, Asked, Blocked
  <2> QED
    BY <1>3, <2>1 DEF SelectSignal, Contract!vars
<1>4. CASE Check(c)
  <2>1. CASE CompleteFor(states[args[c].guild], args[c].channel)
    <3>1. Asked' = [Asked EXCEPT ![c] = Contract!NotAsking]
      BY <1>4, <2>1 DEF IInv, TypeOK, Check, Asked, Blocked, Idle, Contract!NotAsking
    <3>2. Contract!Answerable(c)
      BY <1>0, <1>4, <2>1
      DEF Check, Contract!Answerable, CompleteFor, Contract!CompleteFor
    <3>3. Contract!Answer(c)
      BY <1>0, <1>4, <2>1, <3>1, <3>2 DEF Check, Contract!Answer
    <3> QED
      BY <3>3 DEF Contract!Next
  <2>2. CASE ~CompleteFor(states[args[c].guild], args[c].channel)
    <3>1. Asked' = Asked
      BY <1>4, <2>2 DEF IInv, TypeOK, Check, Asked, Blocked
    <3> QED
      BY <1>4, <2>2, <3>1 DEF Check, Contract!vars
  <2> QED
    BY <2>1, <2>2
<1>5. CASE RemoveWaiter(c)
  <2>1. Asked' = Asked
    BY <1>5 DEF IInv, TypeOK, RemoveWaiter, Asked, Blocked
  <2> QED
    BY <1>5, <2>1 DEF RemoveWaiter, Contract!vars
<1> QED
  BY <1>1, <1>2, <1>3, <1>4, <1>5 DEF Proceed

LEMMA InitImplements == Init => Contract!Init
BY DEF Init, Contract!Init, Asked, Blocked, Idle, Contract!NotAsking, Contract!Failed,
       EmptyState, Contract!EmptyState

LEMMA NextImplements == IInv /\ [Next]_vars => [Contract!Next]_(Contract!vars)
<1> SUFFICES ASSUME IInv, [Next]_vars PROVE Contract!Next \/ UNCHANGED Contract!vars
  OBVIOUS
<1>1. CASE \E g \in Guild : Discord(g) \/ Clear(g)
  <2>1. PICK g \in Guild : Discord(g) \/ Clear(g)
    BY <1>1
  <2>2. states[g] \in State
    BY DEF IInv, TypeOK
  <2>3. \E s \in State : Write(g, s)
    BY <2>1, <2>2, MergedStates DEF Discord, Clear, UpdateVoiceState, UpdateVoiceServer
  <2> QED
    BY <2>3, WriteImplements
<1>2. CASE \E c \in Caller, g \in Guild, ch \in Channel :
             ReturnAtOnce(c, g, ch) \/ Register(c, g, ch)
  BY <1>2, ReturnAtOnceImplements, RegisterImplements
<1>3. CASE \E c \in Caller : Expire(c) \/ Proceed(c)
  BY <1>3, CallerImplements
<1>4. CASE UNCHANGED vars
  BY <1>4 DEF vars, Contract!vars, Asked, Blocked
<1> QED
  BY <1>1, <1>2, <1>3, <1>4 DEF Next

(* Whatever callers and writers do, the store answers a call only with a   *)
(* state that was the guild's and complete for the channel at that moment. *)
THEOREM StoreImplementsWait == Spec => Contract!Safety
<1>1. Init => Contract!Init
  BY InitImplements
<1>2. IInv /\ [Next]_vars => [Contract!Next]_(Contract!vars)
  BY NextImplements
<1> QED
  BY <1>1, <1>2, StoreInvariant, PTL DEF Spec, Safety, Contract!Safety
==============================================================================

-------------------------- MODULE MemberCountProofs --------------------------
(***************************************************************************)
(* MemberCount for any number of members, bots, channels and watchers, and *)
(* with any of the faults.                                                 *)
(***************************************************************************)
EXTENDS MemberCount, FiniteSetTheorems, SequenceTheorems, TLAPS

Anybody == User \cup {Self}

LEMMA EntryFields ==
  ASSUME NEW u \in Anybody, NEW ch \in Channel, NEW member \in BOOLEAN
  PROVE  [user |-> u, channel |-> ch, member |-> member] \in Entry
BY DEF Anybody, Entry, EntryOf

------------------------------------------------------------------------------
LEMMA SetEntry ==
  ASSUME NEW S, NEW s \in Seq(S), NEW i \in 1 .. Len(s), NEW e \in S, NEW t,
         t = [s EXCEPT ![i] = e]
  PROVE  /\ t \in Seq(S) /\ Len(t) = Len(s)
         /\ \A j \in 1 .. Len(s) : t[j] = IF j = i THEN e ELSE s[j]
BY ExceptSeq

(* The four ways in which discordgo changes the array: what becomes of     *)
(* each entry.                                                             *)
ListType == array \in Seq(Entry) /\ live \in 0 .. Len(array)

LEMMA ReplaceArray ==
  ASSUME ListType, NEW u \in Anybody, NEW ch \in Channel \cup {None}, NEW member \in BOOLEAN,
         Replace(u, ch, member)
  PROVE  /\ ListType' /\ live' = live /\ frame' = frame /\ Len(array') = Len(array)
         /\ \A i \in 1 .. Len(array) :
              \/ array'[i] = array[i]
              \/ array[i].user = u /\ array'[i].user = u /\ array'[i].channel = ch
         /\ \E i \in 1 .. live : array'[i].user = u /\ array'[i].channel = ch
<1> DEFINE e == [user |-> u, channel |-> ch, member |-> member]
<1>1. e \in Entry /\ e.user = u /\ e.channel = ch
  BY EntryFields DEF Replace
<1>2. PICK i \in 1 .. live : array[i].user = u /\ array' = [array EXCEPT ![i] = e]
  BY DEF Replace
<1> HIDE DEF e
<1>3. i \in 1 .. Len(array) /\ Len(array) \in Nat
  BY LenProperties DEF ListType
<1>4. /\ array' \in Seq(Entry) /\ Len(array') = Len(array)
      /\ \A j \in 1 .. Len(array) : array'[j] = IF j = i THEN e ELSE array[j]
  BY <1>1, <1>2, <1>3, SetEntry DEF ListType
<1>5. live' = live /\ frame' = frame
  BY DEF Replace
<1> QED
  BY <1>1, <1>2, <1>4, <1>5 DEF ListType

LEMMA AppendArray ==
  ASSUME ListType, NEW u \in Anybody, NEW ch \in Channel \cup {None}, NEW member \in BOOLEAN,
         AppendInPlace(u, ch, member) \/ AppendElsewhere(u, ch, member)
  PROVE  /\ ListType' /\ live' = live + 1 /\ Len(array') >= Len(array)
         /\ \A i \in 1 .. Len(array) : i # live + 1 => array'[i] = array[i]
         /\ array'[live + 1].user = u /\ array'[live + 1].channel = ch
         /\ \A i \in 1 .. Len(array') : i = live + 1 \/ i \in 1 .. Len(array)
<1> DEFINE e == [user |-> u, channel |-> ch, member |-> member]
<1>1. e \in Entry /\ e.user = u /\ e.channel = ch
  BY EntryFields DEF AppendInPlace, AppendElsewhere
<1>2. /\ live' = live + 1
      /\ array' = IF live < Len(array) THEN [array EXCEPT ![live + 1] = e] ELSE Append(array, e)
  BY DEF AppendInPlace, AppendElsewhere, ListType
<1> HIDE DEF e
<1>3. Len(array) \in Nat /\ live \in Nat /\ live <= Len(array)
  BY LenProperties DEF ListType
<1>4. CASE live < Len(array)
  <2>1. live + 1 \in 1 .. Len(array)
    BY <1>3, <1>4
  <2>2. /\ array' \in Seq(Entry) /\ Len(array') = Len(array)
        /\ \A j \in 1 .. Len(array) : array'[j] = IF j = live + 1 THEN e ELSE array[j]
    BY <1>1, <1>2, <1>4, <2>1, SetEntry DEF ListType
  <2> QED
    BY <1>1, <1>2, <1>3, <2>1, <2>2 DEF ListType
<1>5. CASE ~(live < Len(array))
  <2>1. array' = Append(array, e)
    BY <1>2, <1>5
  <2>2. /\ array' \in Seq(Entry) /\ Len(array') = Len(array) + 1
        /\ \A j \in 1 .. Len(array) : array'[j] = array[j]
        /\ array'[Len(array) + 1] = e
    BY <1>1, <2>1, AppendProperties DEF ListType
  <2> QED
    BY <1>1, <1>2, <1>3, <1>5, <2>2 DEF ListType
<1> QED
  BY <1>4, <1>5

LEMMA RemoveArray ==
  ASSUME ListType, NEW u, Remove(u)
  PROVE  /\ ListType' /\ live' = live - 1 /\ frame' = frame /\ Len(array') = Len(array)
         /\ \A i \in 1 .. Len(array) :
              array'[i] = array[i] \/ (i < live /\ array'[i] = array[i + 1])
         /\ \E i \in 1 .. live :
              /\ array[i].user = u
              /\ \A j \in 1 .. Len(array) :
                   array'[j] = IF j \in i .. live - 1 THEN array[j + 1] ELSE array[j]
<1>1. PICK i \in 1 .. live :
        /\ array[i].user = u
        /\ array' = [j \in DOMAIN array |-> IF j \in i .. live - 1 THEN array[j + 1] ELSE array[j]]
  BY DEF Remove
<1>2. /\ Len(array) \in Nat /\ live \in Nat /\ live <= Len(array)
      /\ DOMAIN array = 1 .. Len(array)
      /\ \A j \in 1 .. Len(array) : array[j] \in Entry
  BY LenProperties, ElementOfSeq DEF ListType
<1>3. \A j \in 1 .. Len(array) :
        array'[j] = IF j \in i .. live - 1 THEN array[j + 1] ELSE array[j]
  BY <1>1, <1>2
<1>4. array' \in [1 .. Len(array) -> Entry]
  BY <1>1, <1>2
<1>5. array' \in Seq(Entry)
  BY <1>2, <1>4, SeqDef
<1>6. Len(array') = Len(array)
  BY <1>2, <1>4, <1>5, LenProperties
<1>7. live' = live - 1 /\ frame' = frame
  BY DEF Remove
<1> QED
  BY <1>1, <1>2, <1>3, <1>5, <1>6, <1>7 DEF ListType

------------------------------------------------------------------------------
(* What a watcher sees of a change while it counts.                        *)
Reads(w) ==
  /\ frame[w].limit <= Len(Array(w)) /\ frame[w].cursor >= 1
  /\ pc[w] \in {"classify", "lookup"} =>
       frame[w].entry \in EntryOf(User) /\ frame[w].cursor <= frame[w].limit
  /\ pc[w] \in {"new", "watch", "begin"} =>
       [frame[w] EXCEPT !.channel = None] = NewFrame

Visible(w, i) == i <= frame[w].limit \/ (frame[w].copy = << >> /\ i <= live)

InList(w) == frame[w].copy = << >> => frame[w].limit <= live

SameButCopy(f, g) ==
  /\ f.channel = g.channel /\ f.limit = g.limit /\ f.cursor = g.cursor
  /\ f.humans = g.humans /\ f.entry = g.entry

(* Nobody moves within the part that is read unless somebody is removed,   *)
(* and whatever is there came in now or was there before.                  *)
SeesChange(w, u, ch) ==
  /\ Len(Array(w)') >= Len(Array(w))
  /\ ch # None /\ InList(w) =>
       /\ InList(w)'
       /\ \A i \in 1 .. frame[w].limit :
            \/ Array(w)'[i] = Array(w)[i]
            \/ Array(w)[i].user = u /\ Array(w)'[i].user = u /\ Array(w)'[i].channel = ch
  /\ \A i \in 1 .. Len(Array(w)') : Visible(w, i)' =>
       \/ Array(w)'[i].user = u /\ Array(w)'[i].channel = ch
       \/ \E j \in 1 .. Len(Array(w)) : Visible(w, j) /\ Array(w)'[i] = Array(w)[j]

LEMMA FrameFields ==
  ASSUME TypeOK, NEW w \in Watchers
  PROVE  /\ frame[w].channel \in Channel \cup {None} /\ frame[w].copy \in Seq(Entry)
         /\ frame[w].limit \in Nat /\ frame[w].cursor \in Nat /\ frame[w].humans \in Nat
         /\ frame[w].entry \in EntryOf(User) \cup {None}
         /\ Array(w) \in Seq(Entry) /\ Len(Array(w)) \in Nat
<1>1. frame[w] \in Frame /\ array \in Seq(Entry)
  BY DEF TypeOK
<1>2. frame[w].copy \in Seq(Entry)
  BY <1>1 DEF Frame
<1>3. Array(w) \in Seq(Entry)
  BY <1>1, <1>2 DEF Array
<1> QED
  BY <1>1, <1>2, <1>3, LenProperties DEF Frame

LEMMA ListChange ==
  ASSUME TypeOK, NEW u \in Anybody, NEW ch \in Channel \cup {None}, NEW member \in BOOLEAN,
         ListChanges(u, ch, member), NEW w \in Watchers, Reads(w)
  PROVE  /\ ListType' /\ SameButCopy(frame'[w], frame[w]) /\ frame'[w].copy \in Seq(Entry)
         /\ pc[w] \notin Counting => frame'[w] = frame[w]
         /\ SeesChange(w, u, ch)
<1>1. /\ ListType /\ live \in Nat /\ Len(array) \in Nat /\ live <= Len(array)
      /\ frame[w].limit \in Nat /\ frame[w].copy \in Seq(Entry)
      /\ frame[w].limit <= Len(Array(w)) /\ Len(Array(w)) \in Nat
  BY FrameFields, LenProperties DEF TypeOK, ListType, Reads
<1>2. CASE Replace(u, ch, member)
  <2>1. /\ ListType' /\ live' = live /\ frame' = frame /\ Len(array') = Len(array)
        /\ \A i \in 1 .. Len(array) :
             \/ array'[i] = array[i]
             \/ array[i].user = u /\ array'[i].user = u /\ array'[i].channel = ch
    BY <1>1, <1>2, ReplaceArray
  <2>2. CASE frame[w].copy = << >>
    <3>1. Array(w) = array /\ Array(w)' = array'
      BY <2>1, <2>2 DEF Array
    <3> QED
      BY <1>1, <2>1, <2>2, <3>1 DEF SameButCopy, SeesChange, Visible, InList
  <2>3. CASE frame[w].copy # << >>
    <3>1. Array(w)' = Array(w)
      BY <2>1, <2>3 DEF Array
    <3> QED
      BY <1>1, <2>1, <2>3, <3>1 DEF SameButCopy, SeesChange, Visible, InList
  <2> QED
    BY <2>2, <2>3
<1>3. CASE Remove(u) /\ ch = None
  <2>1. /\ ListType' /\ live' = live - 1 /\ frame' = frame /\ Len(array') = Len(array)
        /\ \A i \in 1 .. Len(array) :
             array'[i] = array[i] \/ (i < live /\ array'[i] = array[i + 1])
    BY <1>1, <1>3, RemoveArray
  <2>2. CASE frame[w].copy = << >>
    <3>1. Array(w) = array /\ Array(w)' = array'
      BY <2>1, <2>2 DEF Array
    <3>2. \A i \in 1 .. Len(array') : Visible(w, i)' =>
            \E j \in 1 .. Len(array) : Visible(w, j) /\ array'[i] = array[j]
      <4> SUFFICES ASSUME NEW i \in 1 .. Len(array'), Visible(w, i)'
                   PROVE  \E j \in 1 .. Len(array) : Visible(w, j) /\ array'[i] = array[j]
        OBVIOUS
      <4>1. Visible(w, i) /\ (i < live => Visible(w, i + 1))
        BY <1>1, <2>1, <2>2 DEF Visible
      <4> QED
        BY <1>1, <2>1, <4>1
    <3> QED
      BY <1>1, <1>3, <2>1, <2>2, <3>1, <3>2 DEF SameButCopy, SeesChange
  <2>3. CASE frame[w].copy # << >>
    <3>1. Array(w)' = Array(w)
      BY <2>1, <2>3 DEF Array
    <3> QED
      BY <1>1, <1>3, <2>1, <2>3, <3>1 DEF SameButCopy, SeesChange, Visible
  <2> QED
    BY <2>2, <2>3
<1>4. ASSUME AppendInPlace(u, ch, member) \/ AppendElsewhere(u, ch, member)
      PROVE  /\ ListType' /\ live' = live + 1 /\ Len(array') >= Len(array)
             /\ \A i \in 1 .. Len(array) : i # live + 1 => array'[i] = array[i]
             /\ array'[live + 1].user = u /\ array'[live + 1].channel = ch
             /\ \A i \in 1 .. Len(array') : i = live + 1 \/ i \in 1 .. Len(array)
             /\ Len(array') \in Nat
  <2>1. ListType'
    BY <1>1, <1>4, AppendArray
  <2>2. Len(array') \in Nat
    BY <2>1, LenProperties DEF ListType
  <2> QED
    BY <1>1, <1>4, <2>2, AppendArray
<1>5. ASSUME live' = live + 1, frame'[w] = frame[w],
             AppendInPlace(u, ch, member) \/ AppendElsewhere(u, ch, member)
      PROVE  SeesChange(w, u, ch)
  <2>1. CASE frame[w].copy = << >>
    <3>1. Array(w) = array /\ Array(w)' = array'
      BY <1>5, <2>1 DEF Array
    <3>2. ch # None /\ InList(w) =>
            /\ InList(w)'
            /\ \A i \in 1 .. frame[w].limit : array'[i] = array[i]
      <4> SUFFICES ASSUME frame[w].limit <= live
                   PROVE  /\ frame'[w].limit <= live'
                          /\ \A i \in 1 .. frame[w].limit : array'[i] = array[i]
        BY <2>1 DEF InList
      <4>1. \A i \in 1 .. frame[w].limit : i # live + 1 /\ i \in 1 .. Len(array)
        BY <1>1
      <4> QED
        BY <1>1, <1>4, <1>5, <4>1
    <3>3. \A i \in 1 .. Len(array') : Visible(w, i)' =>
            \/ array'[i].user = u /\ array'[i].channel = ch
            \/ \E j \in 1 .. Len(array) : Visible(w, j) /\ array'[i] = array[j]
      <4> SUFFICES ASSUME NEW i \in 1 .. Len(array'), Visible(w, i)', i # live + 1
                   PROVE  i \in 1 .. Len(array) /\ Visible(w, i) /\ array'[i] = array[i]
        BY <1>4, <1>5
      <4> QED
        BY <1>1, <1>4, <1>5, <2>1 DEF Visible
    <3> QED
      BY <1>4, <1>5, <3>1, <3>2, <3>3 DEF SeesChange
  <2>2. CASE frame[w].copy # << >>
    <3>1. Array(w)' = Array(w)
      BY <1>5, <2>2 DEF Array
    <3> QED
      BY <1>1, <1>5, <2>2, <3>1 DEF SeesChange, Visible, InList
  <2> QED
    BY <2>1, <2>2
<1>6. CASE AppendInPlace(u, ch, member)
  BY <1>1, <1>4, <1>5, <1>6 DEF AppendInPlace, SameButCopy
<1>7. CASE AppendElsewhere(u, ch, member)
  <2>1. /\ live = Len(array)
        /\ frame'[w] = IF pc[w] \in Counting /\ frame[w].copy = << >>
                       THEN [frame[w] EXCEPT !.copy = array] ELSE frame[w]
    BY <1>7 DEF AppendElsewhere
  <2>2. CASE ~(pc[w] \in Counting /\ frame[w].copy = << >>) \/ array = << >>
    <3>1. frame'[w] = frame[w]
      <4>1. frame[w].copy = << >> /\ array = << >> => [frame[w] EXCEPT !.copy = array] = frame[w]
        BY DEF TypeOK, Frame
      <4> QED
        BY <2>1, <2>2, <4>1
    <3> QED
      BY <1>1, <1>4, <1>5, <1>7, <3>1 DEF SameButCopy
  <2>3. CASE pc[w] \in Counting /\ frame[w].copy = << >> /\ array # << >>
    <3>1. frame[w] \in Frame
      BY DEF TypeOK
    <3>2. frame'[w].copy = array /\ SameButCopy(frame'[w], frame[w])
      BY <2>1, <2>3, <3>1 DEF Frame, SameButCopy
    <3>3. Array(w) = array /\ Array(w)' = array
      BY <2>3, <3>2 DEF Array
    <3>4. frame'[w].copy \in Seq(Entry) /\ frame'[w].copy # << >>
      BY <1>1, <2>3, <3>2 DEF ListType
    <3>5. SeesChange(w, u, ch)
      BY <1>1, <2>1, <2>3, <3>2, <3>3, <3>4 DEF SeesChange, Visible, InList, SameButCopy
    <3> QED
      BY <1>4, <1>7, <2>3, <3>2, <3>4, <3>5
  <2> QED
    BY <2>2, <2>3
<1> QED
  BY <1>2, <1>3, <1>6, <1>7 DEF ListChanges

------------------------------------------------------------------------------
(* The invariant.  Whoever stayed was counted or is still ahead of the     *)
(* cursor, in an entry that does not move, ...                             *)
Ahead(w, u) ==
  \E i \in frame[w].cursor .. frame[w].limit :
    Array(w)[i].user = u /\ Array(w)[i].channel = frame[w].channel

Complete(w) ==
  /\ pc[w] \in Counting /\ ~seen[w].departed =>
       /\ InList(w)
       /\ pc[w] \in {"classify", "lookup"} => frame[w].entry.user = Array(w)[frame[w].cursor].user
       /\ \A u \in seen[w].stayed : u \notin Bots /\ (frame[w].humans > 0 \/ Ahead(w, u))
  /\ pc[w] = "leave" /\ ~seen[w].departed => seen[w].stayed = {}

(* ... and whoever is in the part that is read was there during the count. *)
Sound(w) ==
  pc[w] \in Counting =>
    /\ \A i \in 1 .. Len(Array(w)) :
         /\ Visible(w, i)
         /\ Array(w)[i].user \in User \ Bots /\ Array(w)[i].channel = frame[w].channel
         => Array(w)[i].user \in seen[w].present
    /\ pc[w] \in {"classify", "lookup"} => frame[w].entry.user \in Bots \cup seen[w].present
    /\ frame[w].humans > 0 /\ ~failed => seen[w].present # {}

CountInv == TypeOK /\ CacheTrue /\ \A w \in Watchers : Reads(w) /\ Complete(w) /\ Sound(w)

Label == {"new", "watch", "begin", "leave", "done"} \cup Counting

LEMMA SeenFields ==
  ASSUME TypeOK, NEW w \in Watchers
  PROVE  /\ seen[w].stayed \in SUBSET User /\ seen[w].present \in SUBSET User
         /\ seen[w].departed \in BOOLEAN
BY DEF TypeOK, Seen

(* The list changes, and at most one watcher is told.                      *)
LEMMA ListStepType ==
  ASSUME CountInv, NEW u \in Anybody, NEW ch \in Channel \cup {None}, NEW member \in BOOLEAN,
         ListChanges(u, ch, member)
  PROVE  /\ ListType' /\ frame' \in [Watchers -> Frame] /\ seen' \in [Watchers -> Seen]
<1>1. TypeOK /\ \A w \in Watchers : Reads(w)
  BY DEF CountInv
<1>2. ListType
  BY <1>1 DEF TypeOK, ListType
<1>3. ListType'
  BY <1>2, ReplaceArray, AppendArray, RemoveArray DEF ListChanges
<1>4. frame' \in [Watchers -> Frame]
  <2>1. CASE AppendElsewhere(u, ch, member)
    <3>1. \A w \in Watchers : [frame[w] EXCEPT !.copy = array] \in Frame
      BY <1>1, <1>2 DEF TypeOK, Frame, ListType
    <3> QED
      BY <1>1, <2>1, <3>1 DEF AppendElsewhere, TypeOK
  <2>2. CASE frame' = frame
    BY <1>1, <2>2 DEF TypeOK
  <2> QED
    BY <2>1, <2>2 DEF ListChanges, Replace, AppendInPlace, Remove
<1>5. seen' \in [Watchers -> Seen]
  <2>1. {u} \ (Bots \cup {Self}) \subseteq User
    BY DEF Anybody
  <2>2. ASSUME NEW w \in Watchers
        PROVE  [ stayed   |-> IF ch = frame[w].channel THEN seen[w].stayed ELSE seen[w].stayed \ {u},
                 present  |-> IF ch = frame[w].channel
                              THEN seen[w].present \cup ({u} \ (Bots \cup {Self}))
                              ELSE seen[w].present,
                 departed |-> seen[w].departed \/ ch = None ] \in Seen
    BY <1>1, <2>1, SeenFields DEF Seen
  <2>3. \A w \in Watchers : seen[w] \in Seen
    BY <1>1 DEF TypeOK
  <2> QED
    BY <2>2, <2>3 DEF ListChanges
<1> QED
  BY <1>3, <1>4, <1>5

LEMMA ListStep ==
  ASSUME CountInv, NEW u \in Anybody, NEW ch \in Channel \cup {None}, NEW member \in BOOLEAN,
         ListChanges(u, ch, member), UNCHANGED <<cache, failed>>,
         NEW w \in Watchers, pc'[w] = pc[w] \/ (pc[w] = "new" /\ pc'[w] = "watch")
  PROVE  Reads(w)' /\ Complete(w)' /\ Sound(w)'
<1>1. TypeOK /\ Reads(w) /\ Complete(w) /\ Sound(w) /\ w \in Watchers
  BY DEF CountInv
<1>2. /\ SameButCopy(frame'[w], frame[w]) /\ frame'[w].copy \in Seq(Entry)
      /\ pc[w] \notin Counting => frame'[w] = frame[w]
      /\ SeesChange(w, u, ch)
  BY <1>1, ListChange
<1>3. /\ frame[w].limit \in Nat /\ frame[w].cursor \in Nat /\ frame[w].humans \in Nat
      /\ Len(Array(w)) \in Nat
  BY <1>1, FrameFields
<1>4. Len(Array(w)') \in Nat
  <2>1. array' \in Seq(Entry)
    BY ListStepType DEF ListType
  <2> QED
    BY <1>2, <2>1, LenProperties DEF Array
<1>5. Reads(w)'
  <2>1. /\ frame'[w].limit <= Len(Array(w)') /\ frame'[w].cursor >= 1
        /\ pc'[w] \in {"classify", "lookup"} =>
             frame'[w].entry \in EntryOf(User) /\ frame'[w].cursor <= frame'[w].limit
    BY <1>1, <1>2, <1>3, <1>4 DEF Reads, SameButCopy, SeesChange
  <2>2. pc'[w] \in {"new", "watch", "begin"} => frame'[w] = frame[w]
    BY <1>2 DEF Counting
  <2> QED
    BY <1>1, <2>1, <2>2 DEF Reads
<1>6. pc'[w] \in Counting => pc[w] = pc'[w]
  BY DEF Counting
<1>7. seen'[w] =
        IF pc[w] \notin Counting THEN seen[w]
        ELSE [ stayed   |-> IF ch = frame[w].channel THEN seen[w].stayed ELSE seen[w].stayed \ {u},
               present  |-> IF ch = frame[w].channel
                            THEN seen[w].present \cup ({u} \ (Bots \cup {Self}))
                            ELSE seen[w].present,
               departed |-> seen[w].departed \/ ch = None ]
  BY DEF ListChanges
<1>8. Complete(w)'
  <2>1. ASSUME pc'[w] \in Counting, ~seen'[w].departed
        PROVE  /\ InList(w)'
               /\ pc'[w] \in {"classify", "lookup"} =>
                    frame'[w].entry.user = Array(w)'[frame'[w].cursor].user
               /\ \A v \in seen'[w].stayed : v \notin Bots /\ (frame'[w].humans > 0 \/ Ahead(w, v)')
    <3>1. /\ pc[w] \in Counting /\ pc'[w] = pc[w] /\ ~seen[w].departed /\ ch # None
          /\ seen'[w].stayed = IF ch = frame[w].channel THEN seen[w].stayed ELSE seen[w].stayed \ {u}
      <4>1. pc[w] \in Counting /\ pc'[w] = pc[w]
        BY <1>6, <2>1
      <4>2. /\ seen'[w].stayed = IF ch = frame[w].channel THEN seen[w].stayed
                                 ELSE seen[w].stayed \ {u}
            /\ seen'[w].departed = (seen[w].departed \/ ch = None)
        BY <1>7, <4>1
      <4>3. ~(seen[w].departed \/ ch = None)
        BY <2>1, <4>2, Zenon
      <4> QED
        BY <4>1, <4>2, <4>3
    <3>2. /\ InList(w)
          /\ pc[w] \in {"classify", "lookup"} =>
               frame[w].entry.user = Array(w)[frame[w].cursor].user
          /\ \A v \in seen[w].stayed : v \notin Bots /\ (frame[w].humans > 0 \/ Ahead(w, v))
      BY <1>1, <3>1 DEF Complete
    <3>3. /\ InList(w)'
          /\ \A i \in 1 .. frame[w].limit :
               \/ Array(w)'[i] = Array(w)[i]
               \/ Array(w)[i].user = u /\ Array(w)'[i].user = u /\ Array(w)'[i].channel = ch
      BY <1>2, <3>1, <3>2 DEF SeesChange
    <3>4. \A i \in frame[w].cursor .. frame[w].limit : i \in 1 .. frame[w].limit
      BY <1>1, <1>3 DEF Reads
    <3>5. pc[w] \in {"classify", "lookup"} => frame[w].cursor \in 1 .. frame[w].limit
      BY <1>1, <1>3 DEF Reads
    <3>6. ASSUME NEW v \in seen'[w].stayed
          PROVE  v \notin Bots /\ (frame'[w].humans > 0 \/ Ahead(w, v)')
      <4>1. v \in seen[w].stayed /\ (v = u => ch = frame[w].channel)
        BY <3>1
      <4>2. CASE frame[w].humans > 0
        BY <1>2, <3>2, <4>1, <4>2 DEF SameButCopy
      <4>3. CASE Ahead(w, v)
        <5>1. PICK i \in frame[w].cursor .. frame[w].limit :
                Array(w)[i].user = v /\ Array(w)[i].channel = frame[w].channel
          BY <4>3 DEF Ahead
        <5>2. Array(w)'[i].user = v /\ Array(w)'[i].channel = frame[w].channel
          BY <3>3, <3>4, <4>1, <5>1
        <5> QED
          BY <1>2, <3>2, <4>1, <5>1, <5>2 DEF Ahead, SameButCopy
      <4> QED
        BY <3>2, <4>1, <4>2, <4>3
    <3>7. pc'[w] \in {"classify", "lookup"} =>
            frame'[w].entry.user = Array(w)'[frame'[w].cursor].user
      BY <1>2, <3>1, <3>2, <3>3, <3>5 DEF SameButCopy
    <3> QED
      BY <3>3, <3>6, <3>7
  <2>2. pc'[w] = "leave" => pc[w] = "leave" /\ seen'[w] = seen[w]
    BY <1>7 DEF Counting
  <2> QED
    BY <1>1, <2>1, <2>2 DEF Complete
<1>9. Sound(w)'
  <2> SUFFICES ASSUME pc'[w] \in Counting PROVE Sound(w)'
    BY DEF Sound
  <2>1. /\ pc[w] = pc'[w] /\ seen[w].present \subseteq seen'[w].present
        /\ ch = frame[w].channel /\ u \in User \ Bots => u \in seen'[w].present
    BY <1>6, <1>7, CountAssumption
  <2>2. ASSUME NEW i \in 1 .. Len(Array(w)'), Visible(w, i)',
               Array(w)'[i].user \in User \ Bots, Array(w)'[i].channel = frame[w].channel
        PROVE  Array(w)'[i].user \in seen'[w].present
    <3>1. CASE Array(w)'[i].user = u /\ Array(w)'[i].channel = ch
      BY <2>1, <2>2, <3>1
    <3>2. CASE \E j \in 1 .. Len(Array(w)) : Visible(w, j) /\ Array(w)'[i] = Array(w)[j]
      BY <1>1, <2>1, <2>2, <3>2 DEF Sound
    <3> QED
      BY <1>2, <2>2, <3>1, <3>2 DEF SeesChange
  <2>3. /\ frame'[w].channel = frame[w].channel /\ frame'[w].humans = frame[w].humans
        /\ frame'[w].entry = frame[w].entry
    BY <1>2 DEF SameButCopy
  <2>4. pc'[w] \in {"classify", "lookup"} => frame'[w].entry.user \in Bots \cup seen'[w].present
    BY <1>1, <2>1, <2>3 DEF Sound
  <2>5. frame'[w].humans > 0 /\ ~failed' => seen'[w].present # {}
    BY <1>1, <2>1, <2>3 DEF Sound
  <2> QED
    BY <2>2, <2>3, <2>4, <2>5 DEF Sound
<1> QED
  BY <1>5, <1>8, <1>9

------------------------------------------------------------------------------
(* A step of one watcher.                                                  *)
OnlyOf(w) ==
  /\ UNCHANGED <<array, live>> /\ (failed => failed')
  /\ \A q \in Watchers \ {w} : pc'[q] = pc[q] /\ frame'[q] = frame[q] /\ seen'[q] = seen[q]

LEMMA OthersKept ==
  ASSUME CountInv, NEW w \in Watchers, OnlyOf(w), NEW q \in Watchers \ {w}
  PROVE  Reads(q)' /\ Complete(q)' /\ Sound(q)'
<1>1. Reads(q) /\ Complete(q) /\ Sound(q)
  BY DEF CountInv
<1>2. /\ Array(q)' = Array(q) /\ InList(q)' = InList(q) /\ live' = live
      /\ pc'[q] = pc[q] /\ frame'[q] = frame[q] /\ seen'[q] = seen[q]
  BY DEF OnlyOf, Array, InList
<1>3. Reads(q)'
  BY <1>1, <1>2 DEF Reads
<1>4. Complete(q)'
  BY <1>1, <1>2 DEF Complete, Ahead
<1>5. Sound(q)'
  BY <1>1, <1>2 DEF Sound, Visible, OnlyOf
<1> QED
  BY <1>3, <1>4, <1>5

LEMMA StepTypes ==
  ASSUME TypeOK, NEW w \in Watchers, NEW l \in Label, Goto(w, l), UNCHANGED <<array, live, moved>>,
         active' \in Channel \cup {None}, failed' \in BOOLEAN,
         cache' \in [User -> {Unknown, "bot", "human"}],
         frame' \in [Watchers -> Frame], seen' \in [Watchers -> Seen]
  PROVE  TypeOK'
BY DEF TypeOK, Goto, Label

SameButCursor(f, g) ==
  /\ f.channel = g.channel /\ f.copy = g.copy /\ f.limit = g.limit
  /\ f.humans = g.humans /\ f.entry = g.entry

SameButEntry(f, g) ==
  /\ f.channel = g.channel /\ f.copy = g.copy /\ f.limit = g.limit
  /\ f.humans = g.humans /\ f.cursor = g.cursor

(* An entry is classified, rightly unless something failed.                *)
LEMMA CountedStep ==
  ASSUME CountInv, NEW w \in Watchers, pc[w] \in {"classify", "lookup"}, NEW kind, Counted(w, kind),
         UNCHANGED <<active, array, live, moved, seen>>,
         failed' \in BOOLEAN, failed => failed',
         cache' \in [User -> {Unknown, "bot", "human"}], CacheTrue',
         kind = "bot" => frame[w].entry.user \in Bots,
         kind # "bot" /\ ~failed' => frame[w].entry.user \notin Bots
  PROVE  CountInv'
<1>1. TypeOK /\ Reads(w) /\ Complete(w) /\ Sound(w)
  BY DEF CountInv
<1>2. /\ frame[w] \in Frame /\ frame[w].cursor \in Nat /\ frame[w].humans \in Nat
      /\ frame[w].limit \in Nat
  BY <1>1, FrameFields DEF TypeOK
<1> DEFINE h == IF kind = "bot" THEN frame[w].humans ELSE frame[w].humans + 1
           c == frame[w].cursor + 1
           g == [frame[w] EXCEPT !.cursor = c, !.entry = None, !.humans = h]
<1>3. frame' = [frame EXCEPT ![w] = g]
  BY <1>1 DEF Counted, TypeOK
<1>4. /\ g \in Frame /\ g.cursor = frame[w].cursor + 1 /\ g.limit = frame[w].limit
      /\ g.channel = frame[w].channel /\ g.copy = frame[w].copy
      /\ g.humans = IF kind = "bot" THEN frame[w].humans ELSE frame[w].humans + 1
  <2>1. h \in Nat /\ h = IF kind = "bot" THEN frame[w].humans ELSE frame[w].humans + 1
    BY <1>2
  <2>2. c \in Nat /\ c = frame[w].cursor + 1
    BY <1>2
  <2> HIDE DEF h, c
  <2>3. g \in Frame
    BY <1>2, <2>1, <2>2 DEF Frame
  <2>4. /\ g.cursor = c /\ g.limit = frame[w].limit
        /\ g.channel = frame[w].channel /\ g.copy = frame[w].copy /\ g.humans = h
    BY <1>2 DEF Frame
  <2> QED
    BY <2>1, <2>2, <2>3, <2>4
<1> HIDE DEF g, h, c
<1>5. frame' \in [Watchers -> Frame] /\ frame'[w] = g
  BY <1>1, <1>3, <1>4 DEF TypeOK
<1>6. TypeOK'
  BY <1>1, <1>5, StepTypes DEF Counted, Label, Counting, TypeOK
<1>7. /\ pc'[w] = "count" /\ seen' = seen
      /\ Array(w)' = Array(w)
  BY <1>1, <1>4, <1>5 DEF Counted, Goto, TypeOK, Array
<1>8. OnlyOf(w)
  BY <1>1, <1>3 DEF OnlyOf, Counted, Goto, TypeOK
<1>9. Reads(w)'
  BY <1>1, <1>2, <1>4, <1>5, <1>7 DEF Reads
<1>10. Complete(w)'
  <2>1. ASSUME ~seen[w].departed
        PROVE  InList(w)' /\ \A u \in seen[w].stayed : u \notin Bots /\ (g.humans > 0 \/ Ahead(w, u)')
    <3>1. /\ InList(w) /\ frame[w].entry.user = Array(w)[frame[w].cursor].user
          /\ \A u \in seen[w].stayed : u \notin Bots /\ (frame[w].humans > 0 \/ Ahead(w, u))
      BY <1>1, <2>1 DEF Complete, Counting
    <3>2. InList(w)'
      BY <1>4, <1>5, <3>1 DEF InList
    <3>3. ASSUME NEW u \in seen[w].stayed, ~(g.humans > 0)
          PROVE  Ahead(w, u)'
      <4>1. kind = "bot" /\ ~(frame[w].humans > 0)
        BY <1>2, <1>4, <3>3
      <4>2. PICK i \in frame[w].cursor .. frame[w].limit :
              Array(w)[i].user = u /\ Array(w)[i].channel = frame[w].channel
        BY <3>1, <4>1 DEF Ahead
      <4>3. i # frame[w].cursor
        BY <3>1, <4>1, <4>2
      <4>4. i \in g.cursor .. g.limit
        BY <1>2, <1>4, <4>2, <4>3
      <4> QED
        BY <1>4, <1>5, <1>7, <4>2, <4>4 DEF Ahead
    <3> QED
      BY <3>1, <3>2, <3>3
  <2> QED
    BY <1>5, <1>7, <2>1 DEF Complete
<1>11. Sound(w)'
  <2>1. /\ \A i \in 1 .. Len(Array(w)) :
             /\ Visible(w, i)
             /\ Array(w)[i].user \in User \ Bots /\ Array(w)[i].channel = frame[w].channel
             => Array(w)[i].user \in seen[w].present
        /\ frame[w].entry.user \in Bots \cup seen[w].present
        /\ frame[w].humans > 0 /\ ~failed => seen[w].present # {}
    BY <1>1 DEF Sound, Counting
  <2>2. \A i : Visible(w, i)' = Visible(w, i)
    BY <1>4, <1>5 DEF Visible
  <2>3. g.humans > 0 /\ ~failed' => seen[w].present # {}
    <3>1. CASE kind = "bot"
      BY <1>4, <2>1, <3>1
    <3>2. CASE kind # "bot"
      BY <2>1, <3>2
    <3> QED
      BY <3>1, <3>2
  <2> QED
    BY <1>4, <1>5, <1>7, <2>1, <2>2, <2>3 DEF Sound
<1> QED
  BY <1>6, <1>8, <1>9, <1>10, <1>11, OthersKept DEF CountInv

(* A watcher that stops, or that has not begun.                            *)
LEMMA AsideStep ==
  ASSUME CountInv, NEW w \in Watchers, NEW l \in {"begin", "done"}, Goto(w, l),
         UNCHANGED <<array, live, cache, moved, seen>>,
         active' \in Channel \cup {None}, failed' \in BOOLEAN, failed => failed',
         l = "begin" => pc[w] = "watch",
         \/ frame' = frame
         \/ frame' = [frame EXCEPT ![w].channel = active]
  PROVE  CountInv'
<1>1. TypeOK /\ Reads(w) /\ CacheTrue
  BY DEF CountInv
<1>2. /\ frame[w] \in Frame /\ active \in Channel \cup {None}
      /\ frame[w].limit \in Nat /\ Len(Array(w)) \in Nat
  BY <1>1, FrameFields DEF TypeOK
<1>3. [frame[w] EXCEPT !.channel = active] \in Frame
  BY <1>2 DEF Frame
<1>4. /\ frame'[w] \in Frame
      /\ \/ frame'[w] = frame[w]
         \/ frame'[w] = [frame[w] EXCEPT !.channel = active]
  BY <1>1, <1>2, <1>3 DEF TypeOK
<1>5. frame' \in [Watchers -> Frame]
  BY <1>1, <1>3 DEF TypeOK
<1>6. TypeOK'
  BY <1>1, <1>5, StepTypes DEF Label, TypeOK
<1>7. OnlyOf(w)
  BY <1>1 DEF OnlyOf, Goto, TypeOK
<1>8. pc'[w] = l /\ pc'[w] \notin Counting /\ pc'[w] # "leave"
  BY <1>1 DEF Goto, TypeOK, Counting
<1>9. /\ frame'[w].copy = frame[w].copy /\ frame'[w].limit = frame[w].limit
      /\ frame'[w].cursor = frame[w].cursor
      /\ [frame'[w] EXCEPT !.channel = None] = [frame[w] EXCEPT !.channel = None]
  BY <1>2, <1>4 DEF Frame
<1>10. Reads(w)'
  <2>1. Array(w)' = Array(w)
    BY <1>9 DEF Array
  <2> QED
    BY <1>1, <1>8, <1>9, <2>1 DEF Reads
<1>11. Complete(w)' /\ Sound(w)'
  BY <1>8 DEF Complete, Sound
<1> QED
  BY <1>1, <1>6, <1>7, <1>10, <1>11, OthersKept DEF CountInv, CacheTrue

LEMMA BeginStep ==
  ASSUME CountInv, NEW w \in Watchers, Begin(w)
  PROVE  CountInv'
<1>1. TypeOK /\ Reads(w) /\ CacheTrue /\ pc[w] = "begin"
  BY DEF CountInv, Begin
<1>2. /\ frame[w] \in Frame /\ live \in Nat /\ array \in Seq(Entry) /\ Len(array) \in Nat
      /\ live <= Len(array)
  BY <1>1, LenProperties DEF TypeOK
<1>3. frame[w].copy = << >> /\ frame[w].cursor = 1 /\ frame[w].humans = 0
  <2>1. [frame[w] EXCEPT !.channel = None] = NewFrame
    BY <1>1 DEF Reads
  <2>2. /\ [frame[w] EXCEPT !.channel = None].copy = frame[w].copy
        /\ [frame[w] EXCEPT !.channel = None].cursor = frame[w].cursor
        /\ [frame[w] EXCEPT !.channel = None].humans = frame[w].humans
    BY <1>2 DEF Frame
  <2> QED
    BY <2>1, <2>2 DEF NewFrame
<1>4. /\ frame' = [frame EXCEPT ![w].limit = live]
      /\ seen' = [seen EXCEPT ![w] = [ stayed |-> HumansIn(frame[w].channel),
                                       present |-> HumansIn(frame[w].channel), departed |-> FALSE ]]
      /\ Goto(w, "count") /\ UNCHANGED <<active, array, live, cache, moved, failed>>
  BY DEF Begin, discordgo
<1>5. /\ frame' \in [Watchers -> Frame] /\ frame'[w].limit = live /\ frame'[w].copy = << >>
      /\ frame'[w].cursor = 1 /\ frame'[w].humans = 0 /\ frame'[w].channel = frame[w].channel
  BY <1>1, <1>2, <1>3, <1>4 DEF TypeOK, Frame
<1>6. HumansIn(frame[w].channel) \subseteq User
  BY DEF HumansIn
<1>7. /\ seen' \in [Watchers -> Seen] /\ seen'[w].stayed = HumansIn(frame[w].channel)
      /\ seen'[w].present = HumansIn(frame[w].channel)
  BY <1>1, <1>4, <1>6 DEF TypeOK, Seen
<1>8. TypeOK'
  BY <1>1, <1>4, <1>5, <1>7, StepTypes DEF Label, Counting, TypeOK
<1>9. OnlyOf(w)
  BY <1>1, <1>4 DEF OnlyOf, Goto, TypeOK
<1>10. pc'[w] = "count" /\ Array(w)' = array
  BY <1>1, <1>4, <1>5 DEF Goto, TypeOK, Array
<1>11. Reads(w)'
  BY <1>2, <1>5, <1>10 DEF Reads
<1>12. Complete(w)'
  <2>1. \A u \in HumansIn(frame[w].channel) : u \notin Bots /\ Ahead(w, u)'
    BY <1>5, <1>10 DEF HumansIn, Ahead
  <2>2. InList(w)'
    BY <1>2, <1>4, <1>5 DEF InList
  <2> QED
    BY <1>7, <1>10, <2>1, <2>2 DEF Complete
<1>13. Sound(w)'
  <2>1. \A i \in 1 .. Len(array) : Visible(w, i)' => i \in 1 .. live
    BY <1>2, <1>4, <1>5 DEF Visible
  <2>2. \A i \in 1 .. live : 
          array[i].user \in User \ Bots /\ array[i].channel = frame[w].channel
            => array[i].user \in HumansIn(frame[w].channel)
    BY DEF HumansIn
  <2> QED
    BY <1>5, <1>7, <1>10, <2>1, <2>2 DEF Sound
<1> QED
  BY <1>1, <1>4, <1>8, <1>9, <1>11, <1>12, <1>13, OthersKept DEF CountInv, CacheTrue

LEMMA EntryStep ==
  ASSUME CountInv, NEW w \in Watchers, CountEntry(w)
  PROVE  CountInv'
<1> DEFINE e == Array(w)[frame[w].cursor]
<1>1. /\ TypeOK /\ Reads(w) /\ Complete(w) /\ Sound(w) /\ CacheTrue
      /\ pc[w] = "count" /\ frame[w].cursor <= frame[w].limit
      /\ UNCHANGED <<active, array, live, cache, moved, seen, failed>>
  BY DEF CountInv, CountEntry, discordgo
<1>2. /\ frame[w] \in Frame /\ frame[w].cursor \in Nat /\ frame[w].limit \in Nat
      /\ Array(w) \in Seq(Entry) /\ Len(Array(w)) \in Nat /\ frame[w].cursor + 1 \in Nat
  BY <1>1, FrameFields DEF TypeOK
<1>3. frame[w].cursor \in 1 .. Len(Array(w)) /\ frame[w].cursor \in 1 .. frame[w].limit
  BY <1>1, <1>2 DEF Reads
<1>4. e \in Entry
  BY <1>2, <1>3, ElementOfSeq
<1>5. CASE e.channel # frame[w].channel \/ e.user = Self
  <2>1. frame' = [frame EXCEPT ![w].cursor = frame[w].cursor + 1] /\ pc' = pc
    BY <1>1, <1>5 DEF CountEntry, TypeOK
  <2>2. [frame[w] EXCEPT !.cursor = frame[w].cursor + 1] \in Frame
    BY <1>2 DEF Frame
  <2>3. /\ frame' \in [Watchers -> Frame]
        /\ frame'[w].cursor = frame[w].cursor + 1 /\ SameButCursor(frame'[w], frame[w])
    BY <1>1, <1>2, <2>1, <2>2 DEF TypeOK, Frame, SameButCursor
  <2>4. TypeOK'
    BY <1>1, <2>1, <2>3 DEF TypeOK
  <2>5. OnlyOf(w)
    BY <1>1, <2>1 DEF OnlyOf, TypeOK
  <2>6. Array(w)' = Array(w)
    BY <1>1, <2>3 DEF Array, SameButCursor
  <2>7. Reads(w)'
    BY <1>1, <1>2, <2>1, <2>3, <2>6 DEF Reads, SameButCursor
  <2>8. Complete(w)'
    <3>1. ASSUME NEW u \in seen[w].stayed, Ahead(w, u)
          PROVE  Ahead(w, u)'
      <4>1. PICK i \in frame[w].cursor .. frame[w].limit :
              Array(w)[i].user = u /\ Array(w)[i].channel = frame[w].channel
        BY <3>1 DEF Ahead
      <4>2. u # Self
        BY <1>1, SeenFields, CountAssumption
      <4>3. i \in frame[w].cursor + 1 .. frame[w].limit
        BY <1>2, <1>5, <4>1, <4>2
      <4> QED
        BY <2>3, <2>6, <4>1, <4>3 DEF Ahead, SameButCursor
    <3> QED
      BY <1>1, <2>1, <2>3, <3>1 DEF Complete, InList, SameButCursor
  <2>9. Sound(w)'
    <3>1. \A i : Visible(w, i)' = Visible(w, i)
      BY <1>1, <2>3 DEF Visible, SameButCursor
    <3> QED
      BY <1>1, <2>1, <2>3, <2>6, <3>1 DEF Sound, SameButCursor
  <2> QED
    BY <1>1, <2>4, <2>5, <2>7, <2>8, <2>9, OthersKept DEF CountInv, CacheTrue
<1>6. CASE ~(e.channel # frame[w].channel \/ e.user = Self)
  <2>1. frame' = [frame EXCEPT ![w].entry = e] /\ Goto(w, "classify")
    BY <1>1, <1>6 DEF CountEntry
  <2>2. e \in EntryOf(User) /\ e.channel = frame[w].channel
    BY <1>4, <1>6 DEF Entry, EntryOf
  <2> HIDE DEF e
  <2>3. [frame[w] EXCEPT !.entry = e] \in Frame
    BY <1>2, <2>2 DEF Frame
  <2>4. /\ frame' \in [Watchers -> Frame] /\ frame'[w].entry = e
        /\ SameButEntry(frame'[w], frame[w])
    BY <1>1, <1>2, <2>1, <2>3 DEF TypeOK, Frame, SameButEntry
  <2>5. TypeOK'
    BY <1>1, <2>1, <2>4, StepTypes DEF TypeOK, Label, Counting
  <2>6. OnlyOf(w)
    BY <1>1, <2>1 DEF OnlyOf, Goto, TypeOK
  <2>7. pc'[w] = "classify" /\ Array(w)' = Array(w)
    BY <1>1, <2>1, <2>4 DEF Array, Goto, TypeOK, SameButEntry
  <2>8. Reads(w)'
    BY <1>1, <2>2, <2>4, <2>7 DEF Reads, SameButEntry
  <2>9. Complete(w)'
    <3>1. \A u : Ahead(w, u) => Ahead(w, u)'
      BY <2>4, <2>7 DEF Ahead, SameButEntry
    <3>2. e.user = Array(w)[frame[w].cursor].user
      BY DEF e
    <3> QED
      BY <1>1, <2>4, <2>7, <3>1, <3>2 DEF Complete, InList, SameButEntry, Counting
  <2>10. Sound(w)'
    <3>1. \A i : Visible(w, i)' = Visible(w, i)
      BY <1>1, <2>4 DEF Visible, SameButEntry
    <3>2. e.user \in Bots \cup seen[w].present
      <4>1. Visible(w, frame[w].cursor) /\ e.user \in User
        BY <1>1, <2>2 DEF Visible, EntryOf
      <4> QED
        BY <1>1, <1>3, <2>2, <4>1 DEF Sound, Counting, e
    <3> QED
      BY <1>1, <2>4, <2>7, <3>1, <3>2 DEF Sound, SameButEntry, Counting
  <2> QED
    BY <1>1, <2>5, <2>6, <2>8, <2>9, <2>10, OthersKept DEF CountInv, CacheTrue
<1> QED
  BY <1>5, <1>6

LEMMA EndStep ==
  ASSUME CountInv, NEW w \in Watchers, EndCount(w), frame[w].humans = 0
  PROVE  CountInv'
<1>1. /\ TypeOK /\ Reads(w) /\ Complete(w) /\ CacheTrue /\ pc[w] = "count"
      /\ frame[w].cursor > frame[w].limit /\ Goto(w, "leave")
      /\ UNCHANGED <<active, array, live, cache, moved, frame, seen, failed>>
  BY DEF CountInv, EndCount, discordgo
<1>2. TypeOK'
  BY <1>1, StepTypes DEF Label, TypeOK
<1>3. OnlyOf(w) /\ pc'[w] = "leave" /\ Array(w)' = Array(w)
  BY <1>1 DEF OnlyOf, Goto, TypeOK, Array
<1>4. Reads(w)'
  BY <1>1, <1>3 DEF Reads
<1>5. Complete(w)'
  <2>1. frame[w].cursor \in Nat /\ frame[w].limit \in Nat
    BY <1>1, FrameFields
  <2>2. \A u : ~Ahead(w, u)
    BY <1>1, <2>1 DEF Ahead
  <2>3. ~seen[w].departed => seen[w].stayed = {}
    BY <1>1, <2>2 DEF Complete, Counting
  <2> QED
    BY <1>1, <1>3, <2>3 DEF Complete, Counting
<1>6. Sound(w)'
  BY <1>3 DEF Sound, Counting
<1> QED
  BY <1>1, <1>2, <1>3, <1>4, <1>5, <1>6, OthersKept DEF CountInv, CacheTrue

LEMMA ClassifyStep ==
  ASSUME CountInv, NEW w \in Watchers, Classify(w) \/ Lookup(w) \/ LookupFails(w)
  PROVE  CountInv'
<1> DEFINE u == frame[w].entry.user
<1>1. /\ TypeOK /\ CacheTrue /\ Reads(w) /\ Complete(w) /\ Sound(w)
      /\ pc[w] \in {"classify", "lookup"} /\ pc \in [Watchers -> Label]
      /\ UNCHANGED <<active, array, live, moved, seen>>
  BY DEF CountInv, Classify, Lookup, LookupFails, discordgo, TypeOK, Label
<1>2. u \in User /\ cache[u] \in {Unknown, Kind(u)} /\ Unknown # "bot" /\ failed \in BOOLEAN
  BY <1>1 DEF Reads, EntryOf, CacheTrue, Unknown, TypeOK
<1>3. ASSUME cache' = [cache EXCEPT ![u] = Kind(u)]
      PROVE  cache' \in [User -> {Unknown, "bot", "human"}] /\ CacheTrue'
  BY <1>1, <1>2, <1>3 DEF TypeOK, CacheTrue, Kind
<1>4. ASSUME cache' = cache
      PROVE  cache' \in [User -> {Unknown, "bot", "human"}] /\ CacheTrue'
  BY <1>1, <1>4 DEF TypeOK, CacheTrue
<1>5. Kind(u) = "bot" <=> u \in Bots
  BY DEF Kind
<1> HIDE DEF u
<1>6. ASSUME Counted(w, Kind(u)), cache' = [cache EXCEPT ![u] = Kind(u)], failed' = failed
      PROVE  CountInv'
  BY <1>1, <1>2, <1>3, <1>5, <1>6, CountedStep DEF u
<1>7. ASSUME Counted(w, cache[u]), cache[u] # Unknown, cache' = cache, failed' = failed
      PROVE  CountInv'
  BY <1>1, <1>2, <1>4, <1>5, <1>7, CountedStep DEF u
<1>8. ASSUME Counted(w, Unknown), cache' = cache, failed' = TRUE
      PROVE  CountInv'
  BY <1>1, <1>2, <1>4, <1>8, CountedStep DEF u
<1>9. ASSUME pc[w] = "classify", Goto(w, "lookup"), UNCHANGED <<cache, frame, failed>>
      PROVE  CountInv'
  <2>1. TypeOK'
    BY <1>1, <1>9, StepTypes DEF Label, Counting, TypeOK
  <2>2. OnlyOf(w) /\ pc'[w] = "lookup" /\ Array(w)' = Array(w)
    BY <1>1, <1>9 DEF OnlyOf, Goto, Array
  <2>3. Reads(w)'
    BY <1>1, <1>9, <2>2 DEF Reads
  <2>4. Complete(w)'
    BY <1>1, <1>9, <2>2 DEF Complete, InList, Ahead, Counting
  <2>5. Sound(w)'
    BY <1>1, <1>9, <2>2 DEF Sound, Visible, Counting
  <2> QED
    BY <1>4, <1>9, <2>1, <2>2, <2>3, <2>4, <2>5, OthersKept DEF CountInv
<1>10. CASE Classify(w)
  BY <1>6, <1>7, <1>9, <1>10 DEF Classify, u
<1>11. CASE Lookup(w)
  BY <1>6, <1>11 DEF Lookup, u
<1>12. CASE LookupFails(w)
  BY <1>8, <1>12 DEF LookupFails
<1> QED
  BY <1>10, <1>11, <1>12

LEMMA WatcherStep ==
  ASSUME CountInv, NEW w \in Watchers, Watcher(w)
  PROVE  CountInv'
<1>1. active \in Channel \cup {None} /\ failed \in BOOLEAN /\ frame[w].humans \in Nat
  BY FrameFields DEF CountInv, TypeOK
<1>2. CASE Watch(w)
  <2>1. PICK l \in {"begin", "done"} : Goto(w, l)
    BY <1>2 DEF Watch
  <2> QED
    BY <1>1, <1>2, <2>1, AsideStep DEF Watch, discordgo
<1>3. CASE NoGuild(w)
  BY <1>1, <1>3, AsideStep DEF NoGuild, discordgo
<1>4. CASE AutoLeave(w)
  BY <1>1, <1>4, AsideStep DEF AutoLeave, discordgo
<1>5. CASE EndCount(w)
  <2>1. CASE frame[w].humans > 0
    BY <1>1, <1>5, <2>1, AsideStep DEF EndCount, discordgo
  <2>2. CASE ~(frame[w].humans > 0)
    BY <1>1, <1>5, <2>2, EndStep
  <2> QED
    BY <2>1, <2>2
<1> QED
  BY <1>2, <1>3, <1>4, <1>5, BeginStep, EntryStep, ClassifyStep DEF Watcher

LEMMA MoveStep ==
  ASSUME CountInv, NEW u \in Anybody, NEW ch \in Channel \cup {None}, NEW member \in BOOLEAN,
         ListChanges(u, ch, member), UNCHANGED <<cache, failed>>,
         active' \in Channel \cup {None},
         \/ UNCHANGED <<pc, moved>>
         \/ \E w \in Watchers :
              /\ pc[w] = "new" /\ Goto(w, "watch")
              /\ moved' = [moved EXCEPT ![w] = [before |-> ChannelOf(u), after |-> ch]]
  PROVE  CountInv'
<1>1. TypeOK /\ CacheTrue
  BY DEF CountInv
<1>2. /\ pc' \in [Watchers -> Label]
      /\ \A w \in Watchers : pc'[w] = pc[w] \/ (pc[w] = "new" /\ pc'[w] = "watch")
  BY <1>1 DEF TypeOK, Goto, Label
<1>3. ChannelOf(u) \in Channel \cup {None}
  <2>1. \A i \in 1 .. live : array[i] \in Entry
    BY <1>1, ElementOfSeq, LenProperties DEF TypeOK
  <2>2. CASE \E i \in 1 .. live : array[i].user = u
    <3>1. \E e \in {array[i] : i \in 1 .. live} : e.user = u
      BY <2>2
    <3>2. PICK i \in 1 .. live :
            (CHOOSE e \in {array[j] : j \in 1 .. live} : e.user = u) = array[i]
      BY <3>1
    <3> QED
      BY <2>1, <2>2, <3>2 DEF ChannelOf, Entry, EntryOf
  <2>3. CASE ~\E i \in 1 .. live : array[i].user = u
    BY <2>3 DEF ChannelOf
  <2> QED
    BY <2>2, <2>3
<1>4. moved' \in [Watchers -> [before : Channel \cup {None}, after : Channel \cup {None}]]
  BY <1>1, <1>3 DEF TypeOK
<1>5. TypeOK'
  BY <1>1, <1>2, <1>4, ListStepType DEF TypeOK, ListType, Label
<1> QED
  BY <1>1, <1>2, <1>5, ListStep DEF CountInv, CacheTrue

LEMMA CountStep ==
  ASSUME CountInv, Next
  PROVE  CountInv'
<1>1. CASE \E w \in Watchers : Watcher(w)
  BY <1>1, WatcherStep
<1>2. CASE \E w \in Watchers, u \in User, ch \in Channel \cup {None}, member \in BOOLEAN :
             MemberMoves(w, u, ch, member)
  <2>1. PICK w \in Watchers, u \in User, ch \in Channel \cup {None}, member \in BOOLEAN :
          MemberMoves(w, u, ch, member)
    BY <1>2
  <2>2. /\ pc[w] = "new" /\ Goto(w, "watch")
        /\ moved' = [moved EXCEPT ![w] = [before |-> ChannelOf(u), after |-> ch]]
        /\ ListChanges(u, ch, member) /\ UNCHANGED <<active, cache, failed>>
    BY <2>1 DEF MemberMoves
  <2>3. active' \in Channel \cup {None} /\ u \in Anybody
    BY <2>2 DEF CountInv, TypeOK, Anybody
  <2> QED
    BY <2>2, <2>3, MoveStep
<1>3. CASE \E ch \in Channel : BotJoins(ch)
  BY <1>3, MoveStep DEF BotJoins, Anybody
<1>4. CASE BotGoes
  BY <1>4, MoveStep DEF BotGoes, Anybody, CountInv, TypeOK
<1>5. CASE LeaveCommand
  <2>1. TypeOK'
    BY <1>5 DEF LeaveCommand, CountInv, TypeOK, discordgo
  <2>2. ASSUME NEW w \in Watchers
        PROVE  Reads(w)' /\ Complete(w)' /\ Sound(w)'
    <3>1. /\ Array(w)' = Array(w)
          /\ UNCHANGED <<pc, frame, seen, array, live, failed>>
          /\ Reads(w) /\ Complete(w) /\ Sound(w)
      BY <1>5 DEF LeaveCommand, Array, CountInv, discordgo
    <3>2. Reads(w)'
      BY <3>1 DEF Reads
    <3>3. Complete(w)'
      BY <3>1 DEF Complete, Ahead, InList
    <3>4. Sound(w)'
      BY <3>1 DEF Sound, Visible
    <3> QED
      BY <3>2, <3>3, <3>4
  <2> QED
    BY <1>5, <2>1, <2>2 DEF LeaveCommand, CountInv, CacheTrue
<1> QED
  BY <1>1, <1>2, <1>3, <1>4, <1>5 DEF Next

LEMMA CountInvariant == Spec => []CountInv
<1>1. Init => CountInv
  <2> SUFFICES ASSUME Init PROVE CountInv
    OBVIOUS
  <2>1. PICK n \in Nat : array \in [1 .. n -> [user : User, channel : Channel, member : {FALSE}]]
    <3>1. Cardinality(User) \in Nat
      BY FS_CardinalityType, CountAssumption
    <3>2. PICK n \in 0 .. Cardinality(User) :
            array \in [1 .. n -> [user : User, channel : Channel, member : {FALSE}]]
      BY DEF Init
    <3>3. n \in Nat
      BY <3>1
    <3> QED
      BY <3>2, <3>3, Zenon
  <2>2. [user : User, channel : Channel, member : {FALSE}] \subseteq Entry
    BY DEF Entry, EntryOf
  <2>3. array \in [1 .. n -> Entry]
    BY <2>1, <2>2
  <2>4. array \in Seq(Entry) /\ Len(array) \in Nat
    BY <2>3, SeqDef, LenProperties
  <2>5. NewFrame \in Frame /\ NothingSeen \in Seen
    BY DEF NewFrame, Frame, NothingSeen, Seen
  <2>6. TypeOK
    <3>1. live \in 0 .. Len(array)
      BY <2>4 DEF Init
    <3>2. cache \in [User -> {Unknown, "bot", "human"}] /\ pc \in [Watchers -> Label]
      <4>1. cache = [u \in User |-> Unknown] /\ pc = [w \in Watchers |-> "new"]
        BY DEF Init
      <4> QED
        BY <4>1 DEF Label
    <3>3. frame \in [Watchers -> Frame] /\ seen \in [Watchers -> Seen]
      BY <2>5 DEF Init
    <3>4. NoMove \in [before : Channel \cup {None}, after : Channel \cup {None}]
      BY DEF NoMove
    <3>5. moved \in [Watchers -> [before : Channel \cup {None}, after : Channel \cup {None}]]
      BY <3>4 DEF Init
    <3> QED
      BY <2>4, <3>1, <3>2, <3>3, <3>5 DEF Init, TypeOK, Label
  <2>7. CacheTrue
    BY DEF Init, CacheTrue
  <2>8. ASSUME NEW w \in Watchers
        PROVE  Reads(w) /\ Complete(w) /\ Sound(w)
    <3>1. /\ frame[w] = NewFrame /\ pc[w] = "new" /\ Array(w) = array
          /\ [frame[w] EXCEPT !.channel = None] = NewFrame
      BY DEF Init, NewFrame, Array
    <3> QED
      BY <2>4, <3>1 DEF Reads, Complete, Sound, NewFrame, Counting
  <2> QED
    BY <2>6, <2>7, <2>8 DEF CountInv
<1>2. CountInv /\ [Next]_vars => CountInv'
  <2>1. CASE UNCHANGED vars
    <3>1. UNCHANGED <<active, array, live, cache, pc, moved, frame, seen, failed>>
      BY <2>1 DEF vars, discordgo
    <3> QED
      BY <3>1 DEF CountInv, TypeOK, CacheTrue, Reads, Complete, Sound, Array, InList, Ahead, Visible
  <2> QED
    BY <2>1, CountStep
<1> QED
  BY <1>1, <1>2, PTL DEF Spec

------------------------------------------------------------------------------
(* Nobody is in two channels, and whoever is the last human to go is seen  *)
(* to go: somebody is on the way to leave as long as nothing failed.       *)
OneEntryEach == \A i, j \in 1 .. live : array[i].user = array[j].user => i = j

In(u, ch) == \E i \in 1 .. live : array[i].user = u /\ array[i].channel = ch

Leaver(w) ==
  \/ pc[w] = "watch" /\ Touches(moved[w], active)
  \/ pc[w] = "begin" /\ frame[w].channel = active
  \/ pc[w] \in Counting /\ frame[w].channel = active /\ seen[w].present = {}
  \/ pc[w] = "leave"

Noticed ==
  ~failed /\ active # None /\ HumansIn(active) = {} => \E w \in Watchers : Leaver(w)

CompanyInv == CountInv /\ OneEntryEach /\ Noticed

LEMMA ChannelIs ==
  ASSUME OneEntryEach, NEW i \in 1 .. live
  PROVE  ChannelOf(array[i].user) = array[i].channel
<1> DEFINE u == array[i].user
<1>1. array[i] \in {array[j] : j \in 1 .. live} /\ array[i].user = u
  OBVIOUS
<1>2. PICK j \in 1 .. live :
        /\ (CHOOSE e \in {array[k] : k \in 1 .. live} : e.user = u) = array[j]
        /\ array[j].user = u
  BY <1>1
<1>3. j = i
  BY <1>2 DEF OneEntryEach
<1> QED
  BY <1>2, <1>3 DEF ChannelOf

(* A change of the list concerns one member.                               *)
LEMMA ListOf ==
  ASSUME TypeOK, OneEntryEach, NEW u \in Anybody, NEW ch \in Channel \cup {None},
         NEW member \in BOOLEAN, ListChanges(u, ch, member)
  PROVE  /\ OneEntryEach'
         /\ \A x, c : x # u => (In(x, c)' <=> In(x, c))
         /\ ch # None => In(u, ch)'
<1>1. /\ ListType /\ live \in Nat /\ Len(array) \in Nat /\ live <= Len(array)
      /\ \A i \in 1 .. live : array[i].channel # None
  <2>1. ListType /\ live \in Nat /\ Len(array) \in Nat /\ live <= Len(array)
    BY LenProperties DEF TypeOK, ListType
  <2>2. \A i \in 1 .. live : array[i] \in Entry
    BY <2>1, ElementOfSeq DEF ListType
  <2> QED
    BY <2>1, <2>2, ChannelAssumption DEF Entry, EntryOf
<1> SUFFICES /\ OneEntryEach'
             /\ \A x, c : x # u => (In(x, c)' <=> In(x, c))
             /\ ch # None => In(u, ch)'
  OBVIOUS
<1>2. CASE Replace(u, ch, member)
  <2>1. /\ live' = live
        /\ \A i \in 1 .. live :
             \/ array'[i] = array[i]
             \/ array[i].user = u /\ array'[i].user = u /\ array'[i].channel = ch
        /\ \E i \in 1 .. live : array'[i].user = u /\ array'[i].channel = ch
    <3>1. /\ live' = live
          /\ \A i \in 1 .. Len(array) :
               \/ array'[i] = array[i]
               \/ array[i].user = u /\ array'[i].user = u /\ array'[i].channel = ch
          /\ \E i \in 1 .. live : array'[i].user = u /\ array'[i].channel = ch
      BY <1>1, <1>2, ReplaceArray
    <3>2. \A i \in 1 .. live : i \in 1 .. Len(array)
      BY <1>1
    <3> QED
      BY <3>1, <3>2
  <2>2. \A i \in 1 .. live :
          /\ array'[i].user = array[i].user
          /\ array[i].user # u => array'[i] = array[i]
    BY <2>1
  <2>3. OneEntryEach'
    BY <2>1, <2>2 DEF OneEntryEach
  <2>4. ASSUME NEW x, NEW c, x # u
        PROVE  In(x, c)' <=> In(x, c)
    <3>1. In(x, c)' => In(x, c)
      BY <2>1, <2>2, <2>4 DEF In
    <3>2. In(x, c) => In(x, c)'
      BY <2>1, <2>2, <2>4 DEF In
    <3> QED
      BY <3>1, <3>2
  <2>5. In(u, ch)'
    BY <2>1 DEF In
  <2> QED
    BY <2>3, <2>4, <2>5
<1>3. CASE AppendInPlace(u, ch, member) \/ AppendElsewhere(u, ch, member)
  <2>1. /\ live' = live + 1
        /\ \A i \in 1 .. live : array'[i] = array[i]
        /\ array'[live + 1].user = u /\ array'[live + 1].channel = ch
    <3>1. /\ live' = live + 1
          /\ \A i \in 1 .. Len(array) : i # live + 1 => array'[i] = array[i]
          /\ array'[live + 1].user = u /\ array'[live + 1].channel = ch
      BY <1>1, <1>3, AppendArray
    <3>2. \A i \in 1 .. live : i \in 1 .. Len(array) /\ i # live + 1
      BY <1>1
    <3> QED
      BY <3>1, <3>2
  <2>2. \A i \in 1 .. live : array[i].user # u
    <3>1. ChannelOf(u) = None
      BY <1>3 DEF AppendInPlace, AppendElsewhere
    <3> QED
      BY <1>1, <3>1, ChannelIs
  <2>3. \A i : i \in 1 .. live' <=> i \in 1 .. live \/ i = live + 1
    BY <1>1, <2>1
  <2> QED
    BY <2>1, <2>2, <2>3 DEF OneEntryEach, In
<1>4. CASE Remove(u) /\ ch = None
  <2>1. PICK i \in 1 .. live :
          /\ array[i].user = u /\ live' = live - 1
          /\ \A j \in 1 .. Len(array) :
               array'[j] = IF j \in i .. live - 1 THEN array[j + 1] ELSE array[j]
    BY <1>1, <1>4, RemoveArray
  <2> DEFINE from(j) == IF j < i THEN j ELSE j + 1
  <2>2. \A j \in 1 .. live' : /\ from(j) \in 1 .. live /\ from(j) # i
                              /\ array'[j] = array[from(j)]
    BY <1>1, <2>1
  <2>3. \A j, k \in 1 .. live' : from(j) = from(k) => j = k
    BY <1>1, <2>1
  <2>4. ASSUME NEW k \in 1 .. live, k # i
        PROVE  \E j \in 1 .. live' : from(j) = k
    <3>1. CASE k < i
      BY <1>1, <2>1, <3>1
    <3>2. CASE ~(k < i)
      <4>1. k - 1 \in 1 .. live' /\ from(k - 1) = k
        BY <1>1, <2>1, <2>4, <3>2
      <4> QED
        BY <4>1
    <3> QED
      BY <3>1, <3>2
  <2> HIDE DEF from
  <2>5. OneEntryEach'
    BY <2>2, <2>3 DEF OneEntryEach
  <2>6. ASSUME NEW x, NEW c, x # u
        PROVE  In(x, c)' <=> In(x, c)
    <3>1. ASSUME In(x, c)' PROVE In(x, c)
      <4>1. PICK j \in 1 .. live' : array'[j].user = x /\ array'[j].channel = c
        BY <3>1 DEF In
      <4> QED
        BY <2>2, <4>1 DEF In
    <3>2. ASSUME In(x, c) PROVE In(x, c)'
      <4>1. PICK k \in 1 .. live : array[k].user = x /\ array[k].channel = c
        BY <3>2 DEF In
      <4>2. PICK j \in 1 .. live' : from(j) = k
        BY <2>1, <2>4, <2>6, <4>1
      <4> QED
        BY <2>2, <4>1, <4>2 DEF In
    <3> QED
      BY <3>1, <3>2
  <2> QED
    BY <1>4, <2>5, <2>6
<1> QED
  BY <1>2, <1>3, <1>4 DEF ListChanges

(* Whoever is on the way to leave stays on it, unless a human comes.       *)
LEMMA LeaverKept ==
  ASSUME CompanyInv, NEW u \in Anybody, NEW ch \in Channel \cup {None}, NEW member \in BOOLEAN,
         ListChanges(u, ch, member), active' = active, active # None, HumansIn(active)' = {},
         NEW w \in Watchers, Leaver(w), pc'[w] = pc[w], moved'[w] = moved[w]
  PROVE  Leaver(w)'
<1>1. TypeOK /\ Reads(w) /\ OneEntryEach
  BY DEF CompanyInv, CountInv
<1>2. frame'[w].channel = frame[w].channel
  BY <1>1, ListChange DEF SameButCopy
<1>3. CASE pc[w] \in Counting /\ frame[w].channel = active /\ seen[w].present = {}
  <2>1. ~(ch = active /\ u \in User \ Bots)
    <3> SUFFICES ASSUME ch = active, u \in User \ Bots PROVE FALSE
      OBVIOUS
    <3>1. In(u, active)'
      BY <1>1, ListOf
    <3>2. u \in HumansIn(active)'
      BY <3>1 DEF HumansIn, In
    <3> QED
      BY <3>2
  <2>2. seen'[w].present =
          IF ch = frame[w].channel THEN seen[w].present \cup ({u} \ (Bots \cup {Self}))
          ELSE seen[w].present
    BY <1>3 DEF ListChanges
  <2>3. ch = active => {u} \ (Bots \cup {Self}) = {}
    BY <2>1 DEF Anybody
  <2> QED
    BY <1>2, <1>3, <2>2, <2>3 DEF Leaver
<1> QED
  BY <1>2, <1>3 DEF Leaver

LEMMA SelfStep ==
  ASSUME CompanyInv, NEW ch \in Channel \cup {None}, ListChanges(Self, ch, TRUE),
         UNCHANGED <<pc, moved, failed>>,
         active' = active \/ (active' = ch /\ HumansIn(ch) # {})
  PROVE  OneEntryEach' /\ Noticed'
<1>1. TypeOK /\ OneEntryEach /\ Noticed /\ Self \in Anybody
  BY DEF CompanyInv, CountInv, Anybody
<1>2. OneEntryEach' /\ \A x, c : x # Self => (In(x, c)' <=> In(x, c))
  BY <1>1, ListOf
<1>3. \A c : HumansIn(c)' = HumansIn(c)
  BY <1>2, CountAssumption DEF HumansIn, In
<1>4. ASSUME ~failed', active' # None, HumansIn(active)' = {}
      PROVE  \E w \in Watchers : Leaver(w)'
  <2>1. active' = active /\ HumansIn(active) = {}
    BY <1>3, <1>4
  <2>2. PICK w \in Watchers : Leaver(w)
    BY <1>1, <1>4, <2>1 DEF Noticed
  <2>3. Leaver(w)'
    BY <1>1, <1>4, <2>1, <2>2, LeaverKept
  <2> QED
    BY <2>3
<1> QED
  BY <1>2, <1>4 DEF Noticed

LEMMA WatcherFrame ==
  ASSUME NEW w \in Watchers, Watcher(w)
  PROVE  /\ UNCHANGED <<array, live, moved>> /\ (failed => failed')
         /\ active' = active \/ active' = None
         /\ \A q \in Watchers \ {w} :
              TypeOK => pc'[q] = pc[q] /\ frame'[q] = frame[q] /\ seen'[q] = seen[q]
BY DEF Watcher, Watch, Begin, NoGuild, CountEntry, EndCount, Classify, Lookup, LookupFails,
       AutoLeave, Counted, Goto, discordgo, TypeOK

(* The one who is on the way goes on, or something fails.                  *)
LEMMA LeaverStep ==
  ASSUME CountInv, NEW w \in Watchers, Watcher(w), Leaver(w),
         ~failed', active' # None, HumansIn(active) = {}
  PROVE  Leaver(w)'
<1>1. /\ TypeOK /\ Sound(w) /\ active' = active /\ ~failed /\ moved' = moved
      /\ frame[w] \in Frame /\ frame[w].humans \in Nat
  BY WatcherFrame, FrameFields DEF CountInv, TypeOK
<1> SUFFICES Leaver(w)'
  OBVIOUS
<1>2. CASE Watch(w)
  <2>1. pc[w] = "watch" /\ Touches(moved[w], active)
    BY <1>2 DEF Leaver, Watch, Counting
  <2>2. /\ pc' = [pc EXCEPT ![w] = "begin"]
        /\ frame' = [frame EXCEPT ![w].channel = active]
    BY <1>2, <2>1 DEF Watch, Goto
  <2>3. pc'[w] = "begin" /\ frame'[w].channel = active
    BY <1>1, <2>2 DEF TypeOK, Frame
  <2> QED
    BY <1>1, <2>3 DEF Leaver
<1>3. CASE Begin(w)
  <2>1. frame[w].channel = active
    BY <1>3 DEF Leaver, Begin, Counting
  <2>2. pc'[w] = "count" /\ frame'[w].channel = active /\ seen'[w].present = {}
    BY <1>1, <1>3, <2>1 DEF Begin, Goto, TypeOK, Frame
  <2> QED
    BY <1>1, <2>2 DEF Leaver, Counting
<1>4. CASE NoGuild(w) \/ LookupFails(w) \/ AutoLeave(w)
  BY <1>4 DEF NoGuild, LookupFails, AutoLeave
<1>5. CASE EndCount(w)
  <2>1. frame[w].channel = active /\ seen[w].present = {} /\ pc[w] \in Counting
    BY <1>5 DEF Leaver, EndCount, Counting
  <2>2. ~(frame[w].humans > 0)
    BY <1>1, <2>1 DEF Sound
  <2>3. pc'[w] = "leave"
    BY <1>1, <1>5, <2>2 DEF EndCount, Goto, TypeOK
  <2> QED
    BY <2>3 DEF Leaver
<1>6. ASSUME pc[w] \in Counting, pc'[w] \in Counting, frame'[w].channel = frame[w].channel,
             seen' = seen
      PROVE  Leaver(w)'
  BY <1>1, <1>6 DEF Leaver, Counting
<1>7. CASE CountEntry(w)
  BY <1>1, <1>6, <1>7 DEF CountEntry, Goto, TypeOK, Frame, Counting
<1>8. ASSUME NEW kind, Counted(w, kind)
      PROVE  pc'[w] = "count" /\ frame'[w].channel = frame[w].channel
  BY <1>1, <1>8 DEF Counted, Goto, TypeOK, Frame
<1>9. CASE Classify(w)
  <2>1. pc'[w] \in Counting /\ frame'[w].channel = frame[w].channel
    <3>1. CASE \E kind : Counted(w, kind)
      BY <1>8, <3>1 DEF Counting
    <3>2. CASE Goto(w, "lookup") /\ frame' = frame
      BY <1>1, <3>2 DEF Goto, TypeOK, Counting
    <3> QED
      BY <1>9, <3>1, <3>2 DEF Classify
  <2> QED
    BY <1>6, <1>9, <2>1 DEF Classify, Counting
<1>10. CASE Lookup(w)
  BY <1>6, <1>8, <1>10 DEF Lookup, Counting
<1> QED
  BY <1>2, <1>3, <1>4, <1>5, <1>7, <1>9, <1>10 DEF Watcher

LEMMA WatcherCompany ==
  ASSUME CompanyInv, NEW w \in Watchers, Watcher(w)
  PROVE  OneEntryEach' /\ Noticed'
<1>1. CountInv /\ TypeOK /\ OneEntryEach /\ Noticed
  BY DEF CompanyInv, CountInv
<1>2. /\ UNCHANGED <<array, live, moved>> /\ (failed => failed')
      /\ active' = active \/ active' = None
      /\ \A q \in Watchers \ {w} : pc'[q] = pc[q] /\ frame'[q] = frame[q] /\ seen'[q] = seen[q]
  BY <1>1, WatcherFrame
<1>3. OneEntryEach' /\ \A c : HumansIn(c)' = HumansIn(c)
  BY <1>1, <1>2 DEF OneEntryEach, HumansIn
<1>4. ASSUME ~failed', active' # None, HumansIn(active)' = {}
      PROVE  \E q \in Watchers : Leaver(q)'
  <2>1. active' = active /\ ~failed /\ HumansIn(active) = {}
    BY <1>2, <1>3, <1>4
  <2>2. PICK q \in Watchers : Leaver(q)
    BY <1>1, <1>4, <2>1 DEF Noticed
  <2>3. CASE q = w
    BY <1>1, <1>4, <2>1, <2>2, <2>3, LeaverStep
  <2>4. CASE q # w
    BY <1>2, <2>1, <2>2, <2>4 DEF Leaver
  <2> QED
    BY <2>3, <2>4
<1> QED
  BY <1>3, <1>4 DEF Noticed

(* The last human to go: the handler of that very event finds out.         *)
LEMMA MoveCompany ==
  ASSUME CompanyInv, NEW w \in Watchers, NEW u \in User, NEW ch \in Channel \cup {None},
         NEW member \in BOOLEAN, MemberMoves(w, u, ch, member)
  PROVE  OneEntryEach' /\ Noticed'
<1>1. TypeOK /\ OneEntryEach /\ Noticed /\ u \in Anybody
  BY DEF CompanyInv, CountInv, Anybody
<1>2. /\ pc[w] = "new" /\ Goto(w, "watch") /\ ListChanges(u, ch, member)
      /\ moved' = [moved EXCEPT ![w] = [before |-> ChannelOf(u), after |-> ch]]
      /\ UNCHANGED <<active, failed>>
  BY DEF MemberMoves
<1>3. OneEntryEach' /\ \A x, c : x # u => (In(x, c)' <=> In(x, c))
  BY <1>1, <1>2, ListOf
<1>4. /\ pc'[w] = "watch" /\ moved'[w] = [before |-> ChannelOf(u), after |-> ch]
      /\ \A q \in Watchers \ {w} : pc'[q] = pc[q] /\ moved'[q] = moved[q]
  BY <1>1, <1>2 DEF Goto, TypeOK
<1>5. ASSUME ~failed', active' # None, HumansIn(active)' = {}
      PROVE  \E q \in Watchers : Leaver(q)'
  <2>1. CASE HumansIn(active) = {}
    <3>1. PICK q \in Watchers : Leaver(q)
      BY <1>1, <1>2, <1>5, <2>1 DEF Noticed
    <3>2. q # w
      BY <1>2, <3>1 DEF Leaver, Counting
    <3>3. Leaver(q)'
      BY <1>1, <1>2, <1>4, <1>5, <3>1, <3>2, LeaverKept
    <3> QED
      BY <3>3
  <2>2. CASE HumansIn(active) # {}
    <3>1. PICK c : c = active /\ c = active'
      BY <1>2
    <3>2. PICK x \in User \ Bots : In(x, c)
      BY <2>2, <3>1 DEF HumansIn, In
    <3>3. ~In(x, c)'
      BY <1>5, <3>1, <3>2 DEF HumansIn, In
    <3>4. PICK i \in 1 .. live : array[i].user = u /\ array[i].channel = active
      BY <1>3, <3>1, <3>2, <3>3 DEF In
    <3>5. ChannelOf(u) = active
      BY <1>1, <3>4, ChannelIs
    <3> QED
      BY <1>2, <1>4, <1>5, <3>5 DEF Leaver, Touches
  <2> QED
    BY <2>1, <2>2
<1> QED
  BY <1>3, <1>5 DEF Noticed

LEMMA CompanyStep ==
  ASSUME CompanyInv, Next
  PROVE  OneEntryEach' /\ Noticed'
<1> SUFFICES OneEntryEach' /\ Noticed'
  OBVIOUS
<1>1. CASE \E w \in Watchers : Watcher(w)
  BY <1>1, WatcherCompany
<1>2. CASE \E w \in Watchers, u \in User, ch \in Channel \cup {None}, member \in BOOLEAN :
             MemberMoves(w, u, ch, member)
  BY <1>2, MoveCompany
<1>3. CASE \E ch \in Channel : BotJoins(ch)
  BY <1>3, SelfStep DEF BotJoins
<1>4. CASE BotGoes
  BY <1>4, SelfStep DEF BotGoes
<1>5. CASE LeaveCommand
  BY <1>5 DEF LeaveCommand, discordgo, CompanyInv, OneEntryEach, Noticed
<1> QED
  BY <1>1, <1>2, <1>3, <1>4, <1>5 DEF Next

LEMMA CompanyInvariant == Spec => []CompanyInv
<1>1. Init => OneEntryEach /\ Noticed
  <2> SUFFICES ASSUME Init PROVE OneEntryEach /\ Noticed
    OBVIOUS
  <2>1. PICK n \in Nat : array \in [1 .. n -> [user : User, channel : Channel, member : {FALSE}]]
    <3>1. Cardinality(User) \in Nat
      BY FS_CardinalityType, CountAssumption
    <3>2. PICK n \in 0 .. Cardinality(User) :
            array \in [1 .. n -> [user : User, channel : Channel, member : {FALSE}]]
      BY DEF Init
    <3>3. n \in Nat
      BY <3>1
    <3> QED
      BY <3>2, <3>3, Zenon
  <2> DEFINE S == [user : User, channel : Channel, member : {FALSE}]
  <2>2. array \in [1 .. n -> S]
    BY <2>1
  <2> HIDE DEF S
  <2>3. array \in Seq(S)
    BY <2>2, SeqDef
  <2>4. DOMAIN array = 1 .. live
    BY <2>3, LenProperties DEF Init
  <2>5. OneEntryEach
    BY <2>4 DEF Init, OneEntryEach
  <2>6. Noticed
    BY DEF Init, Noticed
  <2> QED
    BY <2>5, <2>6
<1>2. (OneEntryEach /\ Noticed) /\ CountInv /\ [Next]_vars => (OneEntryEach /\ Noticed)'
  <2> SUFFICES ASSUME OneEntryEach, Noticed, CountInv, [Next]_vars
               PROVE  OneEntryEach' /\ Noticed'
    OBVIOUS
  <2>1. CASE Next
    BY <2>1, CompanyStep DEF CompanyInv
  <2>2. CASE UNCHANGED vars
    <3>1. UNCHANGED <<active, array, live, cache, pc, moved, frame, seen, failed>>
      BY <2>2 DEF vars, discordgo
    <3>2. OneEntryEach'
      BY <3>1 DEF OneEntryEach
    <3>3. HumansIn(active)' = HumansIn(active) /\ \A w : Leaver(w)' = Leaver(w)
      BY <3>1 DEF HumansIn, Leaver
    <3> QED
      BY <3>1, <3>2, <3>3 DEF Noticed
  <2> QED
    BY <2>1, <2>2
<1> QED
  BY <1>1, <1>2, CountInvariant, PTL DEF Spec, CompanyInv

(* Every variable keeps its type (main.go:584-700).                        *)
THEOREM TypeCorrect == Spec => []TypeOK
<1>1. CountInv => TypeOK
  BY DEF CountInv
<1> QED
  BY <1>1, CountInvariant, PTL

(* What the cache says of a member is true (main.go:687-700).              *)
THEOREM CacheIsTrue == Spec => []CacheTrue
<1>1. CountInv => CacheTrue
  BY DEF CountInv
<1> QED
  BY <1>1, CountInvariant, PTL

(* A watcher that leaves has missed no human who was there all along,      *)
(* unless an entry was cut out of the list meanwhile (main.go:658, 780).   *)
THEOREM NobodyMissed == Spec => []NoHumanMissed
<1>1. CountInv => NoHumanMissed
  BY DEF CountInv, Complete, NoHumanMissed
<1> QED
  BY <1>1, CountInvariant, PTL

(* Without a failure, the bot stays only for a human who was there         *)
(* (main.go:663-685, 778-794).                                             *)
THEOREM KeptByThosePresent == Spec => []KeptByHumans
<1>1. CountInv => KeptByHumans
  BY DEF CountInv, Sound, KeptByHumans
<1> QED
  BY <1>1, CountInvariant, PTL

(* Unless Discord failed to answer, the bot is in no channel without       *)
(* humans once every event is handled, whichever events of members, counts *)
(* of other watchers and changes of the list came in between               *)
(* (main.go:584-605, 651-685, 768-794).                                    *)
THEOREM NoCompanyOfBots == Spec => []NotAmongBots
<1>1. CompanyInv => NotAmongBots
  BY DEF CompanyInv, Noticed, Leaver, Counting, NotAmongBots
<1> QED
  BY <1>1, CompanyInvariant, PTL
==============================================================================

------------------------------- MODULE ChatProofs -------------------------------
(***************************************************************************)
(* Proofs about the chat of an exchange on the server (ChatSockets), for    *)
(* any number of connections and requests and any limit: what the counter   *)
(* counts, and that an ended or blocked chat takes no more messages.        *)
(*                                                                          *)
(* Most steps replace one connection by another.  Two lemmas say what such  *)
(* a step preserves (PutKeeps) and what it does to the counter (PutCounts); *)
(* each action is then shown to meet their assumptions.                     *)
(***************************************************************************)
EXTENDS ChatSockets, FiniteSetTheorems, TLAPS

-----------------------------------------------------------------------------
(* The inductive invariant. *)

TakesSlot(v) == (v.counted /\ v.pc # "delete") \/ v.pc = "over"
Slot(v) == IF TakesSlot(v) THEN 1 ELSE 0
Seat(v) == IF v.counted /\ v.pc # "delete" THEN 1 ELSE 0
Count(n) == IF n = None THEN 0 ELSE n

Occupants == {c \in Conns : Occupies(c)}
Members == {c \in Conns : LetIn(c)}

\* Only who is authenticated is counted or joins; who joined was not blocked then.
Proper(v) ==
    /\ v.counted = v.authed
    /\ v.pc \in {"none", "count", "set", "over", "delete_over"} => ~v.authed
    /\ v.pc \in {"exchange", "blocks"} => v.authed
    /\ v.joined => v.authed /\ v.pc \in {"wait", "save", "refuse"} /\ ~v.barred
    /\ v.pc \in {"save", "refuse"} => v.joined
    /\ v.barred \/ v.began => block = "done"

Fitting(q) ==
    /\ q.began => block = "done"
    /\ q.pc = "save" => ~q.began /\ q.status \in CHAT_WRITABLE_STATUSES

\* A chat that is locked stays so, and a block that is carried out leaves no
\* active exchange.
StatusInv ==
    /\ status \in CHAT_ELIGIBLE_STATUSES \cup {"cancelled"}
    /\ block = "done" => status # "active"

DueInv ==
    /\ past.due >= 0
    /\ status \notin CHAT_WRITABLE_STATUSES => past.due >= Cardinality(UnderWay)

ChatInv ==
    /\ TypeOK
    /\ \A c \in Conns : Proper(conn[c])
    /\ \A r \in Requests : Fitting(rest[r])
    /\ StatusInv
    /\ DueInv
    /\ BlockedApart
    /\ CounterMatches

-----------------------------------------------------------------------------
(* Sizes. *)

LEMMA Finite ==
  /\ IsFiniteSet(Occupants) /\ Cardinality(Occupants) \in Nat
  /\ IsFiniteSet(Members) /\ Cardinality(Members) \in Nat
  /\ Cardinality(Members) <= Cardinality(Occupants)
  /\ IsFiniteSet(UnderWay) /\ Cardinality(UnderWay) \in Nat
  <1>1. IsFiniteSet(Conns \cup Requests)
    BY FS_Union, BoundsAssumption
  <1>2. /\ Occupants \subseteq Conns \cup Requests
        /\ Members \subseteq Occupants
        /\ UnderWay \subseteq Conns \cup Requests
    BY DEF Occupants, Members, Occupies, UnderWay
  <1>3. IsFiniteSet(Occupants) /\ IsFiniteSet(UnderWay)
    BY <1>1, <1>2, FS_Subset
  <1>4. IsFiniteSet(Members) /\ Cardinality(Members) <= Cardinality(Occupants)
    BY <1>2, <1>3, FS_Subset
  <1> QED BY <1>3, <1>4, FS_CardinalityType

LEMMA PutSizes ==
  ASSUME TypeOK, NEW c \in Conns, NEW v \in Connection, Put(c, v)
  PROVE  /\ Cardinality(Occupants)' = Cardinality(Occupants) - Slot(conn[c]) + Slot(v)
         /\ Cardinality(Members)' = Cardinality(Members) - Seat(conn[c]) + Seat(v)
  <1>0. /\ conn'[c] = v
        /\ \A d \in Conns \ {c} : conn'[d] = conn[d]
    BY DEF TypeOK, Put
  <1>1. Occupants' = IF TakesSlot(v) THEN Occupants \cup {c} ELSE Occupants \ {c}
    BY <1>0 DEF Occupants, Occupies, LetIn, TakesSlot
  <1>2. Members' = IF v.counted /\ v.pc # "delete" THEN Members \cup {c} ELSE Members \ {c}
    BY <1>0 DEF Members, LetIn
  <1>3. c \in Occupants <=> TakesSlot(conn[c])
    BY DEF Occupants, Occupies, LetIn, TakesSlot
  <1>4. c \in Members <=> conn[c].counted /\ conn[c].pc # "delete"
    BY DEF Members, LetIn
  <1>5. /\ Cardinality(Occupants \cup {c}) =
              IF c \in Occupants THEN Cardinality(Occupants) ELSE Cardinality(Occupants) + 1
        /\ Cardinality(Occupants \ {c}) =
              IF c \in Occupants THEN Cardinality(Occupants) - 1 ELSE Cardinality(Occupants)
        /\ Cardinality(Members \cup {c}) =
              IF c \in Members THEN Cardinality(Members) ELSE Cardinality(Members) + 1
        /\ Cardinality(Members \ {c}) =
              IF c \in Members THEN Cardinality(Members) - 1 ELSE Cardinality(Members)
    BY Finite, FS_AddElement, FS_RemoveElement
  <1>6. Cardinality(Occupants)' = Cardinality(Occupants) - Slot(conn[c]) + Slot(v)
    BY <1>1, <1>3, <1>5, Finite DEF Slot
  <1>7. Cardinality(Members)' = Cardinality(Members) - Seat(conn[c]) + Seat(v)
    BY <1>2, <1>4, <1>5, Finite DEF Seat
  <1> QED BY <1>6, <1>7

\* Whoever holds a slot is counted, unless the key lapsed.
LEMMA Counted ==
  ASSUME ChatInv, ~lapsed
  PROVE  /\ Count(counter) = Cardinality(Occupants) + past.leaks
         /\ Count(counter) \in Nat
         /\ \A c \in Conns : Slot(conn[c]) = 1 => counter # None /\ counter >= 1
  <1>1. Count(counter) = Cardinality(Occupants) + past.leaks /\ past.leaks \in Nat
    BY BoundsAssumption DEF ChatInv, CounterMatches, Count, Occupants, TypeOK
  <1>2. ASSUME NEW c \in Conns, Slot(conn[c]) = 1 PROVE counter # None /\ counter >= 1
    <2>1. c \in Occupants
      BY <1>2 DEF Slot, TakesSlot, Occupants, Occupies, LetIn
    <2>2. Cardinality(Occupants) >= 1
      BY <2>1, Finite, FS_EmptySet
    <2> QED BY <1>1, <2>2, Finite DEF Count
  <1> QED BY <1>1, <1>2, Finite

-----------------------------------------------------------------------------
(* Steps that replace one connection. *)

LEMMA PutCounts ==
  ASSUME ChatInv, NEW c \in Conns, NEW v \in Connection, Put(c, v),
         ~lapsed' =>
            /\ ~lapsed
            /\ Count(counter') + past.leaks + Slot(conn[c]) = Count(counter) + past'.leaks + Slot(v)
            /\ Seat(v) <= Seat(conn[c]) \/ Count(counter') <= MAX_WS_CONNECTIONS_PER_USER,
         counter' \in Int \cup {None}, past'.leaks \in Nat
  PROVE  CounterMatches'
  <1> SUFFICES ASSUME ~lapsed'
               PROVE  /\ Count(counter') = Cardinality(Occupants)' + past'.leaks
                      /\ Cardinality(Members)' <= MAX_WS_CONNECTIONS_PER_USER
    BY DEF CounterMatches, Count, Occupants, Members
  <1>1. /\ Count(counter) = Cardinality(Occupants) + past.leaks /\ past.leaks \in Nat
        /\ Cardinality(Members) <= MAX_WS_CONNECTIONS_PER_USER
    BY Counted, BoundsAssumption DEF ChatInv, CounterMatches, TypeOK, Members
  <1>2. /\ Cardinality(Occupants)' = Cardinality(Occupants) - Slot(conn[c]) + Slot(v)
        /\ Cardinality(Members)' = Cardinality(Members) - Seat(conn[c]) + Seat(v)
    BY PutSizes DEF ChatInv
  <1>3. /\ Slot(v) \in {0, 1} /\ Slot(conn[c]) \in {0, 1}
        /\ Seat(v) \in {0, 1} /\ Seat(conn[c]) \in {0, 1}
    BY DEF Slot, Seat
  <1>4. Count(counter') \in Int /\ Count(counter) \in Int
    BY DEF Count, ChatInv, TypeOK
  <1>5. Count(counter') = Cardinality(Occupants)' + past'.leaks
    BY <1>1, <1>2, <1>3, <1>4, Finite
  <1>6. Cardinality(Members)' <= Cardinality(Occupants)' /\ Cardinality(Occupants)' \in Nat
        /\ Cardinality(Members)' \in Nat
    <2>1. Members' \subseteq Occupants' /\ Occupants' \subseteq Conns
      BY DEF Occupants, Members, Occupies
    <2>2. IsFiniteSet(Occupants') /\ Cardinality(Members') <= Cardinality(Occupants')
      BY <2>1, BoundsAssumption, FS_Subset
    <2>3. IsFiniteSet(Members')
      BY <2>1, <2>2, FS_Subset
    <2> QED BY <2>2, <2>3, FS_CardinalityType
  <1>7. Cardinality(Members)' <= MAX_WS_CONNECTIONS_PER_USER
    BY <1>1, <1>2, <1>3, <1>4, <1>5, <1>6, Finite, BoundsAssumption
  <1> QED BY <1>5, <1>7

LEMMA PutKeeps ==
  ASSUME ChatInv, NEW c \in Conns, NEW v \in Connection, Put(c, v), Proper(v),
         UNCHANGED <<rest, status, block>>,
         UNCHANGED past \/ \E n \in {0, 1} : Leaked(n),
         v.pc = "save" => conn[c].pc = "save" \/ status \in CHAT_WRITABLE_STATUSES,
         counter' \in Int \cup {None}, lapsed' \in BOOLEAN,
         CounterMatches'
  PROVE  ChatInv'
  <1>0. /\ conn' \in [Conns -> Connection]
        /\ conn'[c] = v
        /\ \A d \in Conns \ {c} : conn'[d] = conn[d]
    BY DEF ChatInv, TypeOK, Put
  <1>1. /\ past' \in [leaks : 0..MaxLeaks, due : Int,
                      across : SUBSET ({"socket", "rest"} \X Statuses \X BOOLEAN)]
        /\ past'.due = past.due /\ past'.across = past.across
    <2>1. CASE UNCHANGED past
      BY <2>1 DEF ChatInv, TypeOK
    <2>2. ASSUME NEW n \in {0, 1}, Leaked(n)
          PROVE  /\ past' = [past EXCEPT !.leaks = @ + n]
                 /\ past.leaks + n \in 0..MaxLeaks
      BY <2>2, BoundsAssumption DEF Leaked, ChatInv, TypeOK
    <2> QED BY <2>1, <2>2 DEF ChatInv, TypeOK
  <1>3. TypeOK'
    BY <1>0, <1>1 DEF ChatInv, TypeOK
  <1>4. (\A d \in Conns : Proper(conn[d]))'
    BY <1>0 DEF ChatInv, Proper
  <1>5. (\A r \in Requests : Fitting(rest[r]))' /\ StatusInv'
    BY DEF ChatInv, Fitting, StatusInv
  <1>6. DueInv'
    <2>1. CASE status \in CHAT_WRITABLE_STATUSES
      BY <2>1, <1>1 DEF ChatInv, DueInv
    <2>2. CASE status \notin CHAT_WRITABLE_STATUSES
      <3>1. UnderWay' \subseteq UnderWay
        BY <2>2, <1>0 DEF UnderWay
      <3>2. Cardinality(UnderWay') <= Cardinality(UnderWay) /\ Cardinality(UnderWay') \in Nat
        BY <3>1, Finite, FS_Subset, FS_CardinalityType
      <3> QED BY <1>1, <3>2, Finite DEF ChatInv, DueInv, TypeOK
    <2> QED BY <2>1, <2>2
  <1>7. BlockedApart'
    BY <1>1 DEF ChatInv, BlockedApart
  <1> QED BY <1>3, <1>4, <1>5, <1>6, <1>7 DEF ChatInv

\* Both at once; n slots are lost.
LEMMA PutStep ==
  ASSUME ChatInv, NEW c \in Conns, NEW v \in Connection, Put(c, v), Proper(v),
         UNCHANGED <<rest, status, block>>,
         NEW n \in {0, 1}, (n = 0 /\ UNCHANGED past) \/ Leaked(n),
         v.pc = "save" => conn[c].pc = "save" \/ status \in CHAT_WRITABLE_STATUSES,
         counter' \in Int \cup {None}, lapsed' \in BOOLEAN,
         ~lapsed' =>
            /\ ~lapsed
            /\ Count(counter') + Slot(conn[c]) = Count(counter) + Slot(v) + n
            /\ Seat(v) <= Seat(conn[c]) \/ Count(counter') <= MAX_WS_CONNECTIONS_PER_USER
  PROVE  ChatInv'
  <1>1. past'.leaks = past.leaks + n /\ past.leaks \in Nat /\ past'.leaks \in Nat
    BY BoundsAssumption DEF Leaked, ChatInv, TypeOK
  <1>2. /\ Count(counter') \in Int /\ Count(counter) \in Int
        /\ Slot(v) \in Int /\ Slot(conn[c]) \in Int
    BY DEF Count, Slot, ChatInv, TypeOK
  <1>3. CounterMatches'
    BY <1>1, <1>2, PutCounts
  <1> QED BY <1>3, PutKeeps

\* Steps that leave counter and slots alone.
LEMMA PutPlain ==
  ASSUME ChatInv, NEW c \in Conns, NEW v \in Connection, Put(c, v), Proper(v),
         UNCHANGED <<counter, rest, status, block, past, lapsed>>,
         v.pc = "save" => conn[c].pc = "save" \/ status \in CHAT_WRITABLE_STATUSES,
         Slot(v) = Slot(conn[c]), Seat(v) <= Seat(conn[c])
  PROVE  ChatInv'
  <1>1. counter \in Int \cup {None} /\ lapsed \in BOOLEAN /\ Count(counter) \in Int
    BY DEF ChatInv, TypeOK, Count
  <1>2. Slot(conn[c]) \in Int
    BY DEF Slot
  <1> QED BY <1>1, <1>2, PutStep

LEMMA SameSlot ==
  ASSUME NEW v \in Connection, NEW w \in Connection, v.counted = w.counted,
         v.pc = w.pc \/ (v.pc \notin {"delete", "over"} /\ w.pc \notin {"delete", "over"})
  PROVE  Slot(v) = Slot(w) /\ Seat(v) <= Seat(w)
  BY DEF Slot, Seat, TakesSlot, Connection

\* A consumer that just ends loses its slot; the counter keeps it.
LEMMA RaisesKeeps ==
  ASSUME ChatInv, NEW c \in Conns, Raises(c),
         UNCHANGED <<counter, rest, status, block, lapsed>>
  PROVE  ChatInv'
  <1>1. NoConn \in Connection /\ Proper(NoConn) /\ Slot(NoConn) = 0 /\ Seat(NoConn) = 0
    BY DEF NoConn, Connection, Places, Proper, Slot, Seat, TakesSlot
  <1>2. /\ Slot(conn[c]) = IF Occupies(c) THEN 1 ELSE 0
        /\ Slot(conn[c]) \in {0, 1} /\ Seat(conn[c]) \in {0, 1}
    BY DEF Slot, Seat, TakesSlot, Occupies, LetIn
  <1>3. Put(c, NoConn) /\ Leaked(Slot(conn[c]))
    BY <1>2 DEF Raises
  <1>4. /\ counter' \in Int \cup {None} /\ lapsed' \in BOOLEAN
        /\ Count(counter) \in Int /\ NoConn.pc # "save"
    BY DEF ChatInv, TypeOK, Count, NoConn
  <1> QED BY <1>1, <1>2, <1>3, <1>4, PutStep

LEMMA TurnedAwayKeeps ==
  ASSUME ChatInv, NEW c \in Conns, TurnedAway(c),
         conn[c].pc \in {"count", "exchange", "blocks"},
         UNCHANGED <<counter, rest, status, block, lapsed>>
  PROVE  ChatInv'
  <1>1. CASE conn[c].open
    <2> DEFINE v == [conn[c] EXCEPT !.pc = "wait", !.open = FALSE]
    <2>1. conn[c] \in Connection /\ Proper(conn[c])
      BY DEF ChatInv, TypeOK
    <2>2. v \in Connection /\ Proper(v) /\ v.pc # "save"
      BY <2>1 DEF Connection, Places, Proper
    <2>3. Slot(v) = Slot(conn[c]) /\ Seat(v) <= Seat(conn[c])
      BY <2>1 DEF Connection, Slot, Seat, TakesSlot
    <2>4. Put(c, v) /\ UNCHANGED past
      BY <1>1 DEF TurnedAway
    <2> HIDE DEF v
    <2> QED BY <2>2, <2>3, <2>4, PutPlain
  <1>2. CASE ~conn[c].open
    BY <1>2, RaisesKeeps DEF TurnedAway
  <1> QED BY <1>1, <1>2

-----------------------------------------------------------------------------
(* The counter. *)

\* What _check_connection_limit makes of a count that has just been incremented.
LEMMA CheckedKeeps ==
  ASSUME ChatInv, NEW c \in Conns, conn[c].pc \in {"count", "set"},
         NEW count \in Int, Checked(c, count), counter' = count,
         UNCHANGED <<rest, status, block>>, lapsed' \in BOOLEAN,
         ~lapsed' => ~lapsed /\ count = Count(counter) + 1
  PROVE  ChatInv'
  <1>1. /\ conn[c] \in Connection /\ Proper(conn[c])
        /\ ~conn[c].counted /\ ~conn[c].joined
    BY DEF ChatInv, TypeOK, Proper, Connection
  <1>2. Slot(conn[c]) = 0 /\ Seat(conn[c]) = 0
    BY <1>1 DEF Slot, Seat, TakesSlot
  <1>3. /\ Count(counter) \in Int /\ counter' # None /\ Count(counter') = count
        /\ counter' \in Int \cup {None}
    BY BoundsAssumption DEF ChatInv, TypeOK, Count
  <1>4. CASE count > MAX_WS_CONNECTIONS_PER_USER
    <2> DEFINE v == [conn[c] EXCEPT !.pc = "over"]
    <2>1. v \in Connection /\ Proper(v) /\ v.pc # "save" /\ Slot(v) = 1 /\ Seat(v) = 0
      BY <1>1 DEF Connection, Places, Proper, Slot, Seat, TakesSlot
    <2>2. Put(c, v) /\ Leaked(0)
      BY <1>4 DEF Checked
    <2> HIDE DEF v
    <2> QED BY <1>2, <1>3, <2>1, <2>2, PutStep
  <1>5. CASE ~(count > MAX_WS_CONNECTIONS_PER_USER) /\ conn[c].first /\ ~conn[c].open
    <2>1. NoConn \in Connection /\ Proper(NoConn) /\ Slot(NoConn) = 0 /\ Seat(NoConn) = 0
          /\ NoConn.pc # "save"
      BY DEF NoConn, Connection, Places, Proper, Slot, Seat, TakesSlot
    <2>2. Put(c, NoConn) /\ Leaked(1)
      BY <1>5 DEF Checked
    <2> QED BY <1>2, <1>3, <2>1, <2>2, PutStep
  <1>6. CASE ~(count > MAX_WS_CONNECTIONS_PER_USER) /\ ~(conn[c].first /\ ~conn[c].open)
    <2> DEFINE v == [conn[c] EXCEPT !.pc = "exchange", !.counted = TRUE, !.authed = TRUE,
                                    !.timer = FALSE, !.barred = Blocked]
    <2>1. v \in Connection /\ Proper(v) /\ v.pc # "save" /\ Slot(v) = 1 /\ Seat(v) = 1
      BY <1>1 DEF Connection, Places, Proper, Slot, Seat, TakesSlot, Blocked
    <2>2. Put(c, v) /\ Leaked(0)
      BY <1>6 DEF Checked
    <2>3. count <= MAX_WS_CONNECTIONS_PER_USER
      BY <1>6, BoundsAssumption
    <2> HIDE DEF v
    <2> QED BY <1>2, <1>3, <2>1, <2>2, <2>3, PutStep
  <1> QED BY <1>4, <1>5, <1>6

LEMMA IncrementsKeeps ==
  ASSUME ChatInv, NEW c \in Conns, Increments(c)
  PROVE  ChatInv'
  <1>1. conn[c].pc = "count" /\ conn[c] \in Connection /\ Proper(conn[c])
    BY DEF Increments, ChatInv, TypeOK
  <1>2. CASE counter = None
    <2> DEFINE v == [conn[c] EXCEPT !.pc = "set"]
    <2>1. v \in Connection /\ Proper(v) /\ v.pc # "save"
          /\ Slot(v) = Slot(conn[c]) /\ Seat(v) <= Seat(conn[c])
      BY <1>1 DEF Connection, Places, Proper, Slot, Seat, TakesSlot
    <2>2. Put(c, v) /\ UNCHANGED <<counter, rest, status, block, past, lapsed>>
      BY <1>2 DEF Increments
    <2> HIDE DEF v
    <2> QED BY <2>1, <2>2, PutPlain
  <1>3. CASE counter # None
    <2>1. counter \in Int /\ Count(counter) = counter /\ lapsed' \in BOOLEAN
      BY <1>3 DEF ChatInv, TypeOK, Count, Increments
    <2>2. Checked(c, counter + 1) /\ counter' = counter + 1 /\ lapsed' = lapsed
          /\ UNCHANGED <<rest, status, block>>
      BY <1>3 DEF Increments
    <2> QED BY <1>1, <2>1, <2>2, CheckedKeeps
  <1> QED BY <1>2, <1>3

LEMMA SetsKeeps ==
  ASSUME ChatInv, NEW c \in Conns, Sets(c)
  PROVE  ChatInv'
  <1>1. /\ conn[c].pc = "set" /\ Checked(c, 1) /\ counter' = 1
        /\ lapsed' = (lapsed \/ counter # None)
        /\ UNCHANGED <<rest, status, block>>
    BY DEF Sets
  <1>2. lapsed' \in BOOLEAN /\ (~lapsed' => ~lapsed /\ counter = None)
    BY <1>1
  <1> DEFINE count == 1
  <1>3. /\ count \in Int /\ Checked(c, count) /\ counter' = count
        /\ conn[c].pc \in {"count", "set"}
        /\ ~lapsed' => ~lapsed /\ count = Count(counter) + 1
    BY <1>1, <1>2 DEF Count
  <1> HIDE DEF count
  <1> QED BY <1>1, <1>2, <1>3, CheckedKeeps

LEMMA RefusedKeeps ==
  ASSUME ChatInv, NEW c \in Conns, Refused(c)
  PROVE  ChatInv'
  <1>1. conn[c].pc = "over" /\ conn[c] \in Connection /\ Proper(conn[c])
    BY DEF Refused, ChatInv, TypeOK
  <1>2. Slot(conn[c]) = 1 /\ Seat(conn[c]) = 0 /\ ~conn[c].counted /\ ~conn[c].joined
    BY <1>1 DEF Slot, Seat, TakesSlot, Proper, Connection
  <1>3. /\ UNCHANGED <<rest, status, block, past, lapsed>>
        /\ counter' = IF counter = None THEN None ELSE counter - 1
        /\ counter' \in Int \cup {None} /\ lapsed' \in BOOLEAN
    BY DEF Refused, ChatInv, TypeOK
  <1>4. ~lapsed' => ~lapsed /\ Count(counter') + 1 = Count(counter)
    <2> SUFFICES ASSUME ~lapsed' PROVE ~lapsed /\ Count(counter') + 1 = Count(counter)
      OBVIOUS
    <2>1. ~lapsed /\ counter # None /\ counter \in Int
      BY <1>2, <1>3, Counted DEF ChatInv, TypeOK
    <2> QED BY <1>3, <2>1, BoundsAssumption DEF Count
  <1>5. \E v \in Connection : Put(c, v) /\ Proper(v) /\ v.pc # "save" /\ Slot(v) = 0 /\ Seat(v) = 0
    <2>1. NoConn \in Connection /\ Proper(NoConn) /\ NoConn.pc # "save"
          /\ Slot(NoConn) = 0 /\ Seat(NoConn) = 0
      BY DEF NoConn, Connection, Places, Proper, Slot, Seat, TakesSlot
    <2> DEFINE v == [conn[c] EXCEPT !.pc = "wait", !.open = FALSE]
               w == [conn[c] EXCEPT !.pc = "delete_over"]
    <2>2. v \in Connection /\ Proper(v) /\ v.pc # "save" /\ Slot(v) = 0 /\ Seat(v) = 0
      BY <1>1, <1>2 DEF Connection, Places, Proper, Slot, Seat, TakesSlot
    <2>3. w \in Connection /\ Proper(w) /\ w.pc # "save" /\ Slot(w) = 0 /\ Seat(w) = 0
      BY <1>1, <1>2 DEF Connection, Places, Proper, Slot, Seat, TakesSlot
    <2>4. Put(c, NoConn) \/ Put(c, v) \/ Put(c, w)
      BY DEF Refused, Turned
    <2> HIDE DEF v, w
    <2> QED BY <2>1, <2>2, <2>3, <2>4
  <1>6. PICK v \in Connection :
           Put(c, v) /\ Proper(v) /\ v.pc # "save" /\ Slot(v) = 0 /\ Seat(v) = 0
    BY <1>5
  <1>7. Count(counter') \in Int /\ Count(counter) \in Int
    BY <1>3 DEF Count, ChatInv, TypeOK
  <1> QED BY <1>2, <1>3, <1>4, <1>6, <1>7, PutStep

LEMMA DeletesKeeps ==
  ASSUME ChatInv, NEW c \in Conns, Deletes(c)
  PROVE  ChatInv'
  <1>1. /\ conn[c].pc \in {"delete", "delete_over"}
        /\ conn[c] \in Connection /\ Proper(conn[c])
    BY DEF Deletes, ChatInv, TypeOK
  <1>2. Slot(conn[c]) = 0 /\ Seat(conn[c]) = 0 /\ ~conn[c].joined
    BY <1>1 DEF Slot, Seat, TakesSlot, Proper, Connection
  <1>3. /\ UNCHANGED <<rest, status, block, past>> /\ counter' = None
        /\ lapsed' = (lapsed \/ (counter # None /\ counter > 0))
        /\ counter' \in Int \cup {None} /\ lapsed' \in BOOLEAN
    BY DEF Deletes, ChatInv, TypeOK
  <1>4. ~lapsed' => ~lapsed /\ Count(counter') = 0 /\ Count(counter) = 0
    <2> SUFFICES ASSUME ~lapsed' PROVE ~lapsed /\ Count(counter') = 0 /\ Count(counter) = 0
      OBVIOUS
    <2>1. ~lapsed /\ (counter = None \/ ~(counter > 0))
      BY <1>3
    <2>2. Count(counter) \in Nat
      BY <2>1, Counted
    <2> QED BY <1>3, <2>1, <2>2 DEF Count
  <1>5. \E v \in Connection : Put(c, v) /\ Proper(v) /\ v.pc # "save" /\ Slot(v) = 0 /\ Seat(v) = 0
    <2>1. NoConn \in Connection /\ Proper(NoConn) /\ NoConn.pc # "save"
          /\ Slot(NoConn) = 0 /\ Seat(NoConn) = 0
      BY DEF NoConn, Connection, Places, Proper, Slot, Seat, TakesSlot
    <2> DEFINE v == [conn[c] EXCEPT !.pc = "wait", !.open = FALSE]
    <2>2. conn[c].pc = "delete_over"
          => v \in Connection /\ Proper(v) /\ v.pc # "save" /\ Slot(v) = 0 /\ Seat(v) = 0
      BY <1>1, <1>2 DEF Connection, Places, Proper, Slot, Seat, TakesSlot
    <2>3. Put(c, NoConn) \/ (conn[c].pc = "delete_over" /\ Put(c, v))
      BY <1>1 DEF Deletes, Turned
    <2> HIDE DEF v
    <2> QED BY <2>1, <2>2, <2>3
  <1>6. PICK v \in Connection :
           Put(c, v) /\ Proper(v) /\ v.pc # "save" /\ Slot(v) = 0 /\ Seat(v) = 0
    BY <1>5
  <1> QED BY <1>2, <1>3, <1>4, <1>6, PutStep

-----------------------------------------------------------------------------
(* The other steps of a connection. *)

LEMMA ConnectsKeeps ==
  ASSUME ChatInv, NEW c \in Conns, Connects(c)
  PROVE  ChatInv'
  <1>1. PICK first \in BOOLEAN :
           Put(c, [NoConn EXCEPT !.pc = IF first THEN "wait" ELSE "count",
                                 !.open = TRUE, !.first = first, !.timer = first])
    BY DEF Connects
  <1> DEFINE v == [NoConn EXCEPT !.pc = IF first THEN "wait" ELSE "count",
                                 !.open = TRUE, !.first = first, !.timer = first]
  <1>2. conn[c].pc = "none" /\ conn[c] \in Connection /\ Proper(conn[c])
    BY DEF Connects, ChatInv, TypeOK
  <1>3. Slot(conn[c]) = 0 /\ Seat(conn[c]) = 0
    BY <1>2 DEF Slot, Seat, TakesSlot, Proper, Connection
  <1>4. v \in Connection /\ Proper(v) /\ v.pc # "save" /\ Slot(v) = 0 /\ Seat(v) = 0
    BY DEF NoConn, Connection, Places, Proper, Slot, Seat, TakesSlot
  <1>5. Put(c, v) /\ UNCHANGED <<counter, rest, status, block, past, lapsed>>
    BY <1>1 DEF Connects
  <1> HIDE DEF v
  <1> QED BY <1>3, <1>4, <1>5, PutPlain

LEMMA AuthenticatesKeeps ==
  ASSUME ChatInv, NEW c \in Conns, Authenticates(c)
  PROVE  ChatInv'
  <1> DEFINE v == [conn[c] EXCEPT !.pc = "count"]
  <1>1. /\ conn[c].pc = "wait" /\ ~conn[c].authed
        /\ conn[c] \in Connection /\ Proper(conn[c])
    BY DEF Authenticates, ChatInv, TypeOK
  <1>2. v \in Connection /\ Proper(v) /\ v.pc # "save"
        /\ Slot(v) = Slot(conn[c]) /\ Seat(v) <= Seat(conn[c])
    BY <1>1 DEF Connection, Places, Proper, Slot, Seat, TakesSlot
  <1>3. Put(c, v) /\ UNCHANGED <<counter, rest, status, block, past, lapsed>>
    BY DEF Authenticates
  <1> HIDE DEF v
  <1> QED BY <1>2, <1>3, PutPlain

\* AuthTimeout and ClientLeaves: the socket closes while the consumer goes on.
LEMMA ClosesKeeps ==
  ASSUME ChatInv, NEW c \in Conns, AuthTimeout(c) \/ ClientLeaves(c)
  PROVE  ChatInv'
  <1>1. conn[c] \in Connection /\ Proper(conn[c])
    BY DEF ChatInv, TypeOK
  <1>2. PICK timer \in BOOLEAN : Put(c, [conn[c] EXCEPT !.timer = timer, !.open = FALSE])
    <2>1. [conn[c] EXCEPT !.open = FALSE] = [conn[c] EXCEPT !.timer = conn[c].timer, !.open = FALSE]
      BY <1>1 DEF Connection
    <2>2. conn[c].timer \in BOOLEAN
      BY <1>1 DEF Connection
    <2> QED BY <2>1, <2>2 DEF AuthTimeout, ClientLeaves
  <1> DEFINE v == [conn[c] EXCEPT !.timer = timer, !.open = FALSE]
  <1>3. v \in Connection /\ v.pc = conn[c].pc /\ v.counted = conn[c].counted
    BY <1>1 DEF Connection
  <1>4. Proper(v)
    BY <1>1 DEF Connection, Proper
  <1>5. Put(c, v) /\ UNCHANGED <<counter, rest, status, block, past, lapsed>>
    BY <1>2 DEF AuthTimeout, ClientLeaves
  <1> HIDE DEF v
  <1> QED BY <1>1, <1>3, <1>4, <1>5, SameSlot, PutPlain

LEMMA TokenRefusedKeeps ==
  ASSUME ChatInv, NEW c \in Conns, TokenRefused(c)
  PROVE  ChatInv'
  BY TurnedAwayKeeps DEF TokenRefused

LEMMA ExchangeReadKeeps ==
  ASSUME ChatInv, NEW c \in Conns, ExchangeRead(c)
  PROVE  ChatInv'
  <1>1. /\ conn[c].pc = "exchange" /\ conn[c] \in Connection /\ Proper(conn[c])
        /\ UNCHANGED <<counter, rest, status, block, lapsed>>
    BY DEF ExchangeRead, ChatInv, TypeOK
  <1>2. CASE status \in CHAT_ELIGIBLE_STATUSES
    <2>1. PICK locked \in BOOLEAN :
             Put(c, [conn[c] EXCEPT !.pc = "blocks", !.locked = locked]) /\ UNCHANGED past
      BY <1>2 DEF ExchangeRead
    <2> DEFINE v == [conn[c] EXCEPT !.pc = "blocks", !.locked = locked]
    <2>2. v \in Connection /\ v.pc = "blocks" /\ v.counted = conn[c].counted
      BY <1>1 DEF Connection, Places
    <2>3. Proper(v)
      BY <1>1 DEF Connection, Proper
    <2>4. Put(c, v)
      BY <2>1
    <2> HIDE DEF v
    <2> QED BY <1>1, <2>1, <2>2, <2>3, <2>4, SameSlot, PutPlain
  <1>3. CASE status \notin CHAT_ELIGIBLE_STATUSES
    BY <1>1, <1>3, TurnedAwayKeeps DEF ExchangeRead
  <1> QED BY <1>2, <1>3

\* Who joins was not blocked: the blocks were read just before.
LEMMA JoinsKeeps ==
  ASSUME ChatInv, NEW c \in Conns, Joins(c)
  PROVE  ChatInv'
  <1>1. /\ conn[c].pc = "blocks" /\ conn[c] \in Connection /\ Proper(conn[c])
        /\ UNCHANGED <<counter, rest, status, block, lapsed>>
    BY DEF Joins, ChatInv, TypeOK
  <1>2. CASE TurnedAway(c)
    BY <1>1, <1>2, TurnedAwayKeeps
  <1>3. CASE Raises(c)
    BY <1>1, <1>3, RaisesKeeps
  <1> DEFINE v == [conn[c] EXCEPT !.pc = "wait", !.joined = TRUE]
  <1>4. CASE block = "no" /\ Put(c, v) /\ UNCHANGED past
    <2>1. v \in Connection /\ v.pc = "wait" /\ v.counted = conn[c].counted
      BY <1>1 DEF Connection, Places
    <2>2. Proper(v)
      BY <1>1, <1>4 DEF Connection, Proper
    <2> HIDE DEF v
    <2> QED BY <1>1, <1>4, <2>1, <2>2, SameSlot, PutPlain
  <1> QED BY <1>2, <1>3, <1>4 DEF Joins

LEMMA SendsFrameKeeps ==
  ASSUME ChatInv, NEW c \in Conns, SendsFrame(c)
  PROVE  ChatInv'
  <1>1. /\ conn[c].pc = "wait" /\ conn[c].joined /\ conn[c] \in Connection /\ Proper(conn[c])
        /\ UNCHANGED <<counter, rest, status, block, past, lapsed>>
    BY DEF SendsFrame, ChatInv, TypeOK
  <1>2. \/ /\ status \in CHAT_WRITABLE_STATUSES
           /\ \E began \in BOOLEAN :
                 /\ began => block = "done"
                 /\ Put(c, [conn[c] EXCEPT !.pc = "save", !.locked = FALSE, !.began = began])
        \/ \E locked \in BOOLEAN : Put(c, [conn[c] EXCEPT !.pc = "refuse", !.locked = locked])
    BY DEF SendsFrame, Blocked
  <1>3. ASSUME status \in CHAT_WRITABLE_STATUSES,
               NEW began \in BOOLEAN, began => block = "done",
               Put(c, [conn[c] EXCEPT !.pc = "save", !.locked = FALSE, !.began = began])
        PROVE  ChatInv'
    <2> DEFINE v == [conn[c] EXCEPT !.pc = "save", !.locked = FALSE, !.began = began]
    <2>1. v \in Connection /\ v.pc = "save" /\ v.counted = conn[c].counted
      BY <1>1 DEF Connection, Places
    <2>2. Proper(v)
      BY <1>1, <1>3 DEF Connection, Proper
    <2>3. Put(c, v)
      BY <1>3
    <2> HIDE DEF v
    <2> QED BY <1>1, <1>3, <2>1, <2>2, <2>3, SameSlot, PutPlain
  <1>4. ASSUME NEW locked \in BOOLEAN,
               Put(c, [conn[c] EXCEPT !.pc = "refuse", !.locked = locked])
        PROVE  ChatInv'
    <2> DEFINE v == [conn[c] EXCEPT !.pc = "refuse", !.locked = locked]
    <2>1. v \in Connection /\ v.pc = "refuse" /\ v.counted = conn[c].counted
      BY <1>1 DEF Connection, Places
    <2>2. Proper(v)
      BY <1>1 DEF Connection, Proper
    <2>3. Put(c, v)
      BY <1>4
    <2> HIDE DEF v
    <2> QED BY <1>1, <2>1, <2>2, <2>3, SameSlot, PutPlain
  <1> QED BY <1>2, <1>3, <1>4

LEMMA RefusesFrameKeeps ==
  ASSUME ChatInv, NEW c \in Conns, RefusesFrame(c)
  PROVE  ChatInv'
  <1>1. /\ conn[c].pc = "refuse" /\ conn[c] \in Connection /\ Proper(conn[c])
        /\ UNCHANGED <<counter, rest, status, block, lapsed>>
    BY DEF RefusesFrame, ChatInv, TypeOK
  <1>2. CASE conn[c].open
    <2> DEFINE v == [conn[c] EXCEPT !.pc = "wait"]
    <2>1. v \in Connection /\ Proper(v) /\ v.pc # "save"
          /\ Slot(v) = Slot(conn[c]) /\ Seat(v) <= Seat(conn[c])
      BY <1>1 DEF Connection, Places, Proper, Slot, Seat, TakesSlot
    <2>2. Put(c, v) /\ UNCHANGED past
      BY <1>2 DEF RefusesFrame
    <2> HIDE DEF v
    <2> QED BY <1>1, <2>1, <2>2, PutPlain
  <1>3. CASE ~conn[c].open
    BY <1>1, <1>3, RaisesKeeps DEF RefusesFrame
  <1> QED BY <1>2, <1>3

LEMMA DisconnectsKeeps ==
  ASSUME ChatInv, NEW c \in Conns, Disconnects(c)
  PROVE  ChatInv'
  <1>1. /\ conn[c].pc = "wait" /\ conn[c] \in Connection /\ Proper(conn[c])
        /\ UNCHANGED <<rest, status, block, past, lapsed>> /\ lapsed' \in BOOLEAN
    BY DEF Disconnects, ChatInv, TypeOK
  <1>2. NoConn \in Connection /\ Proper(NoConn) /\ NoConn.pc # "save"
        /\ Slot(NoConn) = 0 /\ Seat(NoConn) = 0
    BY DEF NoConn, Connection, Places, Proper, Slot, Seat, TakesSlot
  <1>3. CASE ~conn[c].counted
    <2>1. Slot(conn[c]) = 0 /\ Seat(conn[c]) = 0
      BY <1>1, <1>3 DEF Slot, Seat, TakesSlot
    <2>2. Put(c, NoConn) /\ UNCHANGED counter
      BY <1>3 DEF Disconnects
    <2> QED BY <1>1, <1>2, <2>1, <2>2, PutPlain
  <1>4. CASE conn[c].counted
    <2> DEFINE v == [conn[c] EXCEPT !.pc = "delete", !.joined = FALSE]
    <2>1. Slot(conn[c]) = 1 /\ Seat(conn[c]) = 1
      BY <1>1, <1>4 DEF Slot, Seat, TakesSlot
    <2>2. v \in Connection /\ Proper(v) /\ v.pc # "save" /\ Slot(v) = 0 /\ Seat(v) = 0
      BY <1>1 DEF Connection, Places, Proper, Slot, Seat, TakesSlot
    <2>3. counter' = IF counter = None THEN None ELSE counter - 1
      BY <1>4 DEF Disconnects
    <2>4. Put(c, NoConn) \/ Put(c, v)
      BY <1>4 DEF Disconnects
    <2> HIDE DEF v
    <2>5. PICK w \in Connection :
             Put(c, w) /\ Proper(w) /\ w.pc # "save" /\ Slot(w) = 0 /\ Seat(w) = 0
      BY <1>2, <2>2, <2>4
    <2>6. counter' \in Int \cup {None}
      BY <2>3 DEF ChatInv, TypeOK
    <2>7. ~lapsed' => ~lapsed /\ Count(counter') + 1 = Count(counter)
      <3> SUFFICES ASSUME ~lapsed' PROVE ~lapsed /\ Count(counter') + 1 = Count(counter)
        OBVIOUS
      <3>1. ~lapsed /\ counter # None /\ counter \in Int
        BY <1>1, <2>1, Counted DEF ChatInv, TypeOK
      <3> QED BY <2>3, <3>1, BoundsAssumption DEF Count
    <2>8. Count(counter') \in Int /\ Count(counter) \in Int
      BY <2>6 DEF Count, ChatInv, TypeOK
    <2> QED BY <1>1, <2>1, <2>5, <2>6, <2>7, <2>8, PutStep
  <1> QED BY <1>3, <1>4

LEMMA ForwardsEventKeeps ==
  ASSUME ChatInv, NEW c \in Conns, ForwardsEvent(c)
  PROVE  ChatInv'
  BY RaisesKeeps DEF ForwardsEvent

-----------------------------------------------------------------------------
(* Storing messages. *)

\* What a stored message does to the history: one that is due is no longer, and only a
\* connection that joined before a block stores one across it.
LEMMA StoredKeeps ==
  ASSUME ChatInv, NEW how \in {"socket", "rest"}, NEW began \in BOOLEAN, NEW barred \in BOOLEAN,
         Stored(how, began, barred), began => how = "socket" /\ block = "done" /\ ~barred,
         NEW w \in UnderWay, UnderWay' \subseteq UnderWay \ {w}, UNCHANGED status
  PROVE  /\ past' \in [leaks : 0..MaxLeaks, due : Int,
                       across : SUBSET ({"socket", "rest"} \X Statuses \X BOOLEAN)]
         /\ past'.leaks = past.leaks
         /\ DueInv' /\ BlockedApart'
  <1>1. /\ past \in [leaks : 0..MaxLeaks, due : Int,
                     across : SUBSET ({"socket", "rest"} \X Statuses \X BOOLEAN)]
        /\ status \in Statuses
        /\ past.across \subseteq {<<"socket", "swap_confirmed", FALSE>>}
        /\ block = "done" => status # "active"
    BY DEF ChatInv, TypeOK, BlockedApart, StatusInv
  <1>2. CASE status \notin CHAT_WRITABLE_STATUSES
    <2>1. past' = [past EXCEPT !.due = @ - 1]
      BY <1>2 DEF Stored
    <2>2. /\ IsFiniteSet(UnderWay \ {w}) /\ Cardinality(UnderWay \ {w}) = Cardinality(UnderWay) - 1
          /\ Cardinality(UnderWay \ {w}) \in Nat
      BY Finite, FS_RemoveElement, FS_CardinalityType
    <2>3. /\ Cardinality(UnderWay') <= Cardinality(UnderWay \ {w})
          /\ Cardinality(UnderWay') \in Nat
      BY <2>2, FS_Subset, FS_CardinalityType
    <2>4. past.due >= Cardinality(UnderWay)
      BY <1>2 DEF ChatInv, DueInv
    <2>5. past'.due = past.due - 1 /\ past'.across = past.across /\ past'.leaks = past.leaks
      BY <1>1, <2>1
    <2>6. DueInv'
      BY <1>1, <2>2, <2>3, <2>4, <2>5, Finite DEF DueInv
    <2>7. past' \in [leaks : 0..MaxLeaks, due : Int,
                     across : SUBSET ({"socket", "rest"} \X Statuses \X BOOLEAN)]
      BY <1>1, <2>1
    <2>8. BlockedApart'
      BY <1>1, <2>5 DEF BlockedApart
    <2> QED BY <2>5, <2>6, <2>7, <2>8
  <1>3. CASE status \in CHAT_WRITABLE_STATUSES /\ began
    <2>1. status = "swap_confirmed" /\ how = "socket" /\ barred = FALSE
      BY <1>1, <1>3 DEF CHAT_WRITABLE_STATUSES
    <2>2. past' = [past EXCEPT !.across = @ \cup {<<how, status, barred>>}]
      BY <1>3 DEF Stored
    <2>3. past'.due = past.due /\ past'.leaks = past.leaks
          /\ past'.across \subseteq {<<"socket", "swap_confirmed", FALSE>>}
      BY <1>1, <2>1, <2>2
    <2>4. past' \in [leaks : 0..MaxLeaks, due : Int,
                     across : SUBSET ({"socket", "rest"} \X Statuses \X BOOLEAN)]
      BY <1>1, <2>2
    <2> QED BY <1>3, <2>3, <2>4 DEF ChatInv, DueInv, BlockedApart
  <1>4. CASE status \in CHAT_WRITABLE_STATUSES /\ ~began
    BY <1>1, <1>4 DEF Stored, ChatInv, DueInv, BlockedApart
  <1> QED BY <1>2, <1>3, <1>4

LEMMA SavesMessageKeeps ==
  ASSUME ChatInv, NEW c \in Conns, SavesMessage(c)
  PROVE  ChatInv'
  <1> DEFINE v == [conn[c] EXCEPT !.pc = "wait", !.began = FALSE]
  <1>1. /\ conn[c].pc = "save" /\ conn[c] \in Connection /\ Proper(conn[c])
        /\ UNCHANGED <<counter, rest, status, block, lapsed>>
        /\ Put(c, v) /\ Stored("socket", conn[c].began, conn[c].barred)
    BY DEF SavesMessage, ChatInv, TypeOK
  <1>2. v \in Connection /\ v.pc = "wait" /\ v.counted = conn[c].counted
    BY <1>1 DEF Connection, Places
  <1>3. Proper(v)
    BY <1>1 DEF Connection, Proper
  <1>4. /\ conn[c].began \in BOOLEAN /\ conn[c].barred \in BOOLEAN
        /\ conn[c].began => block = "done" /\ ~conn[c].barred
    BY <1>1 DEF Connection, Proper
  <1> HIDE DEF v
  <1>5. /\ conn' \in [Conns -> Connection]
        /\ conn'[c] = v
        /\ \A d \in Conns \ {c} : conn'[d] = conn[d]
    BY <1>1, <1>2 DEF ChatInv, TypeOK, Put
  <1>6. c \in UnderWay /\ UnderWay' \subseteq UnderWay \ {c}
    BY <1>1, <1>2, <1>5, BoundsAssumption DEF UnderWay
  <1>7. /\ past' \in [leaks : 0..MaxLeaks, due : Int,
                      across : SUBSET ({"socket", "rest"} \X Statuses \X BOOLEAN)]
        /\ past'.leaks = past.leaks
        /\ DueInv' /\ BlockedApart'
    BY <1>1, <1>4, <1>6, StoredKeeps
  <1>8. past'.leaks \in Nat /\ past.leaks \in Int /\ counter' \in Int \cup {None}
        /\ Count(counter) \in Int /\ Slot(v) \in Int
    BY <1>1, <1>7, BoundsAssumption DEF ChatInv, TypeOK, Count, Slot
  <1>9. CounterMatches'
    BY <1>1, <1>2, <1>7, <1>8, SameSlot, PutCounts
  <1>10. TypeOK'
    BY <1>1, <1>5, <1>7 DEF ChatInv, TypeOK
  <1>11. (\A d \in Conns : Proper(conn[d]))'
    BY <1>1, <1>3, <1>5 DEF ChatInv, Proper
  <1>12. (\A r \in Requests : Fitting(rest[r]))' /\ StatusInv'
    BY <1>1 DEF ChatInv, Fitting, StatusInv
  <1> QED BY <1>7, <1>9, <1>10, <1>11, <1>12 DEF ChatInv

\* A step of a request: nobody's slot changes.
LEMMA RestKeeps ==
  ASSUME ChatInv, NEW r \in Requests, NEW q \in Request, rest' = [rest EXCEPT ![r] = q],
         Fitting(q), UNCHANGED <<conn, counter, status, block, lapsed>>
  PROVE  /\ rest' \in [Requests -> Request] /\ rest'[r] = q
         /\ \A p \in Requests \ {r} : rest'[p] = rest[p]
         /\ (\A d \in Conns : Proper(conn[d]))' /\ (\A p \in Requests : Fitting(rest[p]))'
         /\ StatusInv'
         /\ past'.leaks = past.leaks => CounterMatches'
  <1>1. /\ rest' \in [Requests -> Request] /\ rest'[r] = q
        /\ \A p \in Requests \ {r} : rest'[p] = rest[p]
    BY DEF ChatInv, TypeOK
  <1>2. (\A d \in Conns : Proper(conn[d]))' /\ (\A p \in Requests : Fitting(rest[p]))'
    BY <1>1 DEF ChatInv, Proper, Fitting
  <1>3. StatusInv' /\ (past'.leaks = past.leaks => CounterMatches')
    BY DEF ChatInv, StatusInv, CounterMatches, Occupies, LetIn
  <1> QED BY <1>1, <1>2, <1>3

\* A request that has not stored anything: what is under way only shrinks, once the chat
\* is locked.
LEMMA RestPlain ==
  ASSUME ChatInv, NEW r \in Requests, NEW q \in Request, rest' = [rest EXCEPT ![r] = q],
         Fitting(q), UNCHANGED <<conn, counter, status, block, past, lapsed>>,
         q.pc # "none" /\ q.status \in CHAT_WRITABLE_STATUSES =>
            (rest[r].pc # "none" /\ rest[r].status = q.status) \/ q.status = status
  PROVE  ChatInv'
  <1>1. /\ rest' \in [Requests -> Request] /\ rest'[r] = q
        /\ \A p \in Requests \ {r} : rest'[p] = rest[p]
        /\ (\A d \in Conns : Proper(conn[d]))' /\ (\A p \in Requests : Fitting(rest[p]))'
        /\ StatusInv' /\ CounterMatches'
    BY RestKeeps
  <1>2. DueInv'
    <2>1. CASE status \in CHAT_WRITABLE_STATUSES
      BY <2>1 DEF ChatInv, DueInv
    <2>2. CASE status \notin CHAT_WRITABLE_STATUSES
      <3>1. UnderWay' \subseteq UnderWay
        BY <2>2, <1>1 DEF UnderWay
      <3>2. Cardinality(UnderWay') <= Cardinality(UnderWay) /\ Cardinality(UnderWay') \in Nat
        BY <3>1, Finite, FS_Subset, FS_CardinalityType
      <3> QED BY <3>2, Finite DEF ChatInv, DueInv, TypeOK
    <2> QED BY <2>1, <2>2
  <1>3. TypeOK' /\ BlockedApart'
    BY <1>1 DEF ChatInv, TypeOK, BlockedApart
  <1> QED BY <1>1, <1>2, <1>3 DEF ChatInv

LEMMA NoRequestFits == NoRequest \in Request /\ Fitting(NoRequest) /\ NoRequest.pc = "none"
  BY DEF NoRequest, Request, Fitting, Statuses

LEMMA RestReadsKeeps ==
  ASSUME ChatInv, NEW r \in Requests, RestReads(r)
  PROVE  ChatInv'
  <1>1. PICK began \in BOOLEAN :
           /\ began => block = "done"
           /\ rest' = [rest EXCEPT ![r] = [pc |-> "blocks", status |-> status, began |-> began]]
    BY DEF RestReads, Blocked
  <1> DEFINE q == [pc |-> "blocks", status |-> status, began |-> began]
  <1>2. q \in Request /\ Fitting(q) /\ q.status = status
    BY <1>1 DEF ChatInv, TypeOK, Request, Fitting
  <1>3. rest' = [rest EXCEPT ![r] = q] /\ UNCHANGED <<conn, counter, status, block, past, lapsed>>
    BY <1>1 DEF RestReads
  <1> HIDE DEF q
  <1> QED BY <1>2, <1>3, RestPlain

\* The blocks are read after the exchange: a request that goes on began before any block.
LEMMA RestChecksKeeps ==
  ASSUME ChatInv, NEW r \in Requests, RestChecks(r)
  PROVE  ChatInv'
  <1>1. /\ rest[r].pc = "blocks" /\ rest[r] \in Request /\ Fitting(rest[r])
        /\ UNCHANGED <<conn, counter, status, block, past, lapsed>>
    BY DEF RestChecks, ChatInv, TypeOK
  <1>2. CASE block = "no" /\ rest[r].status \in CHAT_WRITABLE_STATUSES
    <2> DEFINE q == [rest[r] EXCEPT !.pc = "save"]
    <2>1. q \in Request /\ q.status = rest[r].status
      BY <1>1 DEF Request
    <2>2. Fitting(q)
      BY <1>1, <1>2 DEF Request, Fitting
    <2>3. rest' = [rest EXCEPT ![r] = q]
      BY <1>2 DEF RestChecks
    <2> HIDE DEF q
    <2> QED BY <1>1, <2>1, <2>2, <2>3, RestPlain
  <1>3. CASE ~(block = "no" /\ rest[r].status \in CHAT_WRITABLE_STATUSES)
    <2>1. rest' = [rest EXCEPT ![r] = NoRequest]
      BY <1>3 DEF RestChecks
    <2> QED BY <1>1, <2>1, NoRequestFits, RestPlain
  <1> QED BY <1>2, <1>3

LEMMA RestSavesKeeps ==
  ASSUME ChatInv, NEW r \in Requests, RestSaves(r)
  PROVE  ChatInv'
  <1>1. /\ rest[r].pc = "save" /\ rest[r] \in Request /\ Fitting(rest[r])
        /\ rest' = [rest EXCEPT ![r] = NoRequest]
        /\ Stored("rest", rest[r].began, FALSE)
        /\ UNCHANGED <<conn, counter, status, block, lapsed>>
    BY DEF RestSaves, ChatInv, TypeOK
  <1>2. /\ rest' \in [Requests -> Request] /\ rest'[r] = NoRequest
        /\ \A p \in Requests \ {r} : rest'[p] = rest[p]
        /\ (\A d \in Conns : Proper(conn[d]))' /\ (\A p \in Requests : Fitting(rest[p]))'
        /\ StatusInv' /\ (past'.leaks = past.leaks => CounterMatches')
    BY <1>1, NoRequestFits, RestKeeps
  <1>3. ~rest[r].began /\ rest[r].began \in BOOLEAN /\ rest[r].status \in CHAT_WRITABLE_STATUSES
    BY <1>1 DEF Fitting, Request
  <1>4. r \in UnderWay /\ UnderWay' \subseteq UnderWay \ {r}
    BY <1>1, <1>2, <1>3, NoRequestFits, BoundsAssumption DEF UnderWay
  <1>5. /\ past' \in [leaks : 0..MaxLeaks, due : Int,
                      across : SUBSET ({"socket", "rest"} \X Statuses \X BOOLEAN)]
        /\ past'.leaks = past.leaks
        /\ DueInv' /\ BlockedApart'
    BY <1>1, <1>3, <1>4, StoredKeeps
  <1>6. TypeOK'
    BY <1>1, <1>2, <1>5 DEF ChatInv, TypeOK
  <1> QED BY <1>2, <1>5, <1>6 DEF ChatInv

-----------------------------------------------------------------------------
(* What happens around the chat. *)

LEMMA ExpiresKeeps ==
  ASSUME ChatInv, Expires
  PROVE  ChatInv'
  <1>1. TypeOK' /\ CounterMatches'
    BY DEF ChatInv, TypeOK, Expires, CounterMatches
  <1>2. /\ (\A c \in Conns : Proper(conn[c]))' /\ (\A r \in Requests : Fitting(rest[r]))'
        /\ StatusInv' /\ DueInv' /\ BlockedApart'
    BY DEF ChatInv, Expires, Proper, Fitting, StatusInv, DueInv, UnderWay, BlockedApart
  <1> QED BY <1>1, <1>2 DEF ChatInv

LEMMA ServerDiesKeeps ==
  ASSUME ChatInv, ServerDies
  PROVE  ChatInv'
  <1>1. /\ \A c \in Conns : conn'[c] = NoConn
        /\ conn' \in [Conns -> Connection]
        /\ Leaked(Cardinality(Occupants))
        /\ UNCHANGED <<counter, rest, status, block, lapsed>>
    BY DEF ServerDies, NoConn, Connection, Places, Occupants
  <1>2. /\ past' \in [leaks : 0..MaxLeaks, due : Int,
                      across : SUBSET ({"socket", "rest"} \X Statuses \X BOOLEAN)]
        /\ past'.leaks = past.leaks + Cardinality(Occupants)
        /\ past'.due = past.due /\ past'.across = past.across
    BY <1>1, Finite, BoundsAssumption DEF Leaked, ChatInv, TypeOK
  <1>3. TypeOK' /\ BlockedApart'
    BY <1>1, <1>2 DEF ChatInv, TypeOK, BlockedApart
  <1>4. /\ (\A c \in Conns : Proper(conn[c]))' /\ (\A r \in Requests : Fitting(rest[r]))'
        /\ StatusInv'
    <2>1. (\A c \in Conns : Proper(conn[c]))'
      <3> SUFFICES ASSUME NEW c \in Conns PROVE Proper(conn[c])'
        OBVIOUS
      <3>1. conn'[c] = NoConn
        BY <1>1
      <3>2. /\ conn'[c].pc = "none" /\ ~conn'[c].authed /\ ~conn'[c].counted
            /\ ~conn'[c].joined /\ ~conn'[c].barred /\ ~conn'[c].began
        BY <3>1 DEF NoConn
      <3>3. conn'[c].counted = conn'[c].authed
        BY <3>1 DEF NoConn
      <3> QED BY <3>2, <3>3 DEF Proper
    <2>2. (\A r \in Requests : Fitting(rest[r]))'
      BY <1>1 DEF ChatInv, Fitting
    <2>3. StatusInv'
      BY <1>1 DEF ChatInv, StatusInv
    <2> QED BY <2>1, <2>2, <2>3
  <1>5. DueInv'
    <2>1. UnderWay' \subseteq UnderWay
      BY <1>1 DEF UnderWay, NoConn
    <2>2. Cardinality(UnderWay') <= Cardinality(UnderWay) /\ Cardinality(UnderWay') \in Nat
      BY <2>1, Finite, FS_Subset, FS_CardinalityType
    <2> QED BY <1>1, <1>2, <2>2, Finite DEF ChatInv, DueInv, TypeOK
  <1>6. CounterMatches'
    <2>1. Occupants' = {} /\ Members' = {}
      BY <1>1 DEF Occupants, Members, Occupies, LetIn, NoConn
    <2>2. Cardinality(Occupants') = 0 /\ Cardinality(Members') = 0
      BY <2>1, FS_EmptySet
    <2>3. ~lapsed => Count(counter) = past'.leaks
      BY <1>2, Counted, Finite DEF ChatInv, TypeOK
    <2> QED BY <1>1, <1>2, <2>2, <2>3, BoundsAssumption
            DEF CounterMatches, Count, Occupants, Members
  <1> QED BY <1>3, <1>4, <1>5, <1>6 DEF ChatInv

\* Another status that the exchange can have: what is under way when the chat is locked is due.
LEMMA MovesToKeeps ==
  ASSUME ChatInv, NEW st \in CHAT_ELIGIBLE_STATUSES \cup {"cancelled"}, MovesTo(st),
         status \notin CHAT_WRITABLE_STATUSES => st \notin CHAT_WRITABLE_STATUSES,
         UNCHANGED <<conn, counter, rest, lapsed>>
  PROVE  /\ status' = st /\ status' \in Statuses
         /\ past' \in [leaks : 0..MaxLeaks, due : Int,
                       across : SUBSET ({"socket", "rest"} \X Statuses \X BOOLEAN)]
         /\ DueInv' /\ BlockedApart' /\ CounterMatches'
  <1>1. status' = st /\ st \in Statuses
    BY DEF MovesTo, Statuses, CHAT_ELIGIBLE_STATUSES
  <1>2. UnderWay' = UnderWay
    BY DEF UnderWay
  <1>3. /\ past' \in [leaks : 0..MaxLeaks, due : Int,
                      across : SUBSET ({"socket", "rest"} \X Statuses \X BOOLEAN)]
        /\ past'.leaks = past.leaks /\ past'.across = past.across
        /\ past'.due = IF status \in CHAT_WRITABLE_STATUSES /\ st \notin CHAT_WRITABLE_STATUSES
                       THEN Cardinality(UnderWay) ELSE past.due
    BY Finite DEF MovesTo, ChatInv, TypeOK
  <1>4. DueInv'
    BY <1>1, <1>2, <1>3, Finite DEF ChatInv, DueInv
  <1>5. BlockedApart' /\ CounterMatches'
    BY <1>3 DEF ChatInv, BlockedApart, CounterMatches, Occupies, LetIn
  <1> QED BY <1>1, <1>3, <1>4, <1>5

LEMMA ExchangeMovesKeeps ==
  ASSUME ChatInv, ExchangeMoves
  PROVE  ChatInv'
  <1>1. PICK st \in VALID_TRANSITIONS[status] : MovesTo(st)
    BY DEF ExchangeMoves
  <1>2. /\ status \in CHAT_ELIGIBLE_STATUSES \cup {"cancelled"} /\ status \in Statuses
        /\ block = "done" => status # "active"
    BY DEF ChatInv, StatusInv, TypeOK
  <1>3. /\ st \in CHAT_ELIGIBLE_STATUSES \cup {"cancelled"}
        /\ status \notin CHAT_WRITABLE_STATUSES => st \notin CHAT_WRITABLE_STATUSES
        /\ st # "active"
    BY <1>2 DEF VALID_TRANSITIONS, CHAT_ELIGIBLE_STATUSES, CHAT_WRITABLE_STATUSES
  <1>4. UNCHANGED <<conn, counter, rest, block, lapsed>>
    BY DEF ExchangeMoves
  <1>5. /\ status' = st /\ status' \in Statuses
        /\ past' \in [leaks : 0..MaxLeaks, due : Int,
                      across : SUBSET ({"socket", "rest"} \X Statuses \X BOOLEAN)]
        /\ DueInv' /\ BlockedApart' /\ CounterMatches'
    BY <1>1, <1>3, <1>4, MovesToKeeps
  <1>6. TypeOK' /\ StatusInv'
    BY <1>3, <1>4, <1>5 DEF ChatInv, TypeOK, StatusInv
  <1>7. (\A c \in Conns : Proper(conn[c]))' /\ (\A r \in Requests : Fitting(rest[r]))'
    BY <1>4 DEF ChatInv, Proper, Fitting
  <1> QED BY <1>5, <1>6, <1>7 DEF ChatInv

LEMMA BlockCommitsKeeps ==
  ASSUME ChatInv, BlockCommits
  PROVE  ChatInv'
  <1>1. /\ block = "no" /\ block' = "committed"
        /\ UNCHANGED <<conn, counter, rest, status, past, lapsed>>
    BY DEF BlockCommits
  <1>2. TypeOK' /\ StatusInv' /\ DueInv' /\ BlockedApart' /\ CounterMatches'
    BY <1>1 DEF ChatInv, TypeOK, StatusInv, DueInv, UnderWay, BlockedApart, CounterMatches,
                Occupies, LetIn
  <1>3. (\A c \in Conns : Proper(conn[c]))' /\ (\A r \in Requests : Fitting(rest[r]))'
    BY <1>1 DEF ChatInv, Proper, Fitting
  <1> QED BY <1>2, <1>3 DEF ChatInv

LEMMA BlockCancelsKeeps ==
  ASSUME ChatInv, BlockCancels
  PROVE  ChatInv'
  <1> DEFINE st == IF status \in Cancelable THEN "cancelled" ELSE status
  <1>1. /\ block = "committed" /\ block' = "done" /\ MovesTo(st)
        /\ UNCHANGED <<conn, counter, rest, lapsed>>
    BY DEF BlockCancels
  <1>2. /\ st \in CHAT_ELIGIBLE_STATUSES \cup {"cancelled"} /\ st # "active"
        /\ status \notin CHAT_WRITABLE_STATUSES => st \notin CHAT_WRITABLE_STATUSES
    BY DEF ChatInv, StatusInv, Cancelable, CHAT_WRITABLE_STATUSES
  <1> HIDE DEF st
  <1>3. /\ status' = st /\ status' \in Statuses
        /\ past' \in [leaks : 0..MaxLeaks, due : Int,
                      across : SUBSET ({"socket", "rest"} \X Statuses \X BOOLEAN)]
        /\ DueInv' /\ BlockedApart' /\ CounterMatches'
    BY <1>1, <1>2, MovesToKeeps
  <1>4. TypeOK' /\ StatusInv'
    BY <1>1, <1>2, <1>3 DEF ChatInv, TypeOK, StatusInv
  <1>5. (\A c \in Conns : Proper(conn[c]))' /\ (\A r \in Requests : Fitting(rest[r]))'
    BY <1>1 DEF ChatInv, Proper, Fitting
  <1> QED BY <1>3, <1>4, <1>5 DEF ChatInv

LEMMA UnblocksKeeps ==
  ASSUME ChatInv, Unblocks
  PROVE  ChatInv'
  <1>1. /\ block' = "no" /\ UNCHANGED <<counter, status, past, lapsed>>
        /\ \A c \in Conns : conn'[c] = [conn[c] EXCEPT !.barred = FALSE, !.began = FALSE]
        /\ \A r \in Requests : rest'[r] = [rest[r] EXCEPT !.began = FALSE]
        /\ conn' = [c \in Conns |-> conn'[c]] /\ rest' = [r \in Requests |-> rest'[r]]
    BY DEF Unblocks
  <1>2. ASSUME NEW c \in Conns
        PROVE  /\ conn'[c] \in Connection /\ ~conn'[c].barred /\ ~conn'[c].began
               /\ conn'[c].pc = conn[c].pc /\ conn'[c].counted = conn[c].counted
               /\ conn'[c].authed = conn[c].authed /\ conn'[c].joined = conn[c].joined
    <2>1. conn[c] \in Connection
      BY DEF ChatInv, TypeOK
    <2>2. conn'[c] = [conn[c] EXCEPT !.barred = FALSE, !.began = FALSE]
      BY <1>1
    <2>3. conn'[c] \in Connection
      BY <2>1, <2>2 DEF Connection
    <2>4. ~conn'[c].barred /\ ~conn'[c].began
      BY <2>1, <2>2 DEF Connection
    <2>5. conn'[c].pc = conn[c].pc
      BY <2>1, <2>2 DEF Connection
    <2>6. conn'[c].counted = conn[c].counted
      BY <2>1, <2>2 DEF Connection
    <2>7. conn'[c].authed = conn[c].authed
      BY <2>1, <2>2 DEF Connection
    <2>8. conn'[c].joined = conn[c].joined
      BY <2>1, <2>2 DEF Connection
    <2> QED BY <2>3, <2>4, <2>5, <2>6, <2>7, <2>8
  <1>3. ASSUME NEW r \in Requests
        PROVE  /\ rest'[r] \in Request /\ ~rest'[r].began
               /\ rest'[r].pc = rest[r].pc /\ rest'[r].status = rest[r].status
    <2>1. rest[r] \in Request
      BY DEF ChatInv, TypeOK
    <2>2. rest'[r] = [rest[r] EXCEPT !.began = FALSE]
      BY <1>1
    <2>3. rest'[r] \in Request
      BY <2>1, <2>2 DEF Request
    <2>4. /\ ~rest'[r].began
          /\ rest'[r].pc = rest[r].pc /\ rest'[r].status = rest[r].status
      BY <2>1, <2>2 DEF Request
    <2> QED BY <2>3, <2>4
  <1>4. TypeOK'
    BY <1>1, <1>2, <1>3 DEF ChatInv, TypeOK
  <1>5. (\A c \in Conns : Proper(conn[c]))'
    BY <1>2 DEF ChatInv, Proper
  <1>6. (\A r \in Requests : Fitting(rest[r]))'
    BY <1>3 DEF ChatInv, Fitting
  <1>7. StatusInv' /\ BlockedApart'
    BY <1>1 DEF ChatInv, StatusInv, BlockedApart
  <1>8. UnderWay' = UnderWay
    BY <1>2, <1>3 DEF UnderWay
  <1>9. DueInv'
    BY <1>1, <1>8 DEF ChatInv, DueInv
  <1>10. Occupants' = Occupants /\ Members' = Members
    BY <1>2 DEF Occupants, Members, Occupies, LetIn
  <1>11. CounterMatches'
    BY <1>1, <1>10 DEF ChatInv, CounterMatches, Occupants, Members
  <1> QED BY <1>4, <1>5, <1>6, <1>7, <1>9, <1>11 DEF ChatInv

-----------------------------------------------------------------------------
(* The theorems. *)

LEMMA ChatInit == Init => ChatInv
  <1> SUFFICES ASSUME Init PROVE ChatInv
    OBVIOUS
  <1>1. /\ \A c \in Conns : conn[c] = NoConn
        /\ conn \in [Conns -> Connection] /\ rest \in [Requests -> Request]
        /\ \A r \in Requests : rest[r] = NoRequest
    BY NoRequestFits DEF Init, NoConn, Connection, Places
  <1>2. /\ past.leaks = 0 /\ past.due = 0 /\ past.across = {}
        /\ past \in [leaks : 0..MaxLeaks, due : Int,
                     across : SUBSET ({"socket", "rest"} \X Statuses \X BOOLEAN)]
    BY BoundsAssumption DEF Init
  <1>3. TypeOK /\ BlockedApart
    <2>1. conn \in [Conns -> Connection] /\ rest \in [Requests -> Request]
      BY <1>1
    <2>2. counter = None /\ status = "active" /\ block = "no" /\ lapsed = FALSE
      BY DEF Init
    <2>3. counter \in Int \cup {None} /\ block \in {"no", "committed", "done"}
      BY <2>2
    <2>4. status \in Statuses
      BY <2>2 DEF Statuses
    <2>5. lapsed \in BOOLEAN
      BY <2>2
    <2>6. TypeOK
      BY <2>1, <2>3, <2>4, <2>5, <1>2 DEF TypeOK
    <2>7. BlockedApart
      BY <1>2 DEF BlockedApart
    <2> QED BY <2>6, <2>7
  <1>4. (\A c \in Conns : Proper(conn[c])) /\ (\A r \in Requests : Fitting(rest[r]))
    <2>1. Proper(NoConn)
      <3>1. /\ NoConn.pc = "none" /\ ~NoConn.authed /\ ~NoConn.counted
            /\ ~NoConn.joined /\ ~NoConn.barred /\ ~NoConn.began
        BY DEF NoConn
      <3>2. NoConn.counted = NoConn.authed
        BY DEF NoConn
      <3> QED BY <3>1, <3>2 DEF Proper
    <2>2. \A c \in Conns : Proper(conn[c])
      BY <1>1, <2>1
    <2>3. \A r \in Requests : Fitting(rest[r])
      BY <1>1, NoRequestFits
    <2> QED BY <2>2, <2>3
  <1>5. StatusInv /\ DueInv
    BY <1>2 DEF Init, StatusInv, DueInv, CHAT_ELIGIBLE_STATUSES, CHAT_WRITABLE_STATUSES
  <1>6. Occupants = {} /\ Members = {}
    BY <1>1 DEF Occupants, Members, Occupies, LetIn, NoConn
  <1>7. Cardinality(Occupants) = 0 /\ Cardinality(Members) = 0
    BY <1>6, FS_EmptySet
  <1>8. CounterMatches
    BY <1>2, <1>7, BoundsAssumption DEF Init, CounterMatches, Occupants, Members
  <1> QED BY <1>3, <1>4, <1>5, <1>8 DEF ChatInv

LEMMA ChatStep == ChatInv /\ [Next]_vars => ChatInv'
  <1> SUFFICES ASSUME ChatInv, [Next]_vars PROVE ChatInv'
    OBVIOUS
  <1>1. ASSUME NEW c \in Conns, Consumer(c) PROVE ChatInv'
    BY <1>1, IncrementsKeeps, SetsKeeps, RefusedKeeps, DeletesKeeps, TokenRefusedKeeps,
       ExchangeReadKeeps, JoinsKeeps, RefusesFrameKeeps, SavesMessageKeeps, ForwardsEventKeeps,
       DisconnectsKeeps DEF Consumer
  <1>2. ASSUME NEW c \in Conns,
               Connects(c) \/ Authenticates(c) \/ AuthTimeout(c) \/ SendsFrame(c) \/ ClientLeaves(c)
        PROVE  ChatInv'
    BY <1>2, ConnectsKeeps, AuthenticatesKeeps, ClosesKeeps, SendsFrameKeeps
  <1>3. ASSUME NEW r \in Requests, RestReads(r) \/ RestChecks(r) \/ RestSaves(r)
        PROVE  ChatInv'
    BY <1>3, RestReadsKeeps, RestChecksKeeps, RestSavesKeeps
  <1>4. CASE Expires \/ ServerDies \/ ExchangeMoves \/ BlockCommits \/ BlockCancels \/ Unblocks
    BY <1>4, ExpiresKeeps, ServerDiesKeeps, ExchangeMovesKeeps, BlockCommitsKeeps,
       BlockCancelsKeeps, UnblocksKeeps
  <1>5. CASE UNCHANGED vars
    <2>1. TypeOK' /\ StatusInv' /\ DueInv' /\ BlockedApart' /\ CounterMatches'
      BY <1>5 DEF vars, ChatInv, TypeOK, StatusInv, DueInv, UnderWay, BlockedApart,
                  CounterMatches, Occupies, LetIn
    <2>2. (\A c \in Conns : Proper(conn[c]))' /\ (\A r \in Requests : Fitting(rest[r]))'
      BY <1>5 DEF vars, ChatInv, Proper, Fitting
    <2> QED BY <2>1, <2>2 DEF ChatInv
  <1> QED BY <1>1, <1>2, <1>3, <1>4, <1>5 DEF Next

\* The strengthened invariant: what every consumer and request relies on between two awaits.
THEOREM ChatInvariant == Spec => []ChatInv
  BY ChatInit, ChatStep, PTL DEF Spec

\* The counter of a user's connections: until its key lapses it counts those that are let in
\* or being refused, and the slots that were lost, so the limit is kept.
\* (_incr_ws_count, _decr_ws_count)
THEOREM CounterIsRight == Spec => []CounterMatches
  <1>1. ChatInv => CounterMatches
    BY DEF ChatInv
  <1> QED BY <1>1, ChatInvariant, PTL

\* An ended chat takes no more messages than were under way, and a blocked one only those of
\* connections that had joined an exchange whose swap was confirmed.
\* (_refresh_read_only, post_authenticate, MessageViewSet)
THEOREM MessagesDoStop == Spec => []MessagesStop
  <1>1. ChatInv => MessagesStop
    BY DEF ChatInv, DueInv, MessagesStop, EndedChatIsQuiet
  <1> QED BY <1>1, ChatInvariant, PTL

=============================================================================

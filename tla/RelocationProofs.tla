------------------------- MODULE RelocationProofs -------------------------
(***************************************************************************)
(* TLAPS proofs about Central's chat table, for any number of rooms, users *)
(* and servers and any delay lists: type correctness, and, while no user   *)
(* is in two chats, that the sweep reads current records and skips at most *)
(* one chat per re-route.  As in ChatTable, store calls do not overlap.    *)
(*                                                                         *)
(* The composition with the clients implements the chat table: what        *)
(* clients do (join, follow redirects, quit) never reaches past the        *)
(* redirect connections, so the table's theorems hold of the whole.        *)
(***************************************************************************)
EXTENDS Relocation, FiniteSetTheorems, WellFoundedInduction, TLAPS

\* Two different rooms have no user in common.
DisjointChats ==
  \A q, r \in Room :
    (\E j, k \in 1..2 : Users[q][j] = Users[r][k]) => q = r

\* A slice over a set of cells.
Slice(C) == {s \in [cells : Seq(C), len : Nat] : s.len <= Len(s.cells)}
----------------------------------------------------------------------------
\* append writes the new element after the last one and leaves the rest.
LEMMA InsertProperties ==
  ASSUME NEW C, ZeroInstance \in C, NEW slice \in Slice(C), NEW x \in C
  PROVE  LET t == InsertChatInstance(slice, x)
         IN  /\ t \in Slice(C)
             /\ t.len = slice.len + 1
             /\ t.cells[t.len] = x
             /\ Len(slice.cells) <= Len(t.cells)
             /\ ~Reallocates(slice) => Len(t.cells) = Len(slice.cells)
             /\ \A k \in 1..Len(slice.cells) :
                  k # t.len => t.cells[k] = slice.cells[k]
  <1> DEFINE t == InsertChatInstance(slice, x)
             cap == CapacityAfterAppend(slice)
  <1>1. slice.cells \in Seq(C) /\ slice.len \in Nat /\ Len(slice.cells) \in Nat
          /\ slice.len <= Len(slice.cells)
    BY DEF Slice
  <1>2. /\ cap \in Nat
        /\ slice.len + 1 <= cap
        /\ Len(slice.cells) <= cap
        /\ ~Reallocates(slice) => cap = Len(slice.cells)
    BY <1>1 DEF CapacityAfterAppend, Reallocates
  <1>3. /\ t.cells = [k \in 1..cap |->
                IF k = slice.len + 1 THEN x
                ELSE IF k <= Len(slice.cells) THEN slice.cells[k]
                ELSE ZeroInstance]
        /\ t.len = slice.len + 1
        /\ t = [cells |-> t.cells, len |-> t.len]
    BY DEF InsertChatInstance
  <1> HIDE DEF t, cap
  <1>4. \A k \in 1..cap : t.cells[k] \in C
    <2> TAKE k \in 1..cap
    <2>1. k <= Len(slice.cells) => slice.cells[k] \in C
      BY <1>1, <1>2
    <2> QED
      BY <2>1, <1>3
  <1>5. t.cells \in Seq(C) /\ Len(t.cells) = cap
    BY <1>2, <1>3, <1>4
  <1>6. t \in Slice(C)
    BY <1>1, <1>2, <1>3, <1>5 DEF Slice
  <1>7. \A k \in 1..Len(slice.cells) : k # t.len => t.cells[k] = slice.cells[k]
    BY <1>1, <1>2, <1>3
  <1>8. t.cells[t.len] = x
    BY <1>1, <1>2, <1>3
  <1> QED
    BY <1>2, <1>3, <1>5, <1>6, <1>7, <1>8 DEF t

\* A non-empty set of naturals has a least element.
LEMMA LeastElement ==
  ASSUME NEW T, T \subseteq Nat, T # {}
  PROVE  \E i \in T : \A j \in T : i <= j
  <1>1. PICK i \in T : \A j \in T : ~(<<j, i>> \in OpToRel(<, Nat))
    BY NatLessThanWellFounded, WFMin
  <1>2. \A j \in T : <<j, i>> \in Nat \X Nat
    OBVIOUS
  <1>3. \A j \in T : ~(j < i)
    BY <1>1, <1>2, Zenon DEF OpToRel
  <1>4. \A j \in T : i <= j
    BY <1>3
  <1> QED
    BY <1>4

\* RemoveChatInstancesForUser closes the gap of one entry that has the user,
\* or does nothing when there is none.
LEMMA RemoveProperties ==
  ASSUME NEW C, NEW slice \in Slice(C), NEW user
  PROVE  LET t == RemoveChatInstancesForUser(slice, user)
         IN  /\ t \in Slice(C)
             /\ Len(t.cells) = Len(slice.cells)
             /\ PositionsOf(slice, user) = {} => t = slice
             /\ PositionsOf(slice, user) # {} =>
                  \E i \in PositionsOf(slice, user) :
                    /\ t.len = slice.len - 1
                    /\ \A k \in 1..Len(slice.cells) :
                         t.cells[k] = IF i <= k /\ k < slice.len
                                        THEN slice.cells[k + 1]
                                        ELSE slice.cells[k]
  <1> DEFINE t == RemoveChatInstancesForUser(slice, user)
             P == PositionsOf(slice, user)
  <1>1. slice.cells \in Seq(C) /\ slice.len \in Nat /\ Len(slice.cells) \in Nat
          /\ slice.len <= Len(slice.cells)
    BY DEF Slice
  <1>2. P \subseteq 1..slice.len
    BY DEF PositionsOf
  <1>3. CASE P = {}
    BY <1>3 DEF RemoveChatInstancesForUser
  <1>4. CASE P # {}
    <2>1. P \subseteq Nat
      BY <1>1, <1>2
    <2>2. \E i \in P : \A j \in P : i <= j
      BY <1>4, <2>1, LeastElement
    <2> DEFINE i == CHOOSE k \in P : \A j \in P : k <= j
    <2>3. i \in P
      BY <2>2
    <2>4. t = RemoveAt(slice, i)
      BY <1>4 DEF RemoveChatInstancesForUser
    <2> HIDE DEF i, P
    <2>5. /\ t.cells = [k \in 1..Len(slice.cells) |->
                IF i <= k /\ k < slice.len THEN slice.cells[k + 1]
                                           ELSE slice.cells[k]]
          /\ t.len = slice.len - 1
          /\ t = [cells |-> t.cells, len |-> t.len]
      BY <2>4 DEF RemoveAt
    <2> HIDE DEF t
    <2>6. i \in 1..slice.len
      BY <2>3, <1>2
    <2>7. \A k \in 1..Len(slice.cells) : t.cells[k] \in C
      BY <1>1, <2>5, <2>6
    <2>8. t.cells \in Seq(C) /\ Len(t.cells) = Len(slice.cells)
      BY <1>1, <2>5, <2>7
    <2>9. t \in Slice(C)
      <3>1. t.len \in Nat /\ t.len <= Len(t.cells)
        BY <1>1, <2>5, <2>6, <2>8
      <3>2. t \in [cells : Seq(C), len : Nat]
        BY <2>5, <2>8, <3>1
      <3> QED
        BY <3>1, <3>2 DEF Slice
    <2> QED
      BY <1>4, <2>3, <2>5, <2>8, <2>9 DEF t, P
  <1> QED
    BY <1>3, <1>4
----------------------------------------------------------------------------
LEMMA TableIsSlice ==
  ASSUME TableOK
  PROVE  chatInstances \in Slice(Cell) /\ ZeroInstance \in Cell
  BY DEF TableOK, Slice, Cell

\* The server selection only returns servers.
LEMMA CandidatesAreServers ==
  ASSUME HandlersOK, NEW u1 \in User, NEW u2 \in User
  PROVE  Candidates(u1, u2) \subseteq Server
  <1>1. CASE delayLists[u1] = None \/ delayLists[u2] = None
    BY <1>1 DEF Candidates
  <1>2. CASE delayLists[u1] # None /\ delayLists[u2] # None
    <2>1. delayLists[u1] \in DelayList
      BY <1>2 DEF HandlersOK
    <2>2. DOMAIN delayLists[u1] \subseteq Server
      BY <2>1 DEF DelayList
    <2> QED
      BY <1>2, <2>2 DEF Candidates, OptimalServers, Common
  <1> QED
    BY <1>1, <1>2

\* The users of a record are users.
LEMMA RecordUsers ==
  ASSUME NEW x \in Record
  PROVE  /\ x.room \in Room
         /\ x.users = Users[x.room]
         /\ x.users[1] \in User /\ x.users[2] \in User
  BY UsersAssumption DEF Record

\* What an insertion does to the table: one more record, at the end.
LEMMA TableInsert ==
  ASSUME TableOK, NEW x \in Record,
         chatInstances' = InsertChatInstance(chatInstances, x)
  PROVE  /\ TableOK'
         /\ chatInstances'.len = chatInstances.len + 1
         /\ chatInstances'.cells[chatInstances'.len] = x
         /\ \A k \in 1..chatInstances.len :
              chatInstances'.cells[k] = chatInstances.cells[k]
  <1>1. x \in Cell
    BY DEF Cell
  <1>2. /\ chatInstances' \in Slice(Cell)
        /\ chatInstances'.len = chatInstances.len + 1
        /\ chatInstances'.cells[chatInstances'.len] = x
        /\ \A k \in 1..Len(chatInstances.cells) :
             k # chatInstances'.len => chatInstances'.cells[k] = chatInstances.cells[k]
    BY <1>1, TableIsSlice, InsertProperties
  <1>3. /\ chatInstances.len \in Nat
        /\ Len(chatInstances.cells) \in Nat
        /\ chatInstances.len <= Len(chatInstances.cells)
    BY DEF TableOK
  <1>4. \A k \in 1..chatInstances.len :
          chatInstances'.cells[k] = chatInstances.cells[k]
    BY <1>2, <1>3
  <1>5. \A k \in 1..chatInstances'.len : chatInstances'.cells[k] \in Record
    <2> TAKE k \in 1..chatInstances'.len
    <2>1. k = chatInstances'.len \/ k \in 1..chatInstances.len
      BY <1>2, <1>3
    <2> QED
      BY <2>1, <1>2, <1>4 DEF TableOK
  <1> QED
    BY <1>2, <1>4, <1>5 DEF TableOK, Slice

\* What an insertion does to the cells the range loop reads: the new record
\* may appear among them, the others stay.
LEMMA WindowInsert ==
  ASSUME TableOK, SweepOK, WindowOK, sweep.pc # "wait", NEW x \in Record,
         chatInstances' = InsertChatInstance(chatInstances, x),
         sweep'.aliased = AfterInsert.aliased,
         sweep'.cells = AfterInsert.cells
  PROVE  /\ Len(SweepCells) <= Len(SweepCells')
         /\ \A k \in 1..sweep.len :
              SweepCells'[k] = x \/ SweepCells'[k] = SweepCells[k]
  <1>0. sweep.aliased \in BOOLEAN /\ sweep.len \in Nat
    BY DEF SweepOK, SweepState
  <1>a. x \in Cell /\ chatInstances \in Slice(Cell) /\ ZeroInstance \in Cell
    BY TableIsSlice DEF Cell
  <1>b. /\ Len(chatInstances.cells) <= Len(chatInstances'.cells)
        /\ chatInstances'.cells[chatInstances'.len] = x
        /\ \A k \in 1..Len(chatInstances.cells) :
             k # chatInstances'.len => chatInstances'.cells[k] = chatInstances.cells[k]
    BY <1>a, InsertProperties
  <1>d. Len(chatInstances.cells) \in Nat
    BY DEF TableOK
  <1>c. sweep.len <= Len(SweepCells)
    BY DEF WindowOK
  <1>1. CASE ~sweep.aliased
    <2>1. SweepCells = sweep.cells /\ SweepCells' = sweep.cells
      BY <1>1 DEF SweepCells, AfterInsert
    <2>2. Len(sweep.cells) \in Nat
      BY DEF SweepOK, SweepState
    <2> QED
      BY <2>1, <2>2
  <1>2. CASE sweep.aliased /\ Reallocates(chatInstances)
    <2>1. SweepCells = chatInstances.cells
      BY <1>2 DEF SweepCells
    <2>2. AfterInsert = [sweep EXCEPT !.aliased = FALSE, !.cells = chatInstances.cells]
      BY <1>2 DEF AfterInsert
    <2>3. sweep'.aliased = FALSE /\ sweep'.cells = chatInstances.cells
      BY <2>2 DEF SweepOK, SweepState
    <2>4. SweepCells' = chatInstances.cells
      BY <2>3 DEF SweepCells
    <2> QED
      BY <2>1, <2>4, <1>d
  <1>3. CASE sweep.aliased /\ ~Reallocates(chatInstances)
    <2>1. SweepCells = chatInstances.cells /\ SweepCells' = chatInstances'.cells
      BY <1>3 DEF SweepCells, AfterInsert
    <2>2. \A k \in 1..sweep.len : k \in 1..Len(chatInstances.cells)
      BY <1>0, <1>c, <1>d, <2>1
    <2> QED
      BY <2>1, <2>2, <1>b
  <1> QED
    BY <1>0, <1>1, <1>2, <1>3

\* What a removal does to the table and to the cells the range loop reads:
\* nothing, or the entry of one record with the user is closed up.
LEMMA TableRemove ==
  ASSUME TableOK, NEW user,
         chatInstances' = RemoveChatInstancesForUser(chatInstances, user)
  PROVE  /\ TableOK'
         /\ Len(chatInstances'.cells) = Len(chatInstances.cells)
         /\ PositionsOf(chatInstances, user) = {} => UNCHANGED chatInstances
         /\ PositionsOf(chatInstances, user) # {} =>
              \E i \in PositionsOf(chatInstances, user) :
                /\ chatInstances'.len = chatInstances.len - 1
                /\ \A k \in 1..Len(chatInstances.cells) :
                     chatInstances'.cells[k] =
                       IF i <= k /\ k < chatInstances.len
                         THEN chatInstances.cells[k + 1]
                         ELSE chatInstances.cells[k]
  <1>1. /\ chatInstances' \in Slice(Cell)
        /\ Len(chatInstances'.cells) = Len(chatInstances.cells)
        /\ PositionsOf(chatInstances, user) = {} => UNCHANGED chatInstances
        /\ PositionsOf(chatInstances, user) # {} =>
             \E i \in PositionsOf(chatInstances, user) :
               /\ chatInstances'.len = chatInstances.len - 1
               /\ \A k \in 1..Len(chatInstances.cells) :
                    chatInstances'.cells[k] =
                      IF i <= k /\ k < chatInstances.len
                        THEN chatInstances.cells[k + 1]
                        ELSE chatInstances.cells[k]
    BY TableIsSlice, RemoveProperties
  <1>2. \A k \in 1..chatInstances'.len : chatInstances'.cells[k] \in Record
    <2>1. CASE PositionsOf(chatInstances, user) = {}
      BY <1>1, <2>1 DEF TableOK
    <2>2. CASE PositionsOf(chatInstances, user) # {}
      <3>1. /\ chatInstances.len \in Nat
            /\ Len(chatInstances.cells) \in Nat
            /\ chatInstances.len <= Len(chatInstances.cells)
        BY DEF TableOK
      <3> QED
        BY <1>1, <2>2, <3>1 DEF TableOK
    <2> QED
      BY <2>1, <2>2
  <1> QED
    BY <1>1, <1>2 DEF TableOK, Slice

LEMMA WindowRemove ==
  ASSUME TableOK, SweepOK, WindowOK, sweep.pc # "wait", NEW user,
         chatInstances' = RemoveChatInstancesForUser(chatInstances, user),
         sweep'.aliased = sweep.aliased, sweep'.cells = sweep.cells
  PROVE  /\ Len(SweepCells') = Len(SweepCells)
         /\ \A k \in 1..sweep.len :
              \/ SweepCells'[k] = SweepCells[k]
              \/ \E j \in 1..chatInstances.len : SweepCells'[k] = chatInstances.cells[j]
  <1>0. /\ sweep.aliased \in BOOLEAN /\ sweep.len \in Nat
        /\ chatInstances.len \in Nat
        /\ Len(chatInstances.cells) \in Nat
        /\ sweep.len <= Len(SweepCells)
    BY DEF SweepOK, SweepState, TableOK, WindowOK
  <1>1. CASE ~sweep.aliased
    BY <1>1 DEF SweepCells
  <1>2. CASE sweep.aliased
    <2>1. SweepCells = chatInstances.cells /\ SweepCells' = chatInstances'.cells
      BY <1>2 DEF SweepCells
    <2>2. CASE PositionsOf(chatInstances, user) = {}
      BY <2>1, <2>2, TableRemove
    <2>3. CASE PositionsOf(chatInstances, user) # {}
      <3>1. PICK i \in PositionsOf(chatInstances, user) :
              \A k \in 1..Len(chatInstances.cells) :
                chatInstances'.cells[k] =
                  IF i <= k /\ k < chatInstances.len
                    THEN chatInstances.cells[k + 1]
                    ELSE chatInstances.cells[k]
        BY <2>3, TableRemove
      <3>2. \A k \in 1..sweep.len : k \in 1..Len(chatInstances.cells)
        BY <1>0, <2>1
      <3>3. ASSUME NEW k \in 1..sweep.len, i <= k, k < chatInstances.len
            PROVE  /\ k + 1 \in 1..chatInstances.len
                   /\ chatInstances'.cells[k] = chatInstances.cells[k + 1]
        BY <1>0, <3>1, <3>2, <3>3
      <3>4. Len(chatInstances'.cells) = Len(chatInstances.cells)
        BY TableRemove
      <3>5. ASSUME NEW k \in 1..sweep.len
            PROVE  \/ SweepCells'[k] = SweepCells[k]
                   \/ \E j \in 1..chatInstances.len :
                        SweepCells'[k] = chatInstances.cells[j]
        <4>1. CASE i <= k /\ k < chatInstances.len
          BY <4>1, <3>3, <2>1
        <4>2. CASE ~(i <= k /\ k < chatInstances.len)
          BY <4>2, <3>1, <3>2, <2>1
        <4> QED
          BY <4>1, <4>2
      <3> QED
        BY <2>1, <3>4, <3>5
    <2> QED
      BY <2>2, <2>3
  <1> QED
    BY <1>0, <1>1, <1>2
----------------------------------------------------------------------------
\* The steps that leave the table and the range loop's view of it alone.
LEMMA WindowSame ==
  ASSUME UNCHANGED <<chatInstances, sweep>>, WindowOK
  PROVE  WindowOK'
  BY DEF WindowOK, SweepCells

\* Every step of Central keeps the table, the handlers and the sweep well
\* typed.
LEMMA TypeOKStep ==
  ASSUME TypeOK, [Next]_tableVars
  PROVE  TypeOK'
  <1> USE DEF TypeOK
  <1>b. ASSUME sweep.pc \in Busy
        PROVE  client1 \in User /\ client2 \in User
    BY <1>b, RecordUsers DEF SweepOK, client1, client2
  <1>1. ASSUME NEW u \in User, NEW list \in Lists[u], UpdateDelayList(u, list)
        PROVE  TypeOK'
    <2>1. list \in DelayList
      BY ListsAssumption
    <2>2. HandlersOK'
      BY <1>1, <2>1, MaxUpdatesAssumption
      DEF HandlersOK, UpdateDelayList, handlerVars
    <2>3. TableOK' /\ SweepOK'
      BY <1>1 DEF UpdateDelayList, TableOK, SweepOK, sweepVars
    <2>4. WindowOK'
      BY <1>1, WindowSame DEF UpdateDelayList, sweepVars
    <2> QED
      BY <2>2, <2>3, <2>4
  <1>2. ASSUME NEW r \in Room, MatchServer(r)
        PROVE  TypeOK'
    <2>1. Candidates(Users[r][1], Users[r][2]) \subseteq Server
      BY UsersAssumption, CandidatesAreServers
    <2>2. HandlersOK'
      BY <1>2, <2>1 DEF HandlersOK, MatchServer, listVars
    <2>3. TableOK' /\ SweepOK'
      BY <1>2 DEF MatchServer, TableOK, SweepOK, sweepVars
    <2>4. WindowOK'
      BY <1>2, WindowSame DEF MatchServer, sweepVars
    <2> QED
      BY <2>2, <2>3, <2>4
  <1>3. ASSUME NEW r \in Room, MatchFails(r)
        PROVE  TypeOK'
    <2>2. HandlersOK'
      BY <1>3 DEF HandlersOK, MatchFails, listVars
    <2>3. TableOK' /\ SweepOK'
      BY <1>3 DEF MatchFails, TableOK, SweepOK, sweepVars
    <2>4. WindowOK'
      BY <1>3, WindowSame DEF MatchFails, sweepVars
    <2> QED
      BY <2>2, <2>3, <2>4
  <1>4. ASSUME NEW r \in Room, InsertMatch(r)
        PROVE  TypeOK'
    <2>1. Instance(r, invited[r]) \in Record
      BY <1>4, UsersAssumption DEF InsertMatch, HandlersOK, Instance, Record
    <2>2. /\ chatInstances' =
               InsertChatInstance(chatInstances, Instance(r, invited[r]))
          /\ sweep' = AfterInsert
          /\ UNCHANGED missing
      BY <1>4 DEF InsertMatch
    <2>3. HandlersOK'
      BY <1>4 DEF HandlersOK, InsertMatch, listVars
    <2>4. TableOK'
      BY <2>1, <2>2, TableInsert
    <2>5. SweepOK' /\ sweep'.pc = sweep.pc /\ sweep'.len = sweep.len
            /\ sweep'.i = sweep.i
      BY <2>2 DEF AfterInsert, SweepOK, SweepState, TableOK
    <2>6. WindowOK'
      <3> SUFFICES ASSUME sweep.pc # "wait"
                   PROVE  WindowOK'
        BY <2>5 DEF WindowOK
      <3>1. /\ Len(SweepCells) <= Len(SweepCells')
            /\ \A k \in 1..sweep.len :
                 \/ SweepCells'[k] = Instance(r, invited[r])
                 \/ SweepCells'[k] = SweepCells[k]
        BY <2>1, <2>2, WindowInsert
      <3>2. sweep.len \in Nat /\ Len(SweepCells) \in Nat /\ Len(SweepCells') \in Nat
        BY <2>4, <2>5 DEF SweepOK, SweepState, TableOK, SweepCells
      <3> QED
        BY <3>1, <3>2, <2>1, <2>5 DEF WindowOK
    <2> QED
      BY <2>3, <2>4, <2>5, <2>6
  <1>5. CASE Tick
    <2>1. /\ sweep' = [IdleSweep EXCEPT !.pc = "loop", !.aliased = TRUE,
                                        !.len = chatInstances.len, !.i = 1]
          /\ missing' = RecordedRooms
          /\ UNCHANGED <<listVars, handlerVars, chatInstances>>
      BY <1>5 DEF Tick
    <2>2. RecordedRooms \subseteq Room
      BY RecordUsers DEF RecordedRooms, TableOK, Entries
    <2>3. sweep' = [pc |-> "loop", aliased |-> TRUE, cells |-> <<>>,
                    len |-> chatInstances.len, i |-> 1,
                    instance |-> NoInstance, serverIP |-> None]
      BY <2>1 DEF IdleSweep
    <2>4. SweepOK'
      <3>1. chatInstances.len \in Nat /\ <<>> \in Seq(Cell)
        BY DEF TableOK
      <3>2. sweep' \in SweepState
        BY <2>3, <3>1 DEF SweepState
      <3>3. sweep'.pc \notin Busy /\ missing' \subseteq Room
        BY <2>1, <2>2, <2>3 DEF Busy
      <3> QED
        BY <3>2, <3>3 DEF SweepOK
    <2>5. SweepCells' = chatInstances.cells
      BY <2>1, <2>3 DEF SweepCells
    <2>6. WindowOK'
      BY <2>3, <2>5 DEF WindowOK, TableOK
    <2> QED
      BY <2>1, <2>4, <2>6 DEF HandlersOK, TableOK, listVars, handlerVars
  <1>6. CASE NextInstance
    <2>1. /\ sweep.pc = "loop"
          /\ sweep.i <= sweep.len
          /\ sweep' = [sweep EXCEPT !.pc = "examine", !.i = sweep.i + 1,
                                    !.instance = SweepCells[sweep.i]]
          /\ missing' \subseteq missing
          /\ UNCHANGED <<listVars, handlerVars, chatInstances>>
      BY <1>6 DEF NextInstance
    <2>2. sweep.i \in Nat /\ sweep.len \in Nat /\ sweep.i >= 1
      BY <2>1 DEF SweepOK, SweepState, WindowOK
    <2>3. SweepCells[sweep.i] \in Record
      BY <2>1, <2>2 DEF WindowOK
    <2>4. SweepOK'
      <3>1. sweep' \in SweepState
        <4>1. /\ sweep \in SweepState
              /\ sweep.i + 1 \in Nat
              /\ SweepCells[sweep.i] \in Record \cup {NoInstance}
              /\ "examine" \in {"wait", "loop"} \cup Busy
          BY <2>2, <2>3 DEF SweepOK, Busy
        <4>2. sweep' = [sweep EXCEPT !.pc = "examine", !.i = sweep.i + 1,
                                     !.instance = SweepCells[sweep.i]]
          BY <2>1
        <4> QED
          BY <4>1, <4>2 DEF SweepState
      <3>2. sweep'.pc = "examine" /\ sweep'.instance \in Record
        BY <2>1, <2>3 DEF SweepOK, SweepState
      <3>3. missing' \subseteq Room
        BY <2>1 DEF SweepOK
      <3> QED
        BY <3>1, <3>2, <3>3 DEF SweepOK
    <2>5. /\ sweep'.aliased = sweep.aliased /\ sweep'.cells = sweep.cells
          /\ sweep'.len = sweep.len /\ sweep'.i = sweep.i + 1
      BY <2>1 DEF SweepOK, SweepState
    <2>6. SweepCells' = SweepCells
      BY <2>1, <2>5 DEF SweepCells
    <2>7. WindowOK'
      BY <2>1, <2>2, <2>5, <2>6 DEF WindowOK
    <2> QED
      BY <2>1, <2>4, <2>7 DEF HandlersOK, TableOK, listVars, handlerVars
  <1>7. CASE EndSweep
    <2>1. /\ sweep' = IdleSweep
          /\ UNCHANGED <<listVars, handlerVars, chatInstances, missing>>
      BY <1>7 DEF EndSweep
    <2>2. SweepOK' /\ WindowOK'
      BY <2>1 DEF IdleSweep, SweepOK, SweepState, WindowOK, Busy
    <2> QED
      BY <2>1, <2>2 DEF HandlersOK, TableOK, listVars, handlerVars
  <1>8. CASE Keep \/ EndReroute
    <2>1. /\ sweep.pc # "wait"
          /\ sweep' = Continue
          /\ UNCHANGED <<listVars, handlerVars, chatInstances, missing>>
      BY <1>8 DEF Keep, EndReroute
    <2>2. SweepOK' /\ sweep'.aliased = sweep.aliased /\ sweep'.cells = sweep.cells
            /\ sweep'.len = sweep.len /\ sweep'.i = sweep.i
      BY <2>1 DEF Continue, SweepOK, SweepState, Busy
    <2>3. SweepCells' = SweepCells
      BY <2>1, <2>2 DEF SweepCells
    <2>4. WindowOK'
      BY <2>1, <2>2, <2>3 DEF WindowOK
    <2> QED
      BY <2>1, <2>2, <2>4 DEF HandlersOK, TableOK, listVars, handlerVars
  <1>9. CASE Reroute
    <2>1. PICK serverIP \in Candidates(client1, client2) :
            /\ sweep.pc = "examine"
            /\ sweep' = [sweep EXCEPT !.pc = "remove1", !.serverIP = serverIP]
            /\ UNCHANGED <<listVars, handlerVars, chatInstances, missing>>
      BY <1>9 DEF Reroute
    <2>2. serverIP \in Server
      BY <1>b, <2>1, CandidatesAreServers DEF Busy
    <2>3. SweepOK' /\ sweep'.aliased = sweep.aliased /\ sweep'.cells = sweep.cells
            /\ sweep'.len = sweep.len /\ sweep'.i = sweep.i
      BY <2>1, <2>2 DEF SweepOK, SweepState, Busy
    <2>4. SweepCells' = SweepCells
      BY <2>1, <2>3 DEF SweepCells
    <2>5. WindowOK'
      BY <2>1, <2>3, <2>4 DEF WindowOK
    <2> QED
      BY <2>1, <2>3, <2>5 DEF HandlersOK, TableOK, listVars, handlerVars
  <1>10. CASE RemoveFirst \/ RemoveSecond
    <2>1. PICK user :
            /\ chatInstances' = RemoveChatInstancesForUser(chatInstances, user)
            /\ \/ sweep.pc = "remove1"
                    /\ sweep' = [sweep EXCEPT !.pc = "remove2"]
               \/ sweep.pc = "remove2"
                    /\ sweep' = [sweep EXCEPT !.pc = "insert"]
            /\ UNCHANGED <<listVars, handlerVars, missing>>
      BY <1>10 DEF RemoveFirst, RemoveSecond
    <2>2. SweepOK' /\ sweep'.aliased = sweep.aliased /\ sweep'.cells = sweep.cells
            /\ sweep'.len = sweep.len /\ sweep'.i = sweep.i /\ sweep.pc # "wait"
      BY <2>1 DEF SweepOK, SweepState, Busy
    <2>3. TableOK'
      BY <2>1, TableRemove
    <2>4. /\ Len(SweepCells') = Len(SweepCells)
          /\ \A k \in 1..sweep.len :
               \/ SweepCells'[k] = SweepCells[k]
               \/ \E j \in 1..chatInstances.len : SweepCells'[k] = chatInstances.cells[j]
      BY <2>1, <2>2, WindowRemove
    <2>5. WindowOK'
      BY <2>2, <2>4 DEF WindowOK, TableOK
    <2> QED
      BY <2>1, <2>2, <2>3, <2>5 DEF HandlersOK, listVars, handlerVars
  <1>11. CASE Reinsert
    <2> DEFINE new == [sweep.instance EXCEPT !.server = sweep.serverIP]
    <2>1. /\ sweep.pc = "insert"
          /\ chatInstances' = InsertChatInstance(chatInstances, new)
          /\ sweep' = [AfterInsert EXCEPT !.pc = "redirect"]
          /\ UNCHANGED <<listVars, handlerVars, missing>>
      BY <1>11 DEF Reinsert
    <2>2. new \in Record
      BY <2>1 DEF SweepOK, Busy, Record
    <2> HIDE DEF new
    <2>3. TableOK'
      BY <2>1, <2>2, TableInsert
    <2>4. AfterInsert \in SweepState /\ AfterInsert.instance = sweep.instance
            /\ AfterInsert.serverIP = sweep.serverIP
            /\ AfterInsert.len = sweep.len /\ AfterInsert.i = sweep.i
      BY DEF AfterInsert, SweepOK, SweepState, TableOK
    <2>5. SweepOK' /\ sweep'.aliased = AfterInsert.aliased
            /\ sweep'.cells = AfterInsert.cells
            /\ sweep'.len = sweep.len /\ sweep'.i = sweep.i
      BY <2>1, <2>4 DEF SweepOK, SweepState, Busy
    <2>6. /\ Len(SweepCells) <= Len(SweepCells')
          /\ \A k \in 1..sweep.len :
               SweepCells'[k] = new \/ SweepCells'[k] = SweepCells[k]
      BY <2>1, <2>2, <2>5, WindowInsert
    <2>7. sweep.len \in Nat /\ Len(SweepCells) \in Nat /\ Len(SweepCells') \in Nat
      BY <2>3, <2>5 DEF SweepOK, SweepState, TableOK, SweepCells
    <2>8. WindowOK'
      BY <2>1, <2>2, <2>5, <2>6, <2>7 DEF WindowOK
    <2> QED
      BY <2>1, <2>3, <2>5, <2>8 DEF HandlersOK, listVars, handlerVars
  <1>12. CASE UNCHANGED tableVars
    <2>1. UNCHANGED <<delayLists, updates, handler, invited, chatInstances,
                      sweep, missing>>
      BY <1>12 DEF tableVars, listVars, handlerVars, sweepVars
    <2> QED
      BY <2>1, WindowSame DEF HandlersOK, TableOK, SweepOK
  <1> QED
    BY <1>1, <1>2, <1>3, <1>4, <1>5, <1>6, <1>7, <1>8, <1>9, <1>10, <1>11, <1>12
    DEF Next, SweepStep, AnalysisStep, HandlerStep

LEMMA TypeOKInit == Init => TypeOK
  <1> SUFFICES ASSUME Init PROVE TypeOK
    OBVIOUS
  <1>1. HandlersOK
    BY MaxUpdatesAssumption DEF Init, HandlersOK
  <1>2. TableOK
    BY DEF Init, TableOK, EmptySlice
  <1>3. SweepOK /\ WindowOK
    BY DEF Init, SweepOK, WindowOK, SweepState, IdleSweep, Busy
  <1> QED
    BY <1>1, <1>2, <1>3 DEF TypeOK

\* Central's chat table, its handlers and its sweep stay well typed: the table
\* and the range loop only ever reach cells that hold records of rooms.
THEOREM TypeCorrect == Spec => []TypeOK
  BY TypeOKInit, TypeOKStep, PTL DEF Spec
----------------------------------------------------------------------------
\* A matched room has exactly one record, or none while the sweep is replacing
\* its own.
RoomsOnce ==
  \A r \in Room :
    /\ RecordsOf(r) # {} <=> handler[r] = "done" /\ ~BeingMoved(r)
    /\ \A j, k \in RecordsOf(r) : j = k

\* What RoomsOnce needs to be inductive: the range loop only reaches records
\* of matched rooms, so what the sweep puts back is a matched room.
SweepMatched ==
  /\ sweep.pc # "wait" =>
       \A k \in 1..sweep.len : handler[SweepCells[k].room] = "done"
  /\ sweep.pc \in Busy => handler[sweep.instance.room] = "done"

\* With disjoint chats, the entries that have a user of a room are the
\* records of that room.
LEMMA PositionsAreRecords ==
  ASSUME DisjointChats, TableOK, NEW x \in Record, NEW j \in 1..2
  PROVE  PositionsOf(chatInstances, x.users[j]) = RecordsOf(x.room)
  <1>1. x.room \in Room /\ x.users = Users[x.room]
    BY RecordUsers
  <1>2. ASSUME NEW k \in 1..chatInstances.len
        PROVE  HasUser(chatInstances.cells[k], x.users[j])
                 <=> chatInstances.cells[k].room = x.room
    <2> DEFINE c == chatInstances.cells[k]
    <2>1. c \in Record
      BY DEF TableOK
    <2>2. c.room \in Room /\ c.users = Users[c.room]
      BY <2>1, RecordUsers
    <2>3. DOMAIN c.users = 1..2
      BY <2>2, UsersAssumption
    <2> HIDE DEF c
    <2>4. ASSUME HasUser(c, x.users[j])
          PROVE  c.room = x.room
      BY <1>1, <2>2, <2>3, <2>4 DEF HasUser, DisjointChats
    <2>5. ASSUME c.room = x.room
          PROVE  HasUser(c, x.users[j])
      BY <1>1, <2>2, <2>3, <2>5 DEF HasUser
    <2> QED
      BY <2>4, <2>5 DEF c
  <1> QED
    BY <1>2 DEF PositionsOf, RecordsOf

\* An insertion adds one record to its room and none to the others.
LEMMA RecordsAfterInsert ==
  ASSUME TableOK, NEW x \in Record, NEW r \in Room,
         chatInstances' = InsertChatInstance(chatInstances, x)
  PROVE  RecordsOf(r)' = IF r = x.room
                           THEN RecordsOf(r) \cup {chatInstances.len + 1}
                           ELSE RecordsOf(r)
  <1>1. /\ chatInstances'.len = chatInstances.len + 1
        /\ chatInstances'.cells[chatInstances.len + 1] = x
        /\ \A k \in 1..chatInstances.len :
             chatInstances'.cells[k] = chatInstances.cells[k]
    BY TableInsert
  <1>2. chatInstances.len \in Nat
    BY DEF TableOK
  <1>3. RecordsOf(r)' = {k \in 1..chatInstances'.len : chatInstances'.cells[k].room = r}
    BY DEF RecordsOf
  <1>4. \A k \in 1..chatInstances'.len :
          k \in 1..chatInstances.len \/ k = chatInstances.len + 1
    BY <1>1, <1>2
  <1> QED
    BY <1>1, <1>2, <1>3, <1>4 DEF RecordsOf

\* Removing the only record of a room leaves that room without a record and
\* the number of records of every other room as it was.
LEMMA RecordsAfterRemove ==
  ASSUME TableOK, NEW user, NEW room \in Room,
         PositionsOf(chatInstances, user) = RecordsOf(room),
         RecordsOf(room) # {},
         \A j, k \in RecordsOf(room) : j = k,
         chatInstances' = RemoveChatInstancesForUser(chatInstances, user)
  PROVE  /\ RecordsOf(room)' = {}
         /\ \A r \in Room \ {room} :
              /\ RecordsOf(r)' # {} <=> RecordsOf(r) # {}
              /\ (\A j, k \in RecordsOf(r) : j = k)
                   => (\A j, k \in RecordsOf(r)' : j = k)
  <1>1. PICK i \in RecordsOf(room) :
          /\ chatInstances'.len = chatInstances.len - 1
          /\ \A k \in 1..Len(chatInstances.cells) :
               chatInstances'.cells[k] =
                 IF i <= k /\ k < chatInstances.len
                   THEN chatInstances.cells[k + 1]
                   ELSE chatInstances.cells[k]
    BY TableRemove
  <1>2. /\ chatInstances.len \in Nat
        /\ Len(chatInstances.cells) \in Nat
        /\ chatInstances.len <= Len(chatInstances.cells)
        /\ i \in 1..chatInstances.len
        /\ chatInstances.cells[i].room = room
    BY DEF TableOK, RecordsOf
  <1>3. \A r \in Room :
          RecordsOf(r)' = {k \in 1..chatInstances'.len : chatInstances'.cells[k].room = r}
    BY DEF RecordsOf
  <1>4. ASSUME NEW r \in Room, NEW k \in RecordsOf(r)'
        PROVE  /\ k \in Nat
               /\ k < i => k \in RecordsOf(r)
               /\ k >= i => k + 1 \in RecordsOf(r)
    <2>1. k \in 1..chatInstances'.len /\ chatInstances'.cells[k].room = r
      BY <1>3, <1>4
    <2>2. k \in 1..Len(chatInstances.cells) /\ k < chatInstances.len
            /\ k + 1 \in 1..chatInstances.len /\ k \in 1..chatInstances.len
      BY <1>1, <1>2, <2>1
    <2>3. chatInstances'.cells[k] = IF i <= k THEN chatInstances.cells[k + 1]
                                              ELSE chatInstances.cells[k]
      BY <1>1, <2>2
    <2> QED
      BY <1>2, <2>1, <2>2, <2>3 DEF RecordsOf
  <1>5. ASSUME NEW r \in Room, NEW k \in RecordsOf(r), k # i
        PROVE  /\ k \in Nat
               /\ k < i => k \in RecordsOf(r)'
               /\ k > i => k - 1 \in RecordsOf(r)'
    <2>1. k \in 1..chatInstances.len /\ chatInstances.cells[k].room = r
      BY DEF RecordsOf
    <2>2. ASSUME k < i
          PROVE  k \in RecordsOf(r)'
      <3>1. k \in 1..Len(chatInstances.cells) /\ k \in 1..chatInstances'.len
              /\ ~(i <= k)
        BY <1>1, <1>2, <2>1, <2>2
      <3>2. chatInstances'.cells[k] = chatInstances.cells[k]
        BY <1>1, <3>1
      <3> QED
        BY <1>3, <2>1, <3>1, <3>2
    <2>3. ASSUME k > i
          PROVE  k - 1 \in RecordsOf(r)'
      <3>1. /\ k - 1 \in 1..Len(chatInstances.cells)
            /\ k - 1 \in 1..chatInstances'.len
            /\ i <= k - 1 /\ k - 1 < chatInstances.len
            /\ (k - 1) + 1 = k
        BY <1>1, <1>2, <2>1, <2>3
      <3>2. chatInstances'.cells[k - 1] = chatInstances.cells[(k - 1) + 1]
        BY <1>1, <3>1
      <3> QED
        BY <1>3, <2>1, <3>1, <3>2
    <2> QED
      BY <2>1, <2>2, <2>3
  <1>6. RecordsOf(room)' = {}
    <2> SUFFICES ASSUME NEW k \in RecordsOf(room)'
                 PROVE  FALSE
      OBVIOUS
    <2>1. k \in Nat /\ (k < i => k \in RecordsOf(room))
            /\ (k >= i => k + 1 \in RecordsOf(room))
      BY <1>4
    <2> QED
      BY <2>1, <1>2
  <1>7. ASSUME NEW r \in Room \ {room}
        PROVE  /\ RecordsOf(r)' # {} <=> RecordsOf(r) # {}
               /\ (\A j, k \in RecordsOf(r) : j = k)
                    => (\A j, k \in RecordsOf(r)' : j = k)
    <2>1. i \notin RecordsOf(r)
      BY <1>2 DEF RecordsOf
    <2>2. RecordsOf(r)' # {} => RecordsOf(r) # {}
      <3> SUFFICES ASSUME NEW k \in RecordsOf(r)'
                   PROVE  RecordsOf(r) # {}
        OBVIOUS
      <3>1. k \in Nat /\ (k < i => k \in RecordsOf(r))
              /\ (k >= i => k + 1 \in RecordsOf(r))
        BY <1>4
      <3> QED
        BY <3>1, <1>2
    <2>3. RecordsOf(r) # {} => RecordsOf(r)' # {}
      <3> SUFFICES ASSUME NEW k \in RecordsOf(r)
                   PROVE  RecordsOf(r)' # {}
        OBVIOUS
      <3>1. k # i
        BY <2>1
      <3>2. k \in Nat /\ (k < i => k \in RecordsOf(r)')
              /\ (k > i => k - 1 \in RecordsOf(r)')
        BY <1>5, <3>1
      <3> QED
        BY <3>1, <3>2, <1>2
    <2>4. ASSUME \A j, k \in RecordsOf(r) : j = k,
                 NEW j \in RecordsOf(r)', NEW k \in RecordsOf(r)'
          PROVE  j = k
      <3>1. /\ j \in Nat /\ (j < i => j \in RecordsOf(r))
            /\ (j >= i => j + 1 \in RecordsOf(r))
        BY <1>4
      <3>2. /\ k \in Nat /\ (k < i => k \in RecordsOf(r))
            /\ (k >= i => k + 1 \in RecordsOf(r))
        BY <1>4
      <3> QED
        BY <3>1, <3>2, <2>1, <2>4, <1>2
    <2> QED
      BY <2>2, <2>3, <2>4
  <1> QED
    BY <1>6, <1>7

\* A step that moves nothing in the table, matches no room, and neither starts
\* nor ends the replacement of a record.
LEMMA QuietStep ==
  ASSUME RoomsOnce, UNCHANGED chatInstances,
         \A r \in Room : handler'[r] = "done" <=> handler[r] = "done",
         \A r \in Room : BeingMoved(r)' <=> BeingMoved(r)
  PROVE  RoomsOnce'
  <1>1. \A r \in Room : RecordsOf(r)' = RecordsOf(r)
    BY DEF RecordsOf
  <1> QED
    BY <1>1 DEF RoomsOnce

\* One step of the inductive invariant.
LEMMA RoomsOnceStep ==
  ASSUME DisjointChats, TypeOK, TypeOK', SweepMatched, RoomsOnce,
         [Next]_tableVars
  PROVE  SweepMatched' /\ RoomsOnce'
  <1>a. ASSUME sweep.pc \in Busy
        PROVE  /\ sweep.instance \in Record
               /\ sweep.instance.room \in Room
               /\ handler[sweep.instance.room] = "done"
    BY <1>a, RecordUsers DEF TypeOK, SweepOK, SweepMatched
  <1>b. \A k \in 1..chatInstances.len :
          handler[chatInstances.cells[k].room] = "done"
    <2> TAKE k \in 1..chatInstances.len
    <2>1. chatInstances.cells[k].room \in Room
      BY RecordUsers DEF TypeOK, TableOK
    <2>2. k \in RecordsOf(chatInstances.cells[k].room)
      BY DEF RecordsOf
    <2> QED
      BY <2>1, <2>2 DEF RoomsOnce
  <1>1. ASSUME NEW u \in User, NEW list \in Lists[u], UpdateDelayList(u, list)
        PROVE  SweepMatched' /\ RoomsOnce'
    <2>1. UNCHANGED <<chatInstances, sweep, handler>>
      BY <1>1 DEF UpdateDelayList, handlerVars, sweepVars
    <2> QED
      BY <2>1, QuietStep DEF SweepMatched, SweepCells, BeingMoved
  <1>2. ASSUME NEW r \in Room, MatchServer(r) \/ MatchFails(r)
        PROVE  SweepMatched' /\ RoomsOnce'
    <2>1. UNCHANGED <<chatInstances, sweep>>
      BY <1>2 DEF MatchServer, MatchFails, sweepVars
    <2>2. \A q \in Room : handler'[q] = "done" <=> handler[q] = "done"
      BY <1>2 DEF MatchServer, MatchFails, TypeOK, HandlersOK
    <2>3. SweepCells' = SweepCells
      BY <2>1 DEF SweepCells
    <2>4. SweepMatched'
      <3>1. sweep.pc # "wait" => \A k \in 1..sweep.len : SweepCells[k].room \in Room
        BY RecordUsers DEF TypeOK, WindowOK
      <3> QED
        BY <1>a, <2>1, <2>2, <2>3, <3>1 DEF SweepMatched
    <2> QED
      BY <2>1, <2>2, <2>4, QuietStep DEF BeingMoved
  <1>3. ASSUME NEW r \in Room, InsertMatch(r)
        PROVE  SweepMatched' /\ RoomsOnce'
    <2> DEFINE x == Instance(r, invited[r])
    <2>1. /\ handler[r] = "insert"
          /\ handler' = [handler EXCEPT ![r] = "done"]
          /\ chatInstances' = InsertChatInstance(chatInstances, x)
          /\ sweep' = AfterInsert
      BY <1>3 DEF InsertMatch
    <2>2. x \in Record /\ x.room = r
      BY <2>1, UsersAssumption DEF TypeOK, HandlersOK, Instance, Record
    <2> HIDE DEF x
    <2>3. /\ sweep'.pc = sweep.pc /\ sweep'.len = sweep.len
          /\ sweep'.instance = sweep.instance
      BY <2>1 DEF AfterInsert, TypeOK, SweepOK, SweepState
    <2>4. \A q \in Room : handler'[q] = "done" <=> handler[q] = "done" \/ q = r
      BY <2>1 DEF TypeOK, HandlersOK
    <2>5. SweepMatched'
      <3>1. ASSUME sweep.pc # "wait", NEW k \in 1..sweep.len
            PROVE  handler'[SweepCells'[k].room] = "done"
        <4>1. SweepCells'[k] = x \/ SweepCells'[k] = SweepCells[k]
          BY <2>1, <2>2, <3>1, WindowInsert DEF TypeOK
        <4>2. SweepCells[k].room \in Room /\ handler[SweepCells[k].room] = "done"
          BY <3>1, RecordUsers DEF TypeOK, WindowOK, SweepMatched
        <4> QED
          BY <2>2, <2>4, <4>1, <4>2
      <3>2. sweep.pc \in Busy => handler'[sweep.instance.room] = "done"
        BY <1>a, <2>4
      <3> QED
        BY <2>3, <3>1, <3>2 DEF SweepMatched
    <2>6. \A q \in Room : BeingMoved(q)' <=> BeingMoved(q)
      BY <2>3 DEF BeingMoved
    <2>7. ~BeingMoved(r)
      BY <1>a, <2>1 DEF BeingMoved, Busy
    <2>8. RecordsOf(r) = {}
      BY <2>1 DEF RoomsOnce
    <2>9. ASSUME NEW q \in Room
          PROVE  /\ RecordsOf(q)' # {} <=> handler'[q] = "done" /\ ~BeingMoved(q)'
                 /\ \A j, k \in RecordsOf(q)' : j = k
      <3>1. RecordsOf(q)' = IF q = r THEN RecordsOf(q) \cup {chatInstances.len + 1}
                                     ELSE RecordsOf(q)
        BY <2>1, <2>2, RecordsAfterInsert DEF TypeOK
      <3>2. CASE q = r
        BY <3>1, <3>2, <2>4, <2>6, <2>7, <2>8
      <3>3. CASE q # r
        BY <3>1, <3>3, <2>4, <2>6 DEF RoomsOnce
      <3> QED
        BY <3>2, <3>3
    <2> QED
      BY <2>5, <2>9 DEF RoomsOnce
  <1>4. CASE Tick
    <2>1. /\ sweep.pc = "wait"
          /\ sweep' = [IdleSweep EXCEPT !.pc = "loop", !.aliased = TRUE,
                                        !.len = chatInstances.len, !.i = 1]
          /\ UNCHANGED <<handler, chatInstances>>
      BY <1>4 DEF Tick, handlerVars
    <2>2. sweep'.pc = "loop" /\ sweep'.aliased = TRUE
            /\ sweep'.len = chatInstances.len
      BY <2>1 DEF IdleSweep
    <2>3. SweepCells' = chatInstances.cells
      BY <2>1, <2>2 DEF SweepCells
    <2>4. SweepMatched'
      BY <1>b, <2>1, <2>2, <2>3 DEF SweepMatched, Busy
    <2> QED
      BY <2>1, <2>2, <2>4, QuietStep DEF BeingMoved
  <1>5. CASE NextInstance
    <2>1. /\ sweep.pc = "loop"
          /\ sweep.i <= sweep.len
          /\ sweep' = [sweep EXCEPT !.pc = "examine", !.i = sweep.i + 1,
                                    !.instance = SweepCells[sweep.i]]
          /\ UNCHANGED <<handler, chatInstances>>
      BY <1>5 DEF NextInstance, handlerVars
    <2>2. /\ sweep'.pc = "examine" /\ sweep'.instance = SweepCells[sweep.i]
          /\ sweep'.len = sweep.len
          /\ sweep'.aliased = sweep.aliased /\ sweep'.cells = sweep.cells
      BY <2>1 DEF TypeOK, SweepOK, SweepState
    <2>3. SweepCells' = SweepCells
      BY <2>1, <2>2 DEF SweepCells
    <2>4. sweep.i \in 1..sweep.len
      BY <2>1 DEF TypeOK, SweepOK, SweepState, WindowOK
    <2>5. SweepMatched'
      BY <2>1, <2>2, <2>3, <2>4 DEF SweepMatched
    <2> QED
      BY <2>1, <2>2, <2>5, QuietStep DEF BeingMoved
  <1>6. CASE EndSweep
    <2>1. sweep.pc = "loop" /\ sweep' = IdleSweep /\ UNCHANGED <<handler, chatInstances>>
      BY <1>6 DEF EndSweep, handlerVars
    <2>2. sweep'.pc = "wait"
      BY <2>1 DEF IdleSweep
    <2>3. SweepMatched'
      BY <2>2 DEF SweepMatched, Busy
    <2> QED
      BY <2>1, <2>2, <2>3, QuietStep DEF BeingMoved
  <1>7. CASE Keep \/ EndReroute
    <2>1. /\ sweep.pc \in {"examine", "redirect"}
          /\ sweep' = Continue
          /\ UNCHANGED <<handler, chatInstances>>
      BY <1>7 DEF Keep, EndReroute, handlerVars
    <2>2. sweep'.pc = "loop" /\ sweep'.len = sweep.len
            /\ sweep'.aliased = sweep.aliased /\ sweep'.cells = sweep.cells
      BY <2>1 DEF Continue, TypeOK, SweepOK, SweepState
    <2>3. SweepCells' = SweepCells
      BY <2>1, <2>2 DEF SweepCells
    <2>4. SweepMatched'
      BY <2>1, <2>2, <2>3 DEF SweepMatched, Busy
    <2> QED
      BY <2>1, <2>2, <2>4, QuietStep DEF BeingMoved
  <1>8. CASE Reroute
    <2>1. /\ sweep.pc = "examine"
          /\ \E serverIP : sweep' = [sweep EXCEPT !.pc = "remove1",
                                                  !.serverIP = serverIP]
          /\ UNCHANGED <<handler, chatInstances>>
      BY <1>8 DEF Reroute, handlerVars
    <2>2. sweep'.pc = "remove1" /\ sweep'.len = sweep.len
            /\ sweep'.instance = sweep.instance
            /\ sweep'.aliased = sweep.aliased /\ sweep'.cells = sweep.cells
      BY <2>1 DEF TypeOK, SweepOK, SweepState
    <2>3. SweepCells' = SweepCells
      BY <2>1, <2>2 DEF SweepCells
    <2>4. SweepMatched'
      BY <2>1, <2>2, <2>3 DEF SweepMatched, Busy
    <2> QED
      BY <2>1, <2>2, <2>4, QuietStep DEF BeingMoved
  <1>9. CASE RemoveFirst
    <2>0. PICK room : room = sweep.instance.room
      OBVIOUS
    <2>1. /\ sweep.pc = "remove1"
          /\ chatInstances' = RemoveChatInstancesForUser(chatInstances, client1)
          /\ sweep' = [sweep EXCEPT !.pc = "remove2"]
          /\ UNCHANGED handler
      BY <1>9 DEF RemoveFirst, handlerVars
    <2>2. sweep'.pc = "remove2" /\ sweep'.len = sweep.len
            /\ sweep'.instance = sweep.instance
            /\ sweep'.aliased = sweep.aliased /\ sweep'.cells = sweep.cells
      BY <2>1 DEF TypeOK, SweepOK, SweepState
    <2>3. sweep.instance \in Record /\ room \in Room /\ handler[room] = "done"
      BY <1>a, <2>0, <2>1 DEF Busy
    <2>4. SweepMatched'
      <3>1. ASSUME NEW k \in 1..sweep.len
            PROVE  handler[SweepCells'[k].room] = "done"
        <4>1. \/ SweepCells'[k] = SweepCells[k]
              \/ \E j \in 1..chatInstances.len : SweepCells'[k] = chatInstances.cells[j]
          BY <2>1, <2>2, WindowRemove DEF TypeOK
        <4> QED
          BY <1>b, <2>1, <4>1 DEF SweepMatched
      <3> QED
        BY <2>0, <2>1, <2>2, <2>3, <3>1 DEF SweepMatched
    <2>5. PositionsOf(chatInstances, client1) = RecordsOf(room)
      BY <2>0, <2>3, PositionsAreRecords DEF TypeOK, client1
    <2>6. RecordsOf(room) # {} /\ \A j, k \in RecordsOf(room) : j = k
      BY <2>1, <2>3 DEF RoomsOnce, BeingMoved
    <2>7. /\ RecordsOf(room)' = {}
          /\ \A r \in Room \ {room} :
               /\ RecordsOf(r)' # {} <=> RecordsOf(r) # {}
               /\ (\A j, k \in RecordsOf(r) : j = k)
                    => (\A j, k \in RecordsOf(r)' : j = k)
      BY <2>1, <2>3, <2>5, <2>6, RecordsAfterRemove DEF TypeOK
    <2>8. \A r \in Room : (BeingMoved(r)' <=> r = room) /\ ~BeingMoved(r)
      BY <2>0, <2>1, <2>2 DEF BeingMoved
    <2>9. ASSUME NEW r \in Room
          PROVE  /\ RecordsOf(r)' # {} <=> handler'[r] = "done" /\ ~BeingMoved(r)'
                 /\ \A j, k \in RecordsOf(r)' : j = k
      <3>1. CASE r = room
        BY <3>1, <2>7, <2>8
      <3>2. CASE r # room
        BY <3>2, <2>1, <2>7, <2>8 DEF RoomsOnce
      <3> QED
        BY <3>1, <3>2
    <2> QED
      BY <2>4, <2>9 DEF RoomsOnce
  <1>10. CASE RemoveSecond
    <2> DEFINE room == sweep.instance.room
    <2>1. /\ sweep.pc = "remove2"
          /\ chatInstances' = RemoveChatInstancesForUser(chatInstances, client2)
          /\ sweep' = [sweep EXCEPT !.pc = "insert"]
          /\ UNCHANGED handler
      BY <1>10 DEF RemoveSecond, handlerVars
    <2>2. sweep'.pc = "insert" /\ sweep'.len = sweep.len
            /\ sweep'.instance = sweep.instance
            /\ sweep'.aliased = sweep.aliased /\ sweep'.cells = sweep.cells
      BY <2>1 DEF TypeOK, SweepOK, SweepState
    <2>3. sweep.instance \in Record /\ room \in Room
      BY <1>a, <2>1 DEF Busy
    <2>4. PositionsOf(chatInstances, client2) = RecordsOf(room)
      BY <2>3, PositionsAreRecords DEF TypeOK, client2
    <2>5. RecordsOf(room) = {}
      BY <2>1, <2>3 DEF RoomsOnce, BeingMoved
    <2>6. UNCHANGED chatInstances
      BY <2>1, <2>4, <2>5, TableRemove DEF TypeOK
    <2>7. SweepCells' = SweepCells
      BY <2>2, <2>6 DEF SweepCells
    <2>8. SweepMatched'
      BY <2>1, <2>2, <2>7 DEF SweepMatched, Busy
    <2>9. \A r \in Room : BeingMoved(r)' <=> BeingMoved(r)
      BY <2>1, <2>2 DEF BeingMoved
    <2> QED
      BY <2>1, <2>6, <2>8, <2>9, QuietStep
  <1>11. CASE Reinsert
    <2> DEFINE room == sweep.instance.room
               new == [sweep.instance EXCEPT !.server = sweep.serverIP]
    <2>1. /\ sweep.pc = "insert"
          /\ chatInstances' = InsertChatInstance(chatInstances, new)
          /\ sweep' = [AfterInsert EXCEPT !.pc = "redirect"]
          /\ UNCHANGED handler
      BY <1>11 DEF Reinsert, handlerVars
    <2>2. sweep.instance \in Record /\ room \in Room /\ handler[room] = "done"
      BY <1>a, <2>1 DEF Busy
    <2>3. new \in Record /\ new.room = room
      BY <2>1, <2>2 DEF TypeOK, SweepOK, Busy, Record
    <2> HIDE DEF new
    <2>4. /\ sweep'.pc = "redirect" /\ sweep'.len = sweep.len
          /\ sweep'.instance = sweep.instance
          /\ sweep'.aliased = AfterInsert.aliased
          /\ sweep'.cells = AfterInsert.cells
      BY <2>1 DEF AfterInsert, TypeOK, SweepOK, SweepState
    <2>5. SweepMatched'
      <3>1. ASSUME NEW k \in 1..sweep.len
            PROVE  handler[SweepCells'[k].room] = "done"
        <4>1. SweepCells'[k] = new \/ SweepCells'[k] = SweepCells[k]
          BY <2>1, <2>3, <2>4, WindowInsert DEF TypeOK
        <4> QED
          BY <2>1, <2>2, <2>3, <4>1 DEF SweepMatched
      <3> QED
        BY <2>1, <2>2, <2>4, <3>1 DEF SweepMatched
    <2>6. RecordsOf(room) = {}
      BY <2>1, <2>2 DEF RoomsOnce, BeingMoved
    <2>7. \A r \in Room : ~BeingMoved(r)' /\ (BeingMoved(r) <=> r = room)
      BY <2>1, <2>4 DEF BeingMoved
    <2>8. ASSUME NEW r \in Room
          PROVE  /\ RecordsOf(r)' # {} <=> handler'[r] = "done" /\ ~BeingMoved(r)'
                 /\ \A j, k \in RecordsOf(r)' : j = k
      <3>1. RecordsOf(r)' = IF r = room
                              THEN RecordsOf(r) \cup {chatInstances.len + 1}
                              ELSE RecordsOf(r)
        BY <2>1, <2>3, RecordsAfterInsert DEF TypeOK
      <3>2. CASE r = room
        BY <3>1, <3>2, <2>1, <2>2, <2>6, <2>7
      <3>3. CASE r # room
        BY <3>1, <3>3, <2>1, <2>7 DEF RoomsOnce
      <3> QED
        BY <3>2, <3>3
    <2> QED
      BY <2>5, <2>8 DEF RoomsOnce
  <1>12. CASE UNCHANGED tableVars
    <2>1. UNCHANGED <<handler, chatInstances, sweep>>
      BY <1>12 DEF tableVars, handlerVars, sweepVars
    <2> QED
      BY <2>1, QuietStep DEF SweepMatched, SweepCells, BeingMoved
  <1> QED
    BY <1>1, <1>2, <1>3, <1>4, <1>5, <1>6, <1>7, <1>8, <1>9, <1>10, <1>11, <1>12
    DEF Next, SweepStep, AnalysisStep, HandlerStep

LEMMA RoomsOnceInit == Init => SweepMatched /\ RoomsOnce
  <1> SUFFICES ASSUME Init PROVE SweepMatched /\ RoomsOnce
    OBVIOUS
  <1>1. sweep.pc = "wait" /\ chatInstances.len = 0
    BY DEF Init, IdleSweep, EmptySlice
  <1>2. SweepMatched
    BY <1>1 DEF SweepMatched, Busy
  <1>3. \A r \in Room : RecordsOf(r) = {} /\ handler[r] # "done"
    BY <1>1 DEF RecordsOf, Init
  <1> QED
    BY <1>2, <1>3 DEF RoomsOnce
----------------------------------------------------------------------------
\* The cell is the current record of its room.
Listed(c) == \E j \in 1..chatInstances.len : chatInstances.cells[j] = c

\* The record of the chat that is being re-routed is out of the table.
Removed == sweep.pc \in {"remove2", "insert"}

\* The cells the loop has yet to read.
Ahead == sweep.i..sweep.len

\* While the loop shares the table's array it never reaches behind the end of
\* the table, except for the one cell that a removal leaves there for a time.
SharedOK ==
  (sweep.pc # "wait" /\ sweep.aliased) =>
    /\ sweep.len <= chatInstances.len + 1
    /\ ~Removed => sweep.len <= chatInstances.len

\* When the table has moved to a new array, what the loop has yet to read of
\* the old one are current records of different chats, and none of the chat
\* that is being examined.
FrozenOK ==
  (sweep.pc # "wait" /\ ~sweep.aliased) =>
    /\ \A k \in Ahead : Listed(sweep.cells[k])
    /\ \A j, k \in Ahead : sweep.cells[j].room = sweep.cells[k].room => j = k
    /\ (sweep.pc \in {"examine", "remove1"} \/ Removed) =>
         \A k \in Ahead : sweep.cells[k].room # sweep.instance.room

\* The record that is examined, and where the loop has read it.
ExaminedOK ==
  sweep.pc \in {"examine", "remove1"} =>
    /\ sweep.i - 1 \in 1..sweep.len
    /\ sweep.aliased => chatInstances.cells[sweep.i - 1] = sweep.instance
    /\ Listed(sweep.instance)

LoopOK == SharedOK /\ FrozenOK /\ ExaminedOK

LEMMA LoopTypes ==
  ASSUME TypeOK
  PROVE  /\ sweep.i \in Nat /\ sweep.len \in Nat /\ sweep.aliased \in BOOLEAN
         /\ chatInstances.len \in Nat /\ Len(chatInstances.cells) \in Nat
         /\ chatInstances.len <= Len(chatInstances.cells)
         /\ sweep.pc # "wait" => sweep.i >= 1 /\ sweep.len <= Len(SweepCells)
  BY DEF TypeOK, SweepOK, SweepState, TableOK, WindowOK

\* A room has one current record.
LEMMA OneRecord ==
  ASSUME TypeOK, RoomsOnce, NEW j \in 1..chatInstances.len, NEW k \in 1..chatInstances.len,
         chatInstances.cells[j].room = chatInstances.cells[k].room
  PROVE  j = k
  <1>1. chatInstances.cells[j].room \in Room
    BY RecordUsers DEF TypeOK, TableOK
  <1>2. j \in RecordsOf(chatInstances.cells[j].room) /\ k \in RecordsOf(chatInstances.cells[j].room)
    BY DEF RecordsOf
  <1> QED
    BY <1>1, <1>2 DEF RoomsOnce

\* An insertion, of a handler or of the sweep, below a running loop.
LEMMA LoopInsert ==
  ASSUME TypeOK, RoomsOnce, LoopOK, NEW x \in Record,
         chatInstances' = InsertChatInstance(chatInstances, x),
         sweep'.aliased = AfterInsert.aliased, sweep'.cells = AfterInsert.cells,
         sweep'.i = sweep.i, sweep'.len = sweep.len, sweep'.instance = sweep.instance,
         sweep'.pc = sweep.pc \/ (sweep.pc = "insert" /\ sweep'.pc = "redirect")
  PROVE  LoopOK'
  <1>1. /\ chatInstances'.len = chatInstances.len + 1
        /\ \A k \in 1..chatInstances.len : chatInstances'.cells[k] = chatInstances.cells[k]
    BY TableInsert DEF TypeOK
  <1>2. ASSUME NEW c, Listed(c)
        PROVE  Listed(c)'
    <2>1. PICK j \in 1..chatInstances.len : chatInstances.cells[j] = c
      BY <1>2 DEF Listed
    <2>2. j \in 1..chatInstances'.len /\ chatInstances'.cells[j] = c
      BY <1>1, <2>1, LoopTypes
    <2> QED
      BY <2>2 DEF Listed
  <1>3. CASE sweep.pc = "wait"
    BY <1>3 DEF LoopOK, SharedOK, FrozenOK, ExaminedOK
  <1>4. CASE sweep.pc # "wait" /\ ~sweep.aliased
    <2>1. sweep'.aliased = sweep.aliased /\ sweep'.cells = sweep.cells
      BY <1>4 DEF AfterInsert
    <2>2. Ahead' = Ahead
      BY DEF Ahead
    <2>3. (\A k \in Ahead : Listed(sweep.cells[k]))
            /\ \A j, k \in Ahead : sweep.cells[j].room = sweep.cells[k].room => j = k
      BY <1>4 DEF LoopOK, FrozenOK
    <2>4. \A k \in Ahead : Listed(sweep.cells[k])'
      BY <1>2, <2>1, <2>3
    <2>5. FrozenOK'
      BY <1>4, <2>1, <2>2, <2>3, <2>4 DEF LoopOK, FrozenOK, Removed
    <2>6. ExaminedOK'
      BY <1>2, <1>4, <2>1 DEF LoopOK, ExaminedOK
    <2> QED
      BY <1>4, <2>1, <2>5, <2>6 DEF LoopOK, SharedOK
  <1>5. CASE sweep.pc # "wait" /\ sweep.aliased /\ Reallocates(chatInstances)
    <2>1. AfterInsert = [sweep EXCEPT !.aliased = FALSE, !.cells = chatInstances.cells]
      BY <1>5 DEF AfterInsert
    <2>2. sweep'.aliased = FALSE /\ sweep'.cells = chatInstances.cells
      BY <2>1 DEF TypeOK, SweepOK, SweepState
    <2>3. sweep.len <= chatInstances.len
      BY <1>5, LoopTypes DEF SweepCells, Reallocates
    <2>4. \A k \in Ahead : k \in 1..chatInstances.len
      BY <1>5, <2>3, LoopTypes DEF Ahead
    <2>5. \A k \in Ahead : Listed(sweep.cells[k])'
      <3>1. \A k \in Ahead : Listed(chatInstances.cells[k])
        BY <2>4 DEF Listed
      <3>2. \A k \in Ahead : \E j \in 1..chatInstances'.len :
              chatInstances'.cells[j] = chatInstances.cells[k]
        BY <1>2, <3>1 DEF Listed
      <3> QED
        BY <2>2, <3>2 DEF Listed
    <2>6. \A j, k \in Ahead : sweep'.cells[j].room = sweep'.cells[k].room => j = k
      BY <2>2, <2>4, OneRecord
    <2>7. ASSUME sweep.pc \in {"examine", "remove1"}, NEW k \in Ahead
          PROVE  chatInstances.cells[k].room # sweep.instance.room
      <3>1. /\ sweep.i - 1 \in 1..chatInstances.len
            /\ chatInstances.cells[sweep.i - 1] = sweep.instance
            /\ k # sweep.i - 1
        BY <1>5, <2>3, <2>7, LoopTypes DEF LoopOK, ExaminedOK, Ahead
      <3> QED
        BY <2>4, <3>1, OneRecord
    <2>8. ASSUME Removed, NEW k \in Ahead
          PROVE  chatInstances.cells[k].room # sweep.instance.room
      <3>1. sweep.instance.room \in Room
        BY <2>8, RecordUsers DEF Removed, TypeOK, SweepOK, Busy
      <3>2. RecordsOf(sweep.instance.room) = {}
        BY <2>8, <3>1 DEF RoomsOnce, BeingMoved, Removed
      <3> QED
        BY <2>4, <3>2 DEF RecordsOf
    <2>9. FrozenOK'
      <3>1. Ahead' = Ahead
        BY DEF Ahead
      <3>2. (sweep'.pc \in {"examine", "remove1"} \/ Removed') =>
              \A k \in Ahead : sweep'.cells[k].room # sweep'.instance.room
        BY <2>2, <2>7, <2>8 DEF Removed
      <3> QED
        BY <2>5, <2>6, <3>1, <3>2 DEF FrozenOK
    <2>10. ExaminedOK'
      BY <1>2, <1>5, <2>2 DEF LoopOK, ExaminedOK
    <2> QED
      BY <2>2, <2>9, <2>10 DEF LoopOK, SharedOK
  <1>6. CASE sweep.pc # "wait" /\ sweep.aliased /\ ~Reallocates(chatInstances)
    <2>1. sweep'.aliased = sweep.aliased
      BY <1>6 DEF AfterInsert
    <2>2. SharedOK'
      BY <1>1, <1>6, <2>1, LoopTypes DEF LoopOK, SharedOK, Removed
    <2>3. ExaminedOK'
      <3> SUFFICES ASSUME sweep.pc \in {"examine", "remove1"}
                   PROVE  /\ sweep.i - 1 \in 1..sweep.len
                          /\ chatInstances'.cells[sweep.i - 1] = sweep.instance
                          /\ Listed(sweep.instance)'
        BY DEF ExaminedOK
      <3>1. /\ sweep.i - 1 \in 1..sweep.len /\ Listed(sweep.instance)
            /\ chatInstances.cells[sweep.i - 1] = sweep.instance
            /\ sweep.len <= chatInstances.len
        BY <1>6 DEF LoopOK, ExaminedOK, SharedOK, Removed
      <3>2. sweep.i - 1 \in 1..chatInstances.len
        BY <3>1, LoopTypes
      <3> QED
        BY <1>1, <1>2, <3>1, <3>2
    <2> QED
      BY <1>6, <2>1, <2>2, <2>3 DEF LoopOK, FrozenOK
  <1> QED
    BY <1>3, <1>4, <1>5, <1>6, LoopTypes

\* A step of the sweep that moves nothing: it goes on with the same record, or
\* has done with it.
LEMMA LoopSame ==
  ASSUME LoopOK, UNCHANGED chatInstances,
         sweep'.aliased = sweep.aliased, sweep'.cells = sweep.cells,
         sweep'.i = sweep.i, sweep'.len = sweep.len,
         \/ sweep'.pc = sweep.pc /\ sweep'.instance = sweep.instance
         \/ sweep.pc = "examine" /\ sweep'.pc = "remove1" /\ sweep'.instance = sweep.instance
         \/ sweep.pc = "remove2" /\ sweep'.pc = "insert" /\ sweep'.instance = sweep.instance
         \/ sweep.pc \in {"examine", "redirect"} /\ sweep'.pc = "loop"
  PROVE  LoopOK'
  <1>1. Ahead' = Ahead /\ \A c : Listed(c)' <=> Listed(c)
    BY DEF Ahead, Listed
  <1>2. SharedOK'
    BY DEF LoopOK, SharedOK, Removed
  <1>3. FrozenOK'
    BY <1>1 DEF LoopOK, FrozenOK, Removed
  <1>4. ExaminedOK'
    BY <1>1 DEF LoopOK, ExaminedOK
  <1> QED
    BY <1>2, <1>3, <1>4 DEF LoopOK

\* The table when the sweep takes the record of the examined chat out.
LEMMA TakeOut ==
  ASSUME DisjointChats, TypeOK, RoomsOnce, LoopOK, RemoveFirst
  PROVE  \E i \in 1..chatInstances.len :
           /\ chatInstances.cells[i].room = sweep.instance.room
           /\ chatInstances'.len = chatInstances.len - 1
           /\ \A k \in 1..Len(chatInstances.cells) :
                chatInstances'.cells[k] = IF i <= k /\ k < chatInstances.len
                                            THEN chatInstances.cells[k + 1]
                                            ELSE chatInstances.cells[k]
  <1> DEFINE room == sweep.instance.room
  <1>1. /\ sweep.pc = "remove1"
        /\ chatInstances' = RemoveChatInstancesForUser(chatInstances, client1)
    BY DEF RemoveFirst
  <1>2. sweep.instance \in Record /\ room \in Room
    BY <1>1, RecordUsers DEF TypeOK, SweepOK, Busy
  <1>3. PositionsOf(chatInstances, client1) = RecordsOf(room)
    BY <1>2, PositionsAreRecords DEF TypeOK, client1
  <1>4. RecordsOf(room) # {}
    <2>1. Listed(sweep.instance)
      BY <1>1 DEF LoopOK, ExaminedOK
    <2> QED
      BY <2>1 DEF Listed, RecordsOf
  <1>5. PICK i \in RecordsOf(room) :
          /\ chatInstances'.len = chatInstances.len - 1
          /\ \A k \in 1..Len(chatInstances.cells) :
               chatInstances'.cells[k] = IF i <= k /\ k < chatInstances.len
                                           THEN chatInstances.cells[k + 1]
                                           ELSE chatInstances.cells[k]
    BY <1>1, <1>3, <1>4, TableRemove DEF TypeOK
  <1>6. i \in 1..chatInstances.len /\ chatInstances.cells[i].room = room
    BY DEF RecordsOf
  <1> QED
    BY <1>5, <1>6

\* The second removal finds nothing to remove.
LEMMA NothingLeft ==
  ASSUME DisjointChats, TypeOK, RoomsOnce, RemoveSecond
  PROVE  UNCHANGED chatInstances
  <1> DEFINE room == sweep.instance.room
  <1>1. /\ sweep.pc = "remove2"
        /\ chatInstances' = RemoveChatInstancesForUser(chatInstances, client2)
    BY DEF RemoveSecond
  <1>2. sweep.instance \in Record /\ room \in Room
    BY <1>1, RecordUsers DEF TypeOK, SweepOK, Busy
  <1>3. PositionsOf(chatInstances, client2) = RecordsOf(room)
    BY <1>2, PositionsAreRecords DEF TypeOK, client2
  <1>4. RecordsOf(room) = {}
    BY <1>1, <1>2 DEF RoomsOnce, BeingMoved
  <1> QED
    BY <1>1, <1>3, <1>4, TableRemove DEF TypeOK

\* One step of the loop's invariant.
LEMMA LoopStep ==
  ASSUME DisjointChats, TypeOK, TypeOK', RoomsOnce, LoopOK, [Next]_tableVars
  PROVE  LoopOK'
  <1>0. sweep \in SweepState
    BY DEF TypeOK, SweepOK
  <1>1. ASSUME UNCHANGED <<chatInstances, sweep>>
        PROVE  LoopOK'
    BY <1>1, LoopSame
  <1>2. ASSUME NEW u \in User, NEW list \in Lists[u], UpdateDelayList(u, list)
        PROVE  LoopOK'
    BY <1>1, <1>2 DEF UpdateDelayList, sweepVars
  <1>3. ASSUME NEW r \in Room, MatchServer(r) \/ MatchFails(r)
        PROVE  LoopOK'
    BY <1>1, <1>3 DEF MatchServer, MatchFails, sweepVars
  <1>4. ASSUME NEW r \in Room, InsertMatch(r)
        PROVE  LoopOK'
    <2>1. /\ handler[r] = "insert" /\ sweep' = AfterInsert
          /\ chatInstances' = InsertChatInstance(chatInstances, Instance(r, invited[r]))
      BY <1>4 DEF InsertMatch
    <2>2. Instance(r, invited[r]) \in Record
      BY <2>1, UsersAssumption DEF TypeOK, HandlersOK, Instance, Record
    <2>3. /\ sweep'.pc = sweep.pc /\ sweep'.len = sweep.len /\ sweep'.i = sweep.i
          /\ sweep'.instance = sweep.instance
      BY <1>0, <2>1 DEF AfterInsert, SweepState
    <2> QED
      BY <2>1, <2>2, <2>3, LoopInsert
  <1>5. CASE Tick
    <2>1. sweep'.pc = "loop" /\ sweep'.aliased = TRUE /\ sweep'.len = chatInstances.len
            /\ UNCHANGED chatInstances
      BY <1>5 DEF Tick, IdleSweep
    <2> QED
      BY <2>1, LoopTypes DEF LoopOK, SharedOK, FrozenOK, ExaminedOK
  <1>6. CASE NextInstance
    <2>1. /\ sweep.pc = "loop" /\ sweep.i <= sweep.len /\ UNCHANGED chatInstances
          /\ sweep'.pc = "examine" /\ sweep'.i = sweep.i + 1 /\ sweep'.len = sweep.len
          /\ sweep'.instance = SweepCells[sweep.i]
          /\ sweep'.aliased = sweep.aliased /\ sweep'.cells = sweep.cells
      BY <1>0, <1>6 DEF NextInstance, SweepState
    <2>2. sweep.i \in Ahead /\ sweep.i \in 1..sweep.len /\ (sweep.i + 1) - 1 = sweep.i
            /\ \A k \in Ahead' : k \in Ahead /\ k # sweep.i
      BY <2>1, LoopTypes DEF Ahead
    <2>3. \A c : Listed(c)' <=> Listed(c)
      BY <2>1 DEF Listed
    <2>4. CASE sweep.aliased
      <3>1. sweep.i \in 1..chatInstances.len /\ sweep'.instance = chatInstances.cells[sweep.i]
        BY <2>1, <2>2, <2>4, LoopTypes DEF LoopOK, SharedOK, Removed, SweepCells
      <3>2. Listed(sweep'.instance)
        BY <3>1 DEF Listed
      <3> QED
        BY <2>1, <2>2, <2>3, <2>4, <3>1, <3>2 DEF LoopOK, SharedOK, FrozenOK, ExaminedOK, Removed
    <2>5. CASE ~sweep.aliased
      <3>1. sweep'.instance = sweep.cells[sweep.i]
        BY <2>1, <2>5 DEF SweepCells
      <3>2. /\ \A k \in Ahead : Listed(sweep.cells[k])
            /\ \A j, k \in Ahead : sweep.cells[j].room = sweep.cells[k].room => j = k
        BY <2>1, <2>5 DEF LoopOK, FrozenOK
      <3>3. FrozenOK'
        BY <2>1, <2>2, <2>3, <3>1, <3>2 DEF FrozenOK
      <3>4. ExaminedOK'
        BY <2>1, <2>2, <2>3, <2>5, <3>1, <3>2 DEF ExaminedOK
      <3> QED
        BY <2>1, <2>5, <3>3, <3>4 DEF LoopOK, SharedOK
    <2> QED
      BY <2>4, <2>5, LoopTypes
  <1>7. CASE EndSweep
    <2>1. sweep'.pc = "wait"
      BY <1>7 DEF EndSweep, IdleSweep
    <2> QED
      BY <2>1 DEF LoopOK, SharedOK, FrozenOK, ExaminedOK
  <1>8. CASE Keep \/ EndReroute
    <2>1. /\ sweep.pc \in {"examine", "redirect"} /\ sweep' = Continue
          /\ UNCHANGED chatInstances
      BY <1>8 DEF Keep, EndReroute
    <2>2. /\ sweep'.pc = "loop" /\ sweep'.len = sweep.len /\ sweep'.i = sweep.i
          /\ sweep'.aliased = sweep.aliased /\ sweep'.cells = sweep.cells
      BY <1>0, <2>1 DEF Continue, SweepState
    <2> QED
      BY <2>1, <2>2, LoopSame
  <1>9. CASE Reroute
    <2>1. /\ sweep.pc = "examine" /\ UNCHANGED chatInstances
          /\ sweep'.pc = "remove1" /\ sweep'.len = sweep.len /\ sweep'.i = sweep.i
          /\ sweep'.aliased = sweep.aliased /\ sweep'.cells = sweep.cells
          /\ sweep'.instance = sweep.instance
      BY <1>0, <1>9 DEF Reroute, SweepState
    <2> QED
      BY <2>1, LoopSame
  <1>10. CASE RemoveFirst
    <2>1. /\ sweep.pc = "remove1"
          /\ sweep'.pc = "remove2" /\ sweep'.len = sweep.len /\ sweep'.i = sweep.i
          /\ sweep'.aliased = sweep.aliased /\ sweep'.cells = sweep.cells
          /\ sweep'.instance = sweep.instance
      BY <1>0, <1>10 DEF RemoveFirst, SweepState
    <2>2. PICK i \in 1..chatInstances.len :
            /\ chatInstances.cells[i].room = sweep.instance.room
            /\ chatInstances'.len = chatInstances.len - 1
            /\ \A k \in 1..Len(chatInstances.cells) :
                 chatInstances'.cells[k] = IF i <= k /\ k < chatInstances.len
                                             THEN chatInstances.cells[k + 1]
                                             ELSE chatInstances.cells[k]
      BY <1>10, TakeOut
    <2>3. ASSUME NEW c, Listed(c), c.room # sweep.instance.room
          PROVE  Listed(c)'
      <3>1. PICK j \in 1..chatInstances.len : chatInstances.cells[j] = c
        BY <2>3 DEF Listed
      <3>2. j # i
        BY <2>2, <2>3, <3>1
      <3>3. CASE j < i
        <4>1. j \in 1..Len(chatInstances.cells) /\ j \in 1..chatInstances'.len /\ ~(i <= j)
          BY <2>2, <3>3, LoopTypes
        <4>2. chatInstances'.cells[j] = c
          BY <2>2, <3>1, <4>1
        <4> QED
          BY <4>1, <4>2 DEF Listed
      <3>4. CASE j > i
        <4>1. /\ j - 1 \in 1..Len(chatInstances.cells) /\ j - 1 \in 1..chatInstances'.len
              /\ i <= j - 1 /\ j - 1 < chatInstances.len /\ (j - 1) + 1 = j
          BY <2>2, <3>4, LoopTypes
        <4>2. chatInstances'.cells[j - 1] = c
          BY <2>2, <3>1, <4>1
        <4> QED
          BY <4>1, <4>2 DEF Listed
      <3> QED
        BY <3>2, <3>3, <3>4, LoopTypes
    <2>4. SharedOK'
      BY <2>1, <2>2, LoopTypes DEF LoopOK, SharedOK, Removed
    <2>5. FrozenOK'
      <3> SUFFICES ASSUME ~sweep.aliased
                   PROVE  FrozenOK'
        BY <2>1 DEF FrozenOK
      <3>1. /\ \A k \in Ahead : Listed(sweep.cells[k]) /\ sweep.cells[k].room # sweep.instance.room
            /\ \A j, k \in Ahead : sweep.cells[j].room = sweep.cells[k].room => j = k
        BY <2>1 DEF LoopOK, FrozenOK
      <3>2. \A k \in Ahead : Listed(sweep.cells[k])'
        BY <2>1, <2>3, <3>1
      <3> QED
        BY <2>1, <3>1, <3>2 DEF FrozenOK, Ahead
    <2> QED
      BY <2>1, <2>4, <2>5 DEF LoopOK, ExaminedOK
  <1>11. CASE RemoveSecond
    <2>1. /\ sweep.pc = "remove2"
          /\ chatInstances' = RemoveChatInstancesForUser(chatInstances, client2)
          /\ sweep'.pc = "insert" /\ sweep'.len = sweep.len /\ sweep'.i = sweep.i
          /\ sweep'.aliased = sweep.aliased /\ sweep'.cells = sweep.cells
          /\ sweep'.instance = sweep.instance
      BY <1>0, <1>11 DEF RemoveSecond, SweepState
    <2>2. UNCHANGED chatInstances
      BY <1>11, NothingLeft
    <2> QED
      BY <2>1, <2>2, LoopSame
  <1>12. CASE Reinsert
    <2> DEFINE new == [sweep.instance EXCEPT !.server = sweep.serverIP]
    <2>1. /\ sweep.pc = "insert"
          /\ chatInstances' = InsertChatInstance(chatInstances, new)
          /\ sweep' = [AfterInsert EXCEPT !.pc = "redirect"]
      BY <1>12 DEF Reinsert
    <2>2. new \in Record
      BY <2>1 DEF TypeOK, SweepOK, Busy, Record
    <2> HIDE DEF new
    <2>3. /\ sweep'.pc = "redirect" /\ sweep'.len = sweep.len /\ sweep'.i = sweep.i
          /\ sweep'.instance = sweep.instance
          /\ sweep'.aliased = AfterInsert.aliased
          /\ sweep'.cells = AfterInsert.cells
      BY <1>0, <2>1 DEF AfterInsert, SweepState
    <2> QED
      BY <2>1, <2>2, <2>3, LoopInsert
  <1>13. CASE UNCHANGED tableVars
    BY <1>1, <1>13 DEF tableVars, sweepVars
  <1> QED
    BY <1>2, <1>3, <1>4, <1>5, <1>6, <1>7, <1>8, <1>9, <1>10, <1>11, <1>12, <1>13
    DEF Next, SweepStep, AnalysisStep, HandlerStep

\* Everything that is invariant about the table and the loop.
TableInv == TypeOK /\ SweepMatched /\ RoomsOnce /\ LoopOK

LEMMA TableInvariant ==
  ASSUME DisjointChats
  PROVE  Spec => []TableInv
  <1>1. Init => TableInv
    <2> SUFFICES ASSUME Init PROVE LoopOK
      BY RoomsOnceInit, TypeOKInit DEF TableInv
    <2>1. sweep.pc = "wait"
      BY DEF Init, IdleSweep
    <2> QED
      BY <2>1 DEF LoopOK, SharedOK, FrozenOK, ExaminedOK
  <1>2. TableInv /\ [Next]_tableVars => TableInv'
    BY TypeOKStep, RoomsOnceStep, LoopStep DEF TableInv
  <1> QED
    BY <1>1, <1>2, PTL DEF Spec

\* Whatever shifts, overwrites or replaces the array that backgroundAnalysis
\* ranges over, the instance it examines is the current record of its chat.
THEOREM ExaminesCurrent ==
  ASSUME DisjointChats
  PROVE  Spec => []ExaminesCurrentRecord
  <1>1. TableInv => ExaminesCurrentRecord
    BY DEF TableInv, LoopOK, ExaminedOK, Listed, ExaminesCurrentRecord
  <1> QED
    BY <1>1, TableInvariant, PTL
----------------------------------------------------------------------------
\* The cells that Skipped counts as still to come.
Coming == {k \in Ahead : sweep.aliased => k <= chatInstances.len}

\* When no room that was to come is lost, no more chats are skipped.
LEMMA NoneSkipped ==
  ASSUME sweep.pc # "wait", missing' \subseteq missing,
         \A k \in Coming : \/ SweepCells[k].room \notin missing'
                           \/ \E j \in Coming' : SweepCells'[j].room = SweepCells[k].room
  PROVE  Skipped' \subseteq Skipped
  <1>1. Skipped = missing \ {SweepCells[k].room : k \in Coming}
    BY DEF Skipped, Coming, Ahead
  <1>2. Skipped' \subseteq missing' \ {SweepCells'[k].room : k \in Coming'}
    BY DEF Skipped, Coming, Ahead
  <1> QED
    BY <1>1, <1>2

\* An insertion, in place or with a move to a new array, skips nothing.
LEMMA InsertSkipsNone ==
  ASSUME TypeOK, NEW x \in Record,
         chatInstances' = InsertChatInstance(chatInstances, x),
         sweep'.aliased = AfterInsert.aliased, sweep'.cells = AfterInsert.cells,
         sweep'.i = sweep.i, sweep'.len = sweep.len, missing' = missing,
         sweep.pc = "wait" => sweep'.pc = "wait"
  PROVE  Skipped' \subseteq Skipped
  <1>1. CASE sweep.pc = "wait"
    BY <1>1 DEF Skipped
  <1>2. CASE sweep.pc # "wait"
    <2>1. ASSUME NEW k \in Coming
          PROVE  k \in Coming' /\ SweepCells'[k] = SweepCells[k]
      <3>0. k \in Ahead /\ k \in Ahead' /\ k \in 1..sweep.len
        BY <1>2, <2>1, LoopTypes DEF Coming, Ahead
      <3>1. CASE ~sweep.aliased
        BY <3>0, <3>1 DEF Coming, SweepCells, AfterInsert
      <3>2. CASE sweep.aliased /\ Reallocates(chatInstances)
        <4>1. AfterInsert = [sweep EXCEPT !.aliased = FALSE, !.cells = chatInstances.cells]
          BY <3>2 DEF AfterInsert
        <4>2. sweep'.aliased = FALSE /\ sweep'.cells = chatInstances.cells
          BY <4>1 DEF TypeOK, SweepOK, SweepState
        <4> QED
          BY <3>0, <3>2, <4>2 DEF Coming, SweepCells
      <3>3. CASE sweep.aliased /\ ~Reallocates(chatInstances)
        <4>1. sweep'.aliased = sweep.aliased
          BY <3>3 DEF AfterInsert
        <4>2. k \in 1..chatInstances.len
          BY <2>1, <3>0, <3>3, LoopTypes DEF Coming
        <4>3. /\ chatInstances'.len = chatInstances.len + 1
              /\ chatInstances'.cells[k] = chatInstances.cells[k]
          BY <4>2, TableInsert DEF TypeOK
        <4>4. k <= chatInstances'.len
          BY <4>2, <4>3, LoopTypes
        <4> QED
          BY <3>0, <3>3, <4>1, <4>3, <4>4 DEF Coming, SweepCells
      <3> QED
        BY <3>1, <3>2, <3>3, LoopTypes
    <2> QED
      BY <1>2, <2>1, NoneSkipped
  <1> QED
    BY <1>1, <1>2

\* Taking a record out skips the chat behind it, if the loop shares the array.
LEMMA TakeOutSkipsOne ==
  ASSUME DisjointChats, TypeOK, RoomsOnce, LoopOK, RemoveFirst
  PROVE  Skipped' \subseteq Skipped \/ Cardinality(Skipped' \ Skipped) = 1
  <1>1. /\ sweep.pc = "remove1" /\ missing' = missing
        /\ sweep'.pc = "remove2" /\ sweep'.len = sweep.len /\ sweep'.i = sweep.i
        /\ sweep'.aliased = sweep.aliased /\ sweep'.cells = sweep.cells
    BY DEF RemoveFirst, TypeOK, SweepOK, SweepState
  <1>2. CASE ~sweep.aliased
    <2>1. Coming' = Coming /\ SweepCells' = SweepCells
      BY <1>1, <1>2 DEF Coming, Ahead, SweepCells
    <2> QED
      BY <1>1, <2>1, NoneSkipped
  <1>3. CASE sweep.aliased
    <2>1. /\ SweepCells = chatInstances.cells /\ SweepCells' = chatInstances'.cells
          /\ sweep.i - 1 \in 1..sweep.len /\ sweep.len <= chatInstances.len
          /\ chatInstances.cells[sweep.i - 1] = sweep.instance
      BY <1>1, <1>3 DEF SweepCells, LoopOK, ExaminedOK, SharedOK, Removed
    <2>2. PICK i \in 1..chatInstances.len :
            /\ chatInstances.cells[i].room = sweep.instance.room
            /\ chatInstances'.len = chatInstances.len - 1
            /\ \A k \in 1..Len(chatInstances.cells) :
                 chatInstances'.cells[k] = IF i <= k /\ k < chatInstances.len
                                             THEN chatInstances.cells[k + 1]
                                             ELSE chatInstances.cells[k]
      BY TakeOut
    <2>3. i = sweep.i - 1
      <3>1. sweep.i - 1 \in 1..chatInstances.len
        BY <2>1, LoopTypes
      <3> QED
        BY <2>1, <2>2, <3>1, OneRecord
    <2>4. ASSUME NEW k \in Coming, k # sweep.i
          PROVE  k - 1 \in Coming' /\ SweepCells'[k - 1] = SweepCells[k]
      <3>1. /\ k \in sweep.i..sweep.len /\ k <= chatInstances.len
        BY <1>3, <2>4 DEF Coming, Ahead
      <3>2. /\ k - 1 \in sweep.i..sweep.len /\ k - 1 <= chatInstances'.len
            /\ k - 1 \in 1..Len(chatInstances.cells) /\ (k - 1) + 1 = k
            /\ i <= k - 1 /\ k - 1 < chatInstances.len
        BY <2>1, <2>2, <2>3, <2>4, <3>1, LoopTypes
      <3>3. chatInstances'.cells[k - 1] = chatInstances.cells[k]
        BY <2>2, <3>2
      <3> QED
        BY <1>1, <2>1, <3>2, <3>3 DEF Coming, Ahead
    <2>5. Skipped = missing \ {SweepCells[k].room : k \in Coming}
      BY <1>1 DEF Skipped, Coming, Ahead
    <2>6. Skipped' = missing \ {SweepCells'[k].room : k \in Coming'}
      BY <1>1 DEF Skipped, Coming, Ahead
    <2>7. Skipped' \ Skipped \subseteq {SweepCells[sweep.i].room}
      <3> SUFFICES ASSUME NEW r \in Skipped', r \notin Skipped, r # SweepCells[sweep.i].room
                   PROVE  FALSE
        OBVIOUS
      <3>1. PICK k \in Coming : r = SweepCells[k].room
        BY <2>5, <2>6
      <3>2. k # sweep.i
        BY <3>1
      <3>3. k - 1 \in Coming' /\ SweepCells'[k - 1].room = r
        BY <2>4, <3>1, <3>2
      <3> QED
        BY <2>6, <3>3
    <2>8. CASE Skipped' \ Skipped = {}
      BY <2>8
    <2>9. CASE Skipped' \ Skipped # {}
      <3>1. Skipped' \ Skipped = {SweepCells[sweep.i].room}
        BY <2>7, <2>9
      <3> QED
        BY <3>1, FS_Singleton
    <2> QED
      BY <2>8, <2>9
  <1> QED
    BY <1>2, <1>3, LoopTypes

\* A step of Central, and the chats it makes the running loop skip.
LEMMA SkipStep ==
  ASSUME DisjointChats, TableInv, [Next]_tableVars
  PROVE  \/ Skipped' \subseteq Skipped
         \/ RemoveFirst /\ Cardinality(Skipped' \ Skipped) = 1
         \/ UNCHANGED tableVars
  <1>0. TypeOK /\ RoomsOnce /\ LoopOK /\ sweep \in SweepState
    BY DEF TableInv, TypeOK, SweepOK
  <1>1. ASSUME UNCHANGED <<chatInstances, sweep, missing>>
        PROVE  Skipped' \subseteq Skipped
    BY <1>1 DEF Skipped, SweepCells
  <1>2. ASSUME NEW u \in User, NEW list \in Lists[u], UpdateDelayList(u, list)
        PROVE  Skipped' \subseteq Skipped
    BY <1>1, <1>2 DEF UpdateDelayList, sweepVars
  <1>3. ASSUME NEW r \in Room, MatchServer(r) \/ MatchFails(r)
        PROVE  Skipped' \subseteq Skipped
    BY <1>1, <1>3 DEF MatchServer, MatchFails, sweepVars
  <1>4. ASSUME NEW r \in Room, InsertMatch(r)
        PROVE  Skipped' \subseteq Skipped
    <2>1. /\ handler[r] = "insert" /\ sweep' = AfterInsert /\ missing' = missing
          /\ chatInstances' = InsertChatInstance(chatInstances, Instance(r, invited[r]))
      BY <1>4 DEF InsertMatch
    <2>2. Instance(r, invited[r]) \in Record
      BY <1>0, <2>1, UsersAssumption DEF TypeOK, HandlersOK, Instance, Record
    <2>3. sweep'.pc = sweep.pc /\ sweep'.len = sweep.len /\ sweep'.i = sweep.i
      BY <1>0, <2>1 DEF AfterInsert, SweepState
    <2> QED
      BY <1>0, <2>1, <2>2, <2>3, InsertSkipsNone
  <1>5. CASE Tick
    <2>1. /\ sweep.pc = "wait" /\ sweep'.pc = "loop" /\ sweep'.aliased = TRUE
          /\ sweep'.len = chatInstances.len /\ sweep'.i = 1
          /\ UNCHANGED chatInstances /\ missing' = RecordedRooms
      BY <1>5 DEF Tick, IdleSweep
    <2>2. \A k \in 1..chatInstances.len : Entries(chatInstances)[k] = chatInstances.cells[k]
      <3>1. chatInstances.cells \in Seq(Cell)
        BY <1>0 DEF TypeOK, TableOK
      <3> QED
        BY <1>0, <3>1, LoopTypes DEF Entries
    <2>3. Coming' = 1..chatInstances.len /\ SweepCells' = chatInstances.cells
      BY <1>0, <2>1, LoopTypes DEF Coming, Ahead, SweepCells
    <2>4. RecordedRooms = {chatInstances.cells[k].room : k \in 1..chatInstances.len}
      BY <2>2 DEF RecordedRooms
    <2>5. Skipped' = missing' \ {SweepCells'[k].room : k \in Coming'}
      BY <2>1 DEF Skipped, Coming, Ahead
    <2> QED
      BY <2>1, <2>3, <2>4, <2>5
  <1>6. CASE NextInstance
    <2>1. /\ sweep.pc = "loop" /\ UNCHANGED chatInstances
          /\ missing' = missing \ {SweepCells[sweep.i].room}
          /\ sweep'.i = sweep.i + 1 /\ sweep'.len = sweep.len
          /\ sweep'.aliased = sweep.aliased /\ sweep'.cells = sweep.cells
      BY <1>0, <1>6 DEF NextInstance, SweepState
    <2>2. SweepCells' = SweepCells /\ \A k \in Coming : k = sweep.i \/ k \in Coming'
      BY <1>0, <2>1, LoopTypes DEF SweepCells, Coming, Ahead
    <2> QED
      BY <2>1, <2>2, NoneSkipped
  <1>7. CASE EndSweep
    <2>1. sweep'.pc = "wait"
      BY <1>7 DEF EndSweep, IdleSweep
    <2> QED
      BY <2>1 DEF Skipped
  <1>8. CASE Keep \/ EndReroute \/ Reroute \/ RemoveSecond
    <2>1. UNCHANGED chatInstances
      BY <1>0, <1>8, NothingLeft DEF Keep, EndReroute, Reroute
    <2>2. /\ sweep.pc # "wait" /\ missing' = missing
          /\ sweep'.len = sweep.len /\ sweep'.i = sweep.i
          /\ sweep'.aliased = sweep.aliased /\ sweep'.cells = sweep.cells
      BY <1>0, <1>8 DEF Keep, EndReroute, Reroute, RemoveSecond, Continue, SweepState
    <2>3. Coming' = Coming /\ SweepCells' = SweepCells
      BY <2>1, <2>2 DEF Coming, Ahead, SweepCells
    <2> QED
      BY <2>2, <2>3, NoneSkipped
  <1>9. CASE RemoveFirst
    BY <1>0, <1>9, TakeOutSkipsOne
  <1>10. CASE Reinsert
    <2> DEFINE new == [sweep.instance EXCEPT !.server = sweep.serverIP]
    <2>1. /\ sweep.pc = "insert" /\ missing' = missing
          /\ chatInstances' = InsertChatInstance(chatInstances, new)
          /\ sweep' = [AfterInsert EXCEPT !.pc = "redirect"]
      BY <1>10 DEF Reinsert
    <2>2. new \in Record
      BY <1>0, <2>1 DEF TypeOK, SweepOK, Busy, Record
    <2> HIDE DEF new
    <2>3. /\ sweep'.len = sweep.len /\ sweep'.i = sweep.i
          /\ sweep'.aliased = AfterInsert.aliased
          /\ sweep'.cells = AfterInsert.cells
      BY <1>0, <2>1 DEF AfterInsert, SweepState
    <2> QED
      BY <1>0, <2>1, <2>2, <2>3, InsertSkipsNone
  <1> QED
    BY <1>2, <1>3, <1>4, <1>5, <1>6, <1>7, <1>8, <1>9, <1>10
    DEF Next, SweepStep, AnalysisStep, HandlerStep

\* The running loop of backgroundAnalysis skips a chat only when it takes a
\* record out of the array it ranges over, and one chat at a time.
THEOREM SkipsAtMostOne ==
  ASSUME DisjointChats
  PROVE  Spec => SkipsOnePerMove
  <1>1. TableInv /\ [Next]_tableVars =>
          [\/ Skipped' \subseteq Skipped
           \/ RemoveFirst /\ Cardinality(Skipped' \ Skipped) = 1]_tableVars
    BY SkipStep
  <1> QED
    BY <1>1, TableInvariant, PTL DEF Spec, SkipsOnePerMove
----------------------------------------------------------------------------

\* A step of the composed system is a step of the chat table or leaves the
\* table alone.
LEMMA StepImplementsTable ==
  ASSUME [RelocationNext]_vars
  PROVE  [Next]_tableVars
<1>1. CASE UNCHANGED vars
  BY <1>1 DEF vars
<1>2. CASE CentralStep
  BY <1>2 DEF CentralStep, Next, SweepStep
<1>3. CASE Redirect \/ RedirectFails
  BY <1>3 DEF Redirect, RedirectFails, Next, SweepStep
<1>4. ASSUME NEW u \in User, ClientStep(u) \/ ReachSelect(u) \/ Quit(u) \/ Report(u)
      PROVE  [Next]_tableVars
  <2>1. CASE ClientStep(u)
    BY <2>1 DEF ClientStep, JoinChat, JoinFails, Follow, FollowFails, CloseLeaked, Take
  <2>2. CASE Quit(u) \/ ReachSelect(u)
    BY <2>2 DEF Quit, ReachSelect
  <2>3. CASE Report(u)
    BY <2>3 DEF Report, Next
  <2> QED
    BY <1>4, <2>1, <2>2, <2>3
<1> QED
  BY <1>1, <1>2, <1>3, <1>4 DEF RelocationNext

\* Central's table in the presence of the clients behaves as module ChatTable
\* says.
THEOREM ImplementsChatTable == RelocationSpec => Spec
<1>1. RelocationInit => Init
  BY DEF RelocationInit
<1> QED
  BY <1>1, StepImplementsTable, PTL DEF RelocationSpec, Spec
----------------------------------------------------------------------------
\* What is appended to a queue of redirects keeps it one.
LEMMA AppendRedirect ==
  ASSUME NEW S, NEW q \in Seq(S), NEW x \in S
  PROVE  Append(q, x) \in Seq(S)
OBVIOUS

\* A step keeps the types of the clients, given those of the table.
LEMMA ClientsTypeStep ==
  ASSUME TypeOK, ClientsTypeOK, [RelocationNext]_vars
  PROVE  ClientsTypeOK'
<1> DEFINE Q == Server \cup {Leaked}
<1> USE DEF ClientsTypeOK
<1>1. CASE UNCHANGED vars
  BY <1>1 DEF vars, clientVars
<1>2. CASE CentralStep
  BY <1>2 DEF CentralStep, clientVars
<1>3. CASE Redirect \/ RedirectFails
  <2>1. sweep.serverIP \in Q /\ Leaked \in Q
    BY <1>3 DEF Redirect, RedirectFails, EndReroute, TypeOK, SweepOK, Busy
  <2>2. chat' = chat /\ atSelect' = atSelect
    BY <1>3 DEF Redirect, RedirectFails
  <2>3. \E x \in Q : redirects' = [u \in User |->
                        IF u \in {client1, client2} /\ (Redirect \/ Listening(u))
                          THEN Append(redirects[u], x)
                          ELSE redirects[u]]
    <3>1. CASE Redirect
      BY <2>1, <3>1 DEF Redirect
    <3>2. CASE RedirectFails
      BY <2>1, <3>2 DEF Redirect, RedirectFails
    <3> QED
      BY <1>3, <3>1, <3>2
  <2>4. ASSUME NEW u \in User, NEW x \in Q
        PROVE  Append(redirects[u], x) \in Seq(Q)
    BY AppendRedirect
  <2>5. redirects' \in [User -> Seq(Q)]
    <3> HIDE DEF Q
    <3> QED
      BY <2>3, <2>4 DEF Q
  <2> QED
    BY <2>2, <2>5
<1>4. ASSUME NEW u \in User, ClientStep(u)
      PROVE  ClientsTypeOK'
  <2>1. ASSUME redirects[u] # <<>>
        PROVE  /\ Head(redirects[u]) \in Q
               /\ Tail(redirects[u]) \in Seq(Q)
    <3>1. redirects[u] \in Seq(Q)
      OBVIOUS
    <3> QED
      BY <2>1, <3>1
  <2>2. ASSUME NEW r \in Room, JoinChat(u, r) \/ JoinFails(u, r)
        PROVE  ClientsTypeOK'
    <3>1. invited[r] \in Server
      BY <2>2 DEF JoinChat, JoinFails, TypeOK, HandlersOK
    <3> QED
      BY <2>2, <3>1 DEF JoinChat, JoinFails
  <2>3. CASE Follow(u)
    <3> HIDE DEF Q
    <3>1. /\ chat' = [chat EXCEPT ![u] = Head(redirects[u])]
          /\ redirects' = [redirects EXCEPT ![u] = Tail(redirects[u])]
          /\ redirects[u] # <<>> /\ atSelect' = atSelect \ {u}
      BY <2>3 DEF Follow, Take
    <3>2. Head(redirects[u]) \in Server
      BY <2>1, <2>3 DEF Follow, Take, Q
    <3> QED
      BY <2>1, <3>1, <3>2 DEF Q
  <2>4. CASE FollowFails(u) \/ CloseLeaked(u)
    <3> HIDE DEF Q
    <3>1. /\ chat' = chat
          /\ redirects' = [redirects EXCEPT ![u] = Tail(redirects[u])]
          /\ redirects[u] # <<>> /\ atSelect' = atSelect \ {u}
      BY <2>4 DEF FollowFails, CloseLeaked, Take
    <3> QED
      BY <2>1, <3>1 DEF Q
  <2> QED
    BY <1>4, <2>2, <2>3, <2>4 DEF ClientStep
<1>5. ASSUME NEW u \in User, Quit(u)
      PROVE  ClientsTypeOK'
  BY <1>5 DEF Quit
<1>6. ASSUME NEW u \in User, Report(u)
      PROVE  ClientsTypeOK'
  BY <1>6 DEF Report, clientVars
<1>7. ASSUME NEW u \in User, ReachSelect(u)
      PROVE  ClientsTypeOK'
  BY <1>7 DEF ReachSelect
<1> QED
  BY <1>1, <1>2, <1>3, <1>4, <1>5, <1>6, <1>7 DEF RelocationNext

\* A client is on a chat server, or not in a chat at all: what it is told by
\* Central, in whatever order, is always the address of a chat server.
THEOREM ClientsTypeCorrect == RelocationSpec => []ClientsTypeOK
<1>1. RelocationInit => ClientsTypeOK
  BY DEF RelocationInit, ClientsTypeOK
<1>2. RelocationSpec => []TypeOK
  BY ImplementsChatTable, TypeCorrect, PTL
<1> QED
  BY <1>1, <1>2, ClientsTypeStep, PTL DEF RelocationSpec
----------------------------------------------------------------------------
\* The last written redirect of a queue.
LEMMA LastExists ==
  ASSUME NEW S, NEW q \in Seq(S), Written(q) # {}
  PROVE  LastWritten(q) \in Written(q) /\ \A j \in Written(q) : j <= LastWritten(q)
<1> DEFINE n == Len(q)
           T == {n - k : k \in Written(q)}
<1>1. n \in Nat /\ \A k \in Written(q) : k \in 1..n
  BY DEF Written
<1>2. T \subseteq Nat /\ T # {}
  BY <1>1
<1>3. PICK t \in T : \A j \in T : t <= j
  BY <1>2, LeastElement
<1>4. PICK k \in Written(q) : t = n - k
  BY <1>3
<1>5. \A j \in Written(q) : j <= k
  <2> TAKE j \in Written(q)
  <2>1. n - j \in T
    OBVIOUS
  <2>2. n - k <= n - j
    BY <1>3, <1>4, <2>1
  <2> QED
    BY <1>1, <2>2
<1>6. \E m \in Written(q) : \A j \in Written(q) : j <= m
  BY <1>5
<1> QED
  BY <1>6 DEF LastWritten

LEMMA LastIs ==
  ASSUME NEW S, NEW q \in Seq(S), NEW k \in Written(q), \A j \in Written(q) : j <= k
  PROVE  LastWritten(q) = k
<1>1. LastWritten(q) \in Written(q) /\ \A j \in Written(q) : j <= LastWritten(q)
  BY LastExists
<1>2. LastWritten(q) \in Nat /\ k \in Nat
  BY <1>1 DEF Written
<1> QED
  BY <1>1, <1>2

\* An address at the end of a queue is the last one written.
LEMMA LastAppend ==
  ASSUME NEW S, NEW q \in Seq(S), NEW x \in S, x # Leaked
  PROVE  Written(Append(q, x)) # {} /\ Append(q, x)[LastWritten(Append(q, x))] = x
<1> DEFINE p == Append(q, x)
<1>1. p \in Seq(S) /\ Len(p) \in Nat /\ Len(p) \in 1..Len(p) /\ p[Len(p)] = x
  OBVIOUS
<1> HIDE DEF p
<1>2. Len(p) \in Written(p) /\ \A j \in Written(p) : j <= Len(p)
  BY <1>1 DEF Written
<1>3. LastWritten(p) = Len(p)
  BY <1>1, <1>2, LastIs
<1> QED
  BY <1>1, <1>2, <1>3 DEF p

\* A leaked connection at the end changes nothing.
LEMMA LastLeaked ==
  ASSUME NEW S, NEW q \in Seq(S), Leaked \in S
  PROVE  /\ Written(Append(q, Leaked)) = Written(q)
         /\ Written(q) # {} =>
              Append(q, Leaked)[LastWritten(Append(q, Leaked))] = q[LastWritten(q)]
<1> DEFINE p == Append(q, Leaked)
<1>1. /\ Len(q) \in Nat /\ Len(p) = Len(q) + 1 /\ p[Len(p)] = Leaked
      /\ \A k \in 1..Len(q) : p[k] = q[k]
  OBVIOUS
<1> HIDE DEF p
<1>2. Written(p) = Written(q)
  BY <1>1 DEF Written
<1>3. ASSUME Written(q) # {}
      PROVE  p[LastWritten(p)] = q[LastWritten(q)]
  <2>1. LastWritten(p) = LastWritten(q)
    BY <1>2 DEF LastWritten
  <2>2. LastWritten(q) \in 1..Len(q)
    BY <1>3, LastExists DEF Written
  <2> QED
    BY <1>1, <2>1, <2>2
<1> QED
  BY <1>2, <1>3 DEF p

\* The head of a queue is taken off.
LEMMA LastTail ==
  ASSUME NEW S, NEW q \in Seq(S), q # <<>>
  PROVE  /\ Written(Tail(q)) # {} =>
              Written(q) # {} /\ Tail(q)[LastWritten(Tail(q))] = q[LastWritten(q)]
         /\ (Written(Tail(q)) = {} /\ Head(q) # Leaked) =>
              Written(q) # {} /\ q[LastWritten(q)] = Head(q)
         /\ (Written(Tail(q)) = {} /\ Head(q) = Leaked) => Written(q) = {}
<1> DEFINE p == Tail(q)
<1>1. /\ Len(q) \in Nat /\ Len(q) > 0 /\ Len(p) = Len(q) - 1 /\ Head(q) = q[1] /\ p \in Seq(S)
      /\ \A k \in 1..Len(p) : p[k] = q[k + 1]
  OBVIOUS
<1> HIDE DEF p
<1>2. \A k \in Written(p) : k + 1 \in Written(q) /\ p[k] = q[k + 1]
  BY <1>1 DEF Written
<1>3. \A k \in Written(q) : k = 1 \/ (k - 1 \in Written(p) /\ (k - 1) + 1 = k)
  <2> SUFFICES ASSUME NEW k \in Written(q), k # 1
               PROVE  k - 1 \in Written(p) /\ (k - 1) + 1 = k
    OBVIOUS
  <2>1. k \in 1..Len(q) /\ q[k] # Leaked
    BY DEF Written
  <2>2. k - 1 \in 1..Len(p) /\ (k - 1) + 1 = k
    BY <1>1, <2>1
  <2>3. p[k - 1] = q[k]
    BY <1>1, <2>2
  <2> QED
    BY <2>1, <2>2, <2>3 DEF Written
<1>4. ASSUME Written(p) # {}
      PROVE  Written(q) # {} /\ p[LastWritten(p)] = q[LastWritten(q)]
  <2>1. PICK m \in Written(p) : m = LastWritten(p) /\ \A j \in Written(p) : j <= m
    BY <1>1, <1>4, LastExists
  <2>2. m \in Nat /\ m >= 1 /\ m + 1 \in Written(q) /\ p[m] = q[m + 1]
    BY <1>2 DEF Written
  <2>3. \A j \in Written(q) : j <= m + 1
    <3> TAKE j \in Written(q)
    <3>1. j \in Nat /\ (j = 1 \/ j - 1 <= m)
      BY <1>3, <2>1 DEF Written
    <3> QED
      BY <2>2, <3>1
  <2>4. LastWritten(q) = m + 1
    BY <2>2, <2>3, LastIs
  <2> QED
    BY <2>1, <2>2, <2>4
<1>5. ASSUME Written(p) = {}, Head(q) # Leaked
      PROVE  Written(q) # {} /\ q[LastWritten(q)] = Head(q)
  <2>1. 1 \in Written(q) /\ \A j \in Written(q) : j <= 1
    BY <1>1, <1>3, <1>5 DEF Written
  <2>2. LastWritten(q) = 1
    BY <2>1, LastIs
  <2> QED
    BY <1>1, <2>1, <2>2
<1>6. ASSUME Written(p) = {}, Head(q) = Leaked
      PROVE  Written(q) = {}
  BY <1>1, <1>3, <1>6 DEF Written
<1> QED
  BY <1>4, <1>5, <1>6 DEF p
----------------------------------------------------------------------------
\* Only who is in a chat is redirected; nobody is in a chat before the handler
\* has sent the invitation, which it does once.
ClientsInv ==
  /\ \A u \in User : redirects[u] # <<>> => chat[u] \in Server
  /\ \A r \in Room : handler[r] = "answered" => invited[r] = None
  /\ \A r \in Room : \A k \in 1..2 : chat[Users[r][k]] \in Server => invited[r] # None

\* Neither the user nor the invitation is affected.
LEMMA ToldSame ==
  ASSUME NEW u, NEW r, redirects'[u] = redirects[u], chat'[u] = chat[u], invited'[r] = invited[r]
  PROVE  LastTold(u, r)' = LastTold(u, r)
BY DEF LastTold

\* A client that takes a redirect off its queue acts on the same address in
\* the end: it has connected to what it was told, or was told nothing.
LEMMA ToldTail ==
  ASSUME ClientsTypeOK, NEW u \in User, NEW r, redirects[u] # <<>>,
         redirects'[u] = Tail(redirects[u]), invited'[r] = invited[r],
         \/ Head(redirects[u]) \in Server /\ chat'[u] = Head(redirects[u])
         \/ Head(redirects[u]) = Leaked /\ chat'[u] = chat[u]
  PROVE  LastTold(u, r)' = LastTold(u, r)
<1> DEFINE q == redirects[u]
           p == Tail(q)
<1>1. q \in Seq(Server \cup {Leaked}) /\ Leaked \notin Server
  BY AddressesAssumption DEF ClientsTypeOK
<1>2. /\ Written(p) # {} => Written(q) # {} /\ p[LastWritten(p)] = q[LastWritten(q)]
      /\ (Written(p) = {} /\ Head(q) # Leaked) => Written(q) # {} /\ q[LastWritten(q)] = Head(q)
      /\ (Written(p) = {} /\ Head(q) = Leaked) => Written(q) = {}
  BY <1>1, LastTail
<1>3. LastTold(u, r)' = IF Written(p) # {} THEN p[LastWritten(p)]
                        ELSE IF chat'[u] \in Server THEN chat'[u] ELSE invited[r]
  BY DEF LastTold
<1>4. LastTold(u, r) = IF Written(q) # {} THEN q[LastWritten(q)]
                       ELSE IF chat[u] \in Server THEN chat[u] ELSE invited[r]
  BY DEF LastTold
<1> HIDE DEF p
<1> QED
  BY <1>1, <1>2, <1>3, <1>4

\* One step of what partners are told.
LEMMA ToldStep ==
  ASSUME DisjointChats, TypeOK, ClientsTypeOK, ClientsInv, PartnersToldSame, [RelocationNext]_vars
  PROVE  ClientsInv' /\ PartnersToldSame'
<1> DEFINE Same(r) == LastTold(Users[r][1], r) = LastTold(Users[r][2], r)
<1>0. \A r \in Room : Users[r][1] \in User /\ Users[r][2] \in User
  BY UsersAssumption
<1>a. /\ \A u \in User : chat[u] \in Server \cup {NotInChat, Stuck, Gone}
      /\ \A u \in User : redirects[u] \in Seq(Server \cup {Leaked})
      /\ {Leaked, NotInChat, Stuck, Gone} \cap Server = {}
  BY AddressesAssumption DEF ClientsTypeOK
<1>1. ASSUME UNCHANGED <<handler, invited, chat, redirects>>
      PROVE  ClientsInv' /\ PartnersToldSame'
  <2>1. ClientsInv'
    BY <1>1 DEF ClientsInv
  <2>2. PartnersToldSame'
    BY <1>1, ToldSame DEF PartnersToldSame, DialsSucceed, Present
  <2> QED
    BY <2>1, <2>2
<1>2. CASE CentralStep
  <2>1. UNCHANGED <<chat, redirects>>
    BY <1>2 DEF CentralStep, clientVars
  <2>2. CASE AnalysisStep
    <3>1. UNCHANGED <<handler, invited>>
      BY <2>2 DEF AnalysisStep, Tick, NextInstance, EndSweep, Keep, Reroute, RemoveFirst,
                  RemoveSecond, Reinsert, handlerVars
    <3> QED
      BY <1>1, <2>1, <3>1
  <2>3. ASSUME NEW q \in Room, MatchFails(q) \/ InsertMatch(q)
        PROVE  ClientsInv' /\ PartnersToldSame'
    <3>1. invited' = invited /\ \A r \in Room : handler'[r] = "answered" => handler[r] = "answered"
      BY <2>3 DEF MatchFails, InsertMatch, TypeOK, HandlersOK
    <3>2. ClientsInv'
      BY <2>1, <3>1 DEF ClientsInv
    <3>3. PartnersToldSame'
      BY <2>1, <3>1, ToldSame DEF PartnersToldSame, DialsSucceed, Present
    <3> QED
      BY <3>2, <3>3
  <2>4. ASSUME NEW q \in Room, MatchServer(q)
        PROVE  ClientsInv' /\ PartnersToldSame'
    <3>1. /\ handler[q] = "answered" /\ handler' = [handler EXCEPT ![q] = "insert"]
          /\ \E s \in Candidates(Users[q][1], Users[q][2]) : invited' = [invited EXCEPT ![q] = s]
      BY <2>4 DEF MatchServer
    <3>2. Candidates(Users[q][1], Users[q][2]) \subseteq Server
      BY <1>0, CandidatesAreServers DEF TypeOK
    <3>3. /\ invited'[q] # None /\ \A r \in Room : r # q => invited'[r] = invited[r]
          /\ \A r \in Room : handler'[r] = "answered" => handler[r] = "answered" /\ r # q
      BY <3>1, <3>2, NoneAssumption DEF TypeOK, HandlersOK
    <3>4. ClientsInv'
      BY <2>1, <3>3 DEF ClientsInv
    <3>5. \A k \in 1..2 : chat[Users[q][k]] \notin Server /\ redirects[Users[q][k]] = <<>>
      BY <1>0, <3>1 DEF ClientsInv
    <3>6. \A k \in 1..2 : LastTold(Users[q][k], q)' = invited'[q]
      <4>1. Written(<<>>) = {}
        BY DEF Written
      <4> QED
        BY <2>1, <3>5, <4>1 DEF LastTold
    <3>7. PartnersToldSame'
      <4> SUFFICES ASSUME NEW r \in Room, DialsSucceed(r)', Present(r)'
                   PROVE  Same(r)'
        BY DEF PartnersToldSame
      <4>1. CASE r = q
        BY <3>6, <4>1
      <4>2. CASE r # q
        BY <2>1, <3>3, <4>2, ToldSame DEF PartnersToldSame, DialsSucceed, Present
      <4> QED
        BY <4>1, <4>2
    <3> QED
      BY <3>4, <3>7
  <2> QED
    BY <1>2, <2>2, <2>3, <2>4 DEF CentralStep, HandlerStep
<1>3. CASE Redirect \/ RedirectFails
  <2> DEFINE room == sweep.instance.room
  <2>1. /\ sweep.pc = "redirect" /\ UNCHANGED <<handler, invited, chat>>
    BY <1>3 DEF Redirect, RedirectFails, EndReroute, handlerVars
  <2>2. /\ room \in Room /\ client1 = Users[room][1] /\ client2 = Users[room][2]
        /\ sweep.serverIP \in Server
    BY <2>1, RecordUsers DEF TypeOK, SweepOK, Busy, client1, client2
  <2>3. ASSUME NEW u \in User, u \notin {client1, client2}
        PROVE  redirects'[u] = redirects[u]
    BY <1>3, <2>3 DEF Redirect, RedirectFails
  <2>4. \A r \in Room : r # room => Users[r][1] \notin {client1, client2}
                                    /\ Users[r][2] \notin {client1, client2}
    BY <2>2 DEF DisjointChats
  <2>5. \A u \in User : redirects'[u] = redirects[u] \/ Listening(u)
    <3>1. CASE Redirect
      BY <3>1 DEF Redirect
    <3>2. CASE RedirectFails
      BY <3>2 DEF RedirectFails
    <3> QED
      BY <1>3, <3>1, <3>2
  <2>6. ClientsInv'
    BY <2>1, <2>5 DEF ClientsInv, Listening
  <2>7. PartnersToldSame'
    <3> SUFFICES ASSUME NEW r \in Room, DialsSucceed(r), Present(r)
                 PROVE  Same(r)'
      BY <2>1 DEF PartnersToldSame, DialsSucceed, Present
    <3>1. CASE r # room
      BY <1>0, <2>1, <2>3, <2>4, <3>1, ToldSame DEF PartnersToldSame
    <3>2. CASE r = room /\ Redirect
      <4>1. ASSUME NEW u \in {client1, client2}
            PROVE  LastTold(u, r)' = sweep.serverIP
        <5>1. u \in User /\ redirects'[u] = Append(redirects[u], sweep.serverIP)
          BY <1>0, <2>2, <3>2, <4>1 DEF Redirect
        <5>2. /\ Written(redirects'[u]) # {}
              /\ redirects'[u][LastWritten(redirects'[u])] = sweep.serverIP
          <6> DEFINE Q == Server \cup {Leaked}
          <6>1. redirects[u] \in Seq(Q) /\ sweep.serverIP \in Q /\ sweep.serverIP # Leaked
            BY <1>a, <2>2, <5>1
          <6> HIDE DEF Q
          <6>2. LET p == Append(redirects[u], sweep.serverIP)
                IN  Written(p) # {} /\ p[LastWritten(p)] = sweep.serverIP
            BY <6>1, LastAppend
          <6> QED
            BY <5>1, <6>2
        <5> QED
          BY <5>2 DEF LastTold
      <4> QED
        BY <2>2, <3>2, <4>1
    <3>3. CASE r = room /\ RedirectFails
      <4>1. ASSUME NEW u \in {client1, client2}
            PROVE  LastTold(u, r)' = LastTold(u, r)
        <5>1. u \in User /\ (redirects'[u] = redirects[u] \/ redirects'[u] = Append(redirects[u], Leaked))
          BY <1>0, <2>2, <3>3, <4>1 DEF RedirectFails
        <5>2. CASE redirects'[u] = Append(redirects[u], Leaked)
          <6>1. /\ Written(redirects'[u]) = Written(redirects[u])
                /\ Written(redirects[u]) # {} =>
                     redirects'[u][LastWritten(redirects'[u])] = redirects[u][LastWritten(redirects[u])]
            <7> DEFINE Q == Server \cup {Leaked}
            <7>1. redirects[u] \in Seq(Q) /\ Leaked \in Q
              BY <1>a, <5>1
            <7> HIDE DEF Q
            <7> QED
              BY <5>2, <7>1, LastLeaked
          <6> QED
            BY <2>1, <6>1 DEF LastTold
        <5> QED
          BY <2>1, <5>1, <5>2, ToldSame
      <4> QED
        BY <2>2, <3>3, <4>1 DEF PartnersToldSame
    <3> QED
      BY <1>3, <3>1, <3>2, <3>3
  <2> QED
    BY <2>6, <2>7
<1>4. ASSUME NEW u \in User, UNCHANGED <<handler, invited>>,
             \A v \in User : v # u => chat'[v] = chat[v] /\ redirects'[v] = redirects[v],
             redirects'[u] # <<>> => chat'[u] \in Server,
             chat'[u] \in Server =>
               \/ chat[u] \in Server
               \/ \E r \in Room : u \in {Users[r][1], Users[r][2]} /\ invited[r] # None,
             \A r \in Room : (DialsSucceed(r) /\ Present(r)' /\ u \in {Users[r][1], Users[r][2]}) =>
               Present(r) /\ LastTold(u, r)' = LastTold(u, r)
      PROVE  ClientsInv' /\ PartnersToldSame'
  <2>1. \A v \in User : redirects'[v] # <<>> => chat'[v] \in Server
    BY <1>4 DEF ClientsInv
  <2>2. ASSUME NEW r \in Room, NEW k \in 1..2, chat'[Users[r][k]] \in Server
        PROVE  invited[r] # None
    <3>1. CASE chat[Users[r][k]] \in Server
      BY <3>1 DEF ClientsInv
    <3>2. CASE chat[Users[r][k]] \notin Server
      <4>1. Users[r][k] = u
        BY <1>0, <1>4, <2>2, <3>2
      <4>2. PICK q \in Room : u \in {Users[q][1], Users[q][2]} /\ invited[q] # None
        BY <1>4, <2>2, <3>2, <4>1
      <4>3. q = r
        BY <4>1, <4>2 DEF DisjointChats
      <4> QED
        BY <4>2, <4>3
    <3> QED
      BY <3>1, <3>2
  <2>3. ClientsInv'
    BY <1>4, <2>1, <2>2 DEF ClientsInv
  <2>4. PartnersToldSame'
    <3> SUFFICES ASSUME NEW r \in Room, DialsSucceed(r), Present(r)'
                 PROVE  Same(r)'
      BY DEF PartnersToldSame, DialsSucceed
    <3>1. CASE u \notin {Users[r][1], Users[r][2]}
      <4>1. /\ \A k \in 1..2 : LastTold(Users[r][k], r)' = LastTold(Users[r][k], r)
        BY <1>0, <1>4, <3>1, ToldSame
      <4>2. Present(r)
        BY <1>0, <1>4, <3>1 DEF Present
      <4> QED
        BY <4>1, <4>2 DEF PartnersToldSame
    <3>2. CASE u \in {Users[r][1], Users[r][2]}
      <4>1. Present(r) /\ LastTold(u, r)' = LastTold(u, r)
        BY <1>4, <3>2
      <4>2. \A k \in 1..2 : LastTold(Users[r][k], r)' = LastTold(Users[r][k], r)
        BY <1>0, <1>4, <4>1, ToldSame
      <4> QED
        BY <4>1, <4>2 DEF PartnersToldSame
    <3> QED
      BY <3>1, <3>2
  <2> QED
    BY <2>3, <2>4
<1>5. ASSUME NEW u \in User, NEW q \in Room, JoinChat(u, q)
      PROVE  ClientsInv' /\ PartnersToldSame'
  <2>1. /\ u \in {Users[q][1], Users[q][2]} /\ invited[q] # None /\ chat[u] = NotInChat
        /\ chat' = [chat EXCEPT ![u] = invited[q]]
        /\ UNCHANGED <<handler, invited, redirects>>
    BY <1>5 DEF JoinChat, tableVars, handlerVars
  <2>2. chat'[u] = invited[q] /\ \A v \in User : v # u => chat'[v] = chat[v]
    BY <2>1 DEF ClientsTypeOK
  <2>3. redirects[u] = <<>> /\ Written(<<>>) = {} /\ invited[q] \in Server
    BY <1>a, <2>1 DEF ClientsInv, Written, TypeOK, HandlersOK
  <2>4. \A r \in Room : u \in {Users[r][1], Users[r][2]} => r = q
    BY <2>1 DEF DisjointChats
  <2>5. LastTold(u, q)' = LastTold(u, q)
    BY <1>a, <2>1, <2>2, <2>3 DEF LastTold
  <2>6. Present(q)' => Present(q)
    <3>1. \A v \in User : chat[v] = Gone => chat'[v] = Gone
      BY <2>1, <2>2 DEF NotInChat, Gone
    <3> QED
      BY <1>0, <3>1 DEF Present
  <2> QED
    BY <1>4, <2>1, <2>2, <2>3, <2>4, <2>5, <2>6
<1>6. ASSUME NEW u \in User, NEW q \in Room, JoinFails(u, q)
      PROVE  ClientsInv' /\ PartnersToldSame'
  <2>1. /\ u \in DialMayFail /\ chat[u] = NotInChat /\ chat' = [chat EXCEPT ![u] = Stuck]
        /\ UNCHANGED <<handler, invited, redirects>>
    BY <1>6 DEF JoinFails, tableVars, handlerVars
  <2>2. chat'[u] = Stuck /\ \A v \in User : v # u => chat'[v] = chat[v]
    BY <2>1 DEF ClientsTypeOK
  <2>3. redirects[u] = <<>>
    BY <1>a, <2>1 DEF ClientsInv
  <2>4. \A r \in Room : DialsSucceed(r) => u \notin {Users[r][1], Users[r][2]}
    BY <2>1 DEF DialsSucceed
  <2> QED
    BY <1>4, <1>a, <2>1, <2>2, <2>3, <2>4
<1>7. ASSUME NEW u \in User, Follow(u)
      PROVE  ClientsInv' /\ PartnersToldSame'
  <2> DEFINE h == Head(redirects[u])
  <2>1. /\ redirects[u] # <<>> /\ h # Leaked
        /\ chat' = [chat EXCEPT ![u] = h]
        /\ redirects' = [redirects EXCEPT ![u] = Tail(redirects[u])]
        /\ UNCHANGED <<handler, invited>>
    BY <1>7 DEF Follow, Take, tableVars, handlerVars
  <2>2. h \in Server
    BY <1>a, <2>1
  <2> HIDE DEF h
  <2>3. /\ chat'[u] = h /\ redirects'[u] = Tail(redirects[u])
        /\ \A v \in User : v # u => chat'[v] = chat[v] /\ redirects'[v] = redirects[v]
    BY <2>1 DEF ClientsTypeOK
  <2>4. chat[u] \in Server
    BY <2>1 DEF ClientsInv
  <2>5. \A r \in Room : LastTold(u, r)' = LastTold(u, r)
    BY <2>1, <2>2, <2>3, ToldTail DEF h
  <2>6. \A r \in Room : Present(r)' => Present(r)
    BY <1>0, <1>a, <2>3, <2>4 DEF Present
  <2> QED
    BY <1>4, <2>1, <2>2, <2>3, <2>4, <2>5, <2>6
<1>8. ASSUME NEW u \in User, FollowFails(u)
      PROVE  ClientsInv' /\ PartnersToldSame'
  <2>1. /\ u \in DialMayFail /\ redirects[u] # <<>> /\ UNCHANGED <<handler, invited, chat>>
        /\ redirects' = [redirects EXCEPT ![u] = Tail(redirects[u])]
    BY <1>8 DEF FollowFails, Take, tableVars, handlerVars
  <2>2. \A v \in User : v # u => chat'[v] = chat[v] /\ redirects'[v] = redirects[v]
    BY <2>1 DEF ClientsTypeOK
  <2>3. chat[u] \in Server
    BY <2>1 DEF ClientsInv
  <2>4. \A r \in Room : DialsSucceed(r) => u \notin {Users[r][1], Users[r][2]}
    BY <2>1 DEF DialsSucceed
  <2> QED
    BY <1>4, <2>1, <2>2, <2>3, <2>4
<1>9. ASSUME NEW u \in User, CloseLeaked(u)
      PROVE  ClientsInv' /\ PartnersToldSame'
  <2>1. /\ redirects[u] # <<>> /\ Head(redirects[u]) = Leaked /\ UNCHANGED <<handler, invited, chat>>
        /\ redirects' = [redirects EXCEPT ![u] = Tail(redirects[u])]
    BY <1>9 DEF CloseLeaked, Take, tableVars, handlerVars
  <2>2. /\ redirects'[u] = Tail(redirects[u])
        /\ \A v \in User : v # u => chat'[v] = chat[v] /\ redirects'[v] = redirects[v]
    BY <2>1 DEF ClientsTypeOK
  <2>3. chat[u] \in Server
    BY <2>1 DEF ClientsInv
  <2>4. \A r \in Room : LastTold(u, r)' = LastTold(u, r)
    BY <2>1, <2>2, ToldTail
  <2>5. \A r \in Room : Present(r)' => Present(r)
    BY <2>1 DEF Present
  <2> QED
    BY <1>4, <2>1, <2>2, <2>3, <2>4, <2>5
<1>10. ASSUME NEW u \in User, Quit(u)
      PROVE  ClientsInv' /\ PartnersToldSame'
  <2>1. /\ chat' = [chat EXCEPT ![u] = Gone] /\ redirects' = [redirects EXCEPT ![u] = <<>>]
        /\ UNCHANGED <<handler, invited>>
    BY <1>10 DEF Quit, tableVars, handlerVars
  <2>2. /\ chat'[u] = Gone /\ redirects'[u] = <<>>
        /\ \A v \in User : v # u => chat'[v] = chat[v] /\ redirects'[v] = redirects[v]
    BY <2>1 DEF ClientsTypeOK
  <2>3. \A r \in Room : u \in {Users[r][1], Users[r][2]} => ~Present(r)'
    BY <2>2 DEF Present
  <2> QED
    BY <1>4, <1>a, <2>1, <2>2, <2>3
<1>11. ASSUME NEW u \in User, Report(u)
      PROVE  ClientsInv' /\ PartnersToldSame'
  BY <1>1, <1>11 DEF Report, UpdateDelayList, handlerVars, clientVars
<1>12. CASE UNCHANGED vars
  BY <1>1, <1>12 DEF vars, clientVars, tableVars, handlerVars
<1>13. ASSUME NEW u \in User, ReachSelect(u)
      PROVE  ClientsInv' /\ PartnersToldSame'
  BY <1>1, <1>13 DEF ReachSelect, tableVars, handlerVars
<1> QED
  BY <1>2, <1>3, <1>5, <1>6, <1>7, <1>8, <1>9, <1>10, <1>11, <1>12, <1>13
     DEF RelocationNext, ClientStep

\* A redirect reaches both partners or neither: partners who are there, and
\* whose dials succeed, act on the same address in the end, whenever the sweep
\* finds them and however many users and chats there are.
THEOREM PartnersRedirectedTogether ==
  ASSUME DisjointChats
  PROVE  RelocationSpec => []PartnersToldSame
<1> DEFINE IInv == ClientsInv /\ PartnersToldSame
<1>1. RelocationInit => IInv
  <2> SUFFICES ASSUME RelocationInit
               PROVE  IInv
    OBVIOUS
  <2>1. /\ chat = [u \in User |-> NotInChat] /\ redirects = [u \in User |-> <<>>]
        /\ invited = [r \in Room |-> None] /\ NotInChat \notin Server
    BY AddressesAssumption DEF RelocationInit, Init
  <2>2. \A r \in Room : Users[r][1] \in User /\ Users[r][2] \in User
    BY UsersAssumption
  <2>3. ClientsInv
    BY <2>1, <2>2 DEF ClientsInv
  <2>4. Written(<<>>) = {}
    BY DEF Written
  <2>5. PartnersToldSame
    BY <2>1, <2>2, <2>4 DEF PartnersToldSame, LastTold
  <2> QED
    BY <2>3, <2>5
<1>2. TypeOK /\ ClientsTypeOK /\ IInv /\ [RelocationNext]_vars => IInv'
  BY ToldStep
<1>3. RelocationSpec => []TypeOK
  BY ImplementsChatTable, TypeCorrect, PTL
<1> QED
  BY <1>1, <1>2, <1>3, ClientsTypeCorrect, PTL DEF RelocationSpec

\* With clients that join, follow and quit the sweep still examines current
\* records only, and skips one chat at most when it takes a record out.
THEOREM SweepUnharmedByClients ==
  ASSUME DisjointChats
  PROVE  RelocationSpec => []ExaminesCurrentRecord /\ SkipsOnePerMove
BY ImplementsChatTable, ExaminesCurrent, SkipsAtMostOne, PTL
============================================================================

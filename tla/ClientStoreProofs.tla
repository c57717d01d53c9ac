------------------------- MODULE ClientStoreProofs -------------------------
(***************************************************************************)
(* The client store's locks protect its maps, for any number of goroutines,*)
(* addresses, usernames and chats: no map is written while another         *)
(* goroutine accesses it and no two addresses get the same username.  The  *)
(* table of chats is written under the read lock: it is what the calls     *)
(* make of it one after another until two of them overlap.                 *)
(*                                                                         *)
(* None is inductive.  LockInv says who holds the lock when, ScanInv that  *)
(* what Create has found still holds when it writes, FoundInv that a       *)
(* removal has found an entry, and RewriteInv what a call that rewrites    *)
(* the slice has read and prepared while nobody else does.                 *)
(***************************************************************************)
EXTENDS ClientStore, SequenceTheorems, TLAPS

\* The goroutines between the call of the lock and the return of the store.
Locked(t) == pc[t] \in {"first", "second", "third", "unlock"}

\* A goroutine that is past its lock holds it: alone if its call takes the
\* write lock, among the readers otherwise.  Only the goroutine named by the
\* mutex as its writer runs such a call, and a waiting reader is not yet in.
LockInv ==
  /\ \A t \in Thread :
       Locked(t) => IF Op(t) \in WriteLocked THEN Writing(t) ELSE Reading(t)
  /\ \A t \in Thread :
       t \in mu.readers \cup mu.waiting =>
         \/ pc[t] = "dead"
         \/ pc[t] \notin {"idle", "lock"} /\ Op(t) \notin WriteLocked
  /\ mu.readers \cap mu.waiting = {}

\* A Create that goes on to write has found nobody with its username, and
\* nobody has entered it since.
ScanInv ==
  \A t \in Thread : At(t, "second", "Create") => \A ip \in Ip : data[ip] # call[t].name

\* A removal that goes on to shift has found an entry.
FoundInv ==
  \A t \in Thread : At(t, "second", "RemoveChatInstancesForUser") => position[t] # 0

\* The positions of the call's user in the table that the calls made one
\* after another.
Found(t) == PositionsOf(table, call[t].name)

\* What a rewriting call has read is the table; what it is about to store is
\* the table that its call makes.
Prepared(t) ==
  /\ At(t, "second", "InsertChatInstance") => loaded[t] = chatInstances
  /\ At(t, "second", "RemoveChatInstancesForUser") =>
       position[t] \in Found(t) /\ \A j \in Found(t) : position[t] <= j
  /\ At(t, "third", "InsertChatInstance") =>
       SliceOf(loaded[t]) = InsertChatInstance(table, call[t].instance)
  /\ At(t, "third", "RemoveChatInstancesForUser") =>
       SliceOf(loaded[t]) = RemoveChatInstancesForUser(table, call[t].name)

\* Until two rewriting calls overlap, one call at most rewrites the slice, and
\* the slice is the table until that call has written the array.
RewriteInv ==
  overlapped \/
    /\ \A t \in Thread : pc[t] # "dead"
    /\ \A t, s \in Rewriting : t = s
    /\ (\A t \in Rewriting : pc[t] # "third") => SliceOf(chatInstances) = table
    /\ \A t \in Thread : Prepared(t)

IInv ==
  TypeOK /\ LockInv /\ ScanInv /\ UsernameUnique /\ FoundInv /\ RewriteInv
----------------------------------------------------------------------------
\* Two goroutines past the lock: neither runs a call that writes a map.
LEMMA WriterAlone ==
  ASSUME LockInv, NEW t \in Thread, NEW s \in Thread, t # s,
         Locked(t), Locked(s)
  PROVE  Op(t) \notin WriteLocked
BY DEF LockInv, Writing, Reading

\* A call is a record whose fields its operation determines.
LEMMA CallFields ==
  ASSUME NEW c \in Call
  PROVE  /\ c.op \in {"Create", "Read", "Delete", "ReadByUsername", "UpdateDelayList",
                      "GetDelayList", "InsertChatInstance", "RemoveChatInstancesForUser",
                      "GetAllChatInstances"}
         /\ c.op = "Create" => c.ip \in Ip /\ c.name \in Username
         /\ c.op = "Delete" => c.ip \in Ip
         /\ c.op = "UpdateDelayList" => c.name \in Username
         /\ c.op = "InsertChatInstance" => c.instance \in Instances
BY DEF Call

\* What the mutex's operations do to its fields.
LEMMA MutexOps ==
  ASSUME MutexTypeOK, NEW t \in Thread
  PROVE  /\ RLock(t) \/ Lock(t) \/ RUnlock(t) \/ Unlock(t) => MutexTypeOK'
         /\ RLock(t) => /\ mu'.writer = mu.writer
                        /\ IF mu.writer = None
                             THEN mu'.readers = mu.readers \cup {t} /\ mu'.waiting = mu.waiting
                             ELSE mu'.waiting = mu.waiting \cup {t} /\ mu'.readers = mu.readers
         /\ RUnlock(t) => /\ mu'.writer = mu.writer /\ mu'.waiting = mu.waiting
                          /\ mu'.readers = mu.readers \ {t}
BY DEF MutexTypeOK, RLock, Lock, RUnlock, Unlock

\* append yields an array that is no smaller, with room for the new entry.
LEMMA InsertCells ==
  ASSUME NEW slice, slice.cells \in Seq(Cell), slice.len \in Nat,
         slice.len <= Len(slice.cells), NEW x \in Instances
  PROVE  LET grown == InsertChatInstance(slice, x)
         IN  /\ grown.cells \in Seq(Cell)
             /\ Len(slice.cells) <= Len(grown.cells)
             /\ grown.len \in Nat /\ grown.len <= Len(grown.cells)
             /\ grown = [cells |-> grown.cells, len |-> grown.len]
  <1> DEFINE grown == InsertChatInstance(slice, x)
             cap == CapacityAfterAppend(slice)
  <1>1. /\ cap \in Nat /\ Len(slice.cells) \in Nat
        /\ slice.len + 1 <= cap /\ Len(slice.cells) <= cap
    BY DEF CapacityAfterAppend, Reallocates
  <1>2. /\ grown.cells = [k \in 1..cap |->
              IF k = slice.len + 1 THEN x
              ELSE IF k <= Len(slice.cells) THEN slice.cells[k]
              ELSE ZeroInstance]
        /\ grown.len = slice.len + 1
        /\ grown = [cells |-> grown.cells, len |-> grown.len]
    BY DEF InsertChatInstance
  <1> HIDE DEF grown, cap
  <1>3. \A k \in 1..cap : grown.cells[k] \in Cell
    <2> TAKE k \in 1..cap
    <2>1. k <= Len(slice.cells) => slice.cells[k] \in Cell
      BY <1>1, ElementOfSeq
    <2> QED
      BY <1>2, <2>1 DEF Cell
  <1>4. grown.cells \in Seq(Cell) /\ Len(grown.cells) = cap
    BY <1>1, <1>2, <1>3
  <1> QED
    BY <1>1, <1>2, <1>4 DEF grown

\* A removal keeps the array and its size.
LEMMA RemoveCells ==
  ASSUME NEW slice, slice.cells \in Seq(Cell), slice.len \in Nat,
         slice.len <= Len(slice.cells), NEW i
  PROVE  /\ RemoveAt(slice, i).cells \in Seq(Cell)
         /\ Len(RemoveAt(slice, i).cells) = Len(slice.cells)
  <1> DEFINE cells == RemoveAt(slice, i).cells
  <1>1. cells = [k \in 1..Len(slice.cells) |->
                   IF i <= k /\ k < slice.len THEN slice.cells[k + 1] ELSE slice.cells[k]]
    BY DEF RemoveAt
  <1> HIDE DEF cells
  <1>2. \A k \in 1..Len(slice.cells) : cells[k] \in Cell
    <2> TAKE k \in 1..Len(slice.cells)
    <2>1. slice.cells[k] \in Cell /\ (k < slice.len => slice.cells[k + 1] \in Cell)
      BY ElementOfSeq
    <2> QED
      BY <1>1, <2>1
  <1>3. cells \in Seq(Cell) /\ Len(cells) = Len(slice.cells)
    BY <1>1, <1>2
  <1> QED
    BY <1>3 DEF cells

\* The least position is the one that the removal takes off.
LEMMA RemovesLeast ==
  ASSUME NEW slice, slice.len \in Nat, NEW user, NEW i \in PositionsOf(slice, user),
         \A j \in PositionsOf(slice, user) : i <= j
  PROVE  RemoveChatInstancesForUser(slice, user) = RemoveAt(slice, i)
  <1> DEFINE P == PositionsOf(slice, user)
             least == CHOOSE k \in P : \A j \in P : k <= j
  <1>1. P \subseteq Nat
    BY DEF PositionsOf
  <1>2. least \in P /\ \A j \in P : least <= j
    OBVIOUS
  <1>3. least = i
    <2>1. least <= i /\ i <= least /\ least \in Nat /\ i \in Nat
      BY <1>1, <1>2
    <2> HIDE DEF least, P
    <2> QED
      BY <2>1
  <1>4. RemoveChatInstancesForUser(slice, user) = RemoveAt(slice, least)
    BY DEF RemoveChatInstancesForUser
  <1> QED
    BY <1>3, <1>4

LEMMA InitInv == Init => IInv
<1> SUFFICES ASSUME Init PROVE IInv
  OBVIOUS
<1>1. /\ arrays \in Seq(Seq(Cell)) /\ Len(arrays) = 1 /\ arrays[1] = <<>>
      /\ chatInstances = NoHeader
      /\ \A t \in Thread : pc[t] = "idle"
  BY EmptySeq DEF Init, EmptySlice
<1>2. TypeOK
  <2>1. overlapped \in BOOLEAN
    BY DEF Init
  <2>2. calls \in 0..MaxCalls
    BY MaxCallsAssumption DEF Init
  <2> QED
    BY <1>1, <2>1, <2>2
       DEF Init, TypeOK, MutexTypeOK, Unlocked, Header, WithinArray, NoHeader
<1>3. LockInv /\ ScanInv /\ FoundInv /\ UsernameUnique
  BY <1>1, ThreadAssumption, IpAssumption
     DEF Init, LockInv, Locked, ScanInv, FoundInv, UsernameUnique, Unlocked, At
<1>4. RewriteInv
  <2>1. SliceOf(chatInstances) = table
    BY <1>1 DEF Init, SliceOf, EmptySlice, NoHeader
  <2> QED
    BY <1>1, <2>1 DEF RewriteInv, Prepared, Rewriting, At
<1> QED
  BY <1>2, <1>3, <1>4 DEF IInv

\* A header stays within its array as arrays are added and none shrinks.
LEMMA HeapGrows ==
  ASSUME NEW old \in Seq(Seq(Cell)), NEW new \in Seq(Seq(Cell)), Len(old) <= Len(new),
         \A a \in 1..Len(old) : Len(old[a]) <= Len(new[a]),
         NEW h \in Header, h.array \in 1..Len(old), h.len <= Len(old[h.array])
  PROVE  h.array \in 1..Len(new) /\ h.len <= Len(new[h.array])
<1>1. h.array \in 1..Len(new)
  BY LenProperties
<1>2. old[h.array] \in Seq(Cell) /\ new[h.array] \in Seq(Cell)
  BY <1>1, ElementOfSeq
<1>3. Len(old[h.array]) \in Nat /\ Len(new[h.array]) \in Nat /\ h.len \in Nat
  BY <1>2, LenProperties DEF Header
<1> QED
  BY <1>1, <1>3

\* The heap is well typed again after an append has written an array.
LEMMA InsertWriteHeap ==
  ASSUME TypeOK, NEW t \in Thread, InsertWrite(t)
  PROVE  /\ arrays' \in Seq(Seq(Cell))
         /\ Len(arrays) <= Len(arrays')
         /\ \A a \in 1..Len(arrays) : Len(arrays[a]) <= Len(arrays'[a])
         /\ loaded'[t] \in Header
         /\ loaded'[t].array \in 1..Len(arrays')
         /\ loaded'[t].len <= Len(arrays'[loaded'[t].array])
         /\ arrays'[loaded'[t].array] =
              InsertChatInstance(SliceOf(loaded[t]), call[t].instance).cells
         /\ loaded'[t].len =
              InsertChatInstance(SliceOf(loaded[t]), call[t].instance).len
<1> DEFINE slice == SliceOf(loaded[t])
           grown == InsertChatInstance(slice, call[t].instance)
<1>1. /\ loaded[t] \in Header /\ loaded[t].array \in 1..Len(arrays)
      /\ loaded[t].len \in Nat /\ loaded[t].len <= Len(arrays[loaded[t].array])
      /\ arrays \in Seq(Seq(Cell)) /\ Len(arrays) \in Nat
  BY LenProperties DEF TypeOK, WithinArray, Header
<1>2. call[t].instance \in Instances
  BY CallFields DEF TypeOK, InsertWrite, Access, At, Op
<1>3. slice.cells = arrays[loaded[t].array] /\ slice.len = loaded[t].len
  BY DEF SliceOf
<1>4. slice.cells \in Seq(Cell)
  BY <1>1, <1>3, ElementOfSeq
<1> HIDE DEF slice
<1>5. /\ grown.cells \in Seq(Cell) /\ Len(slice.cells) <= Len(grown.cells)
      /\ grown.len \in Nat /\ grown.len <= Len(grown.cells)
  BY <1>1, <1>2, <1>3, <1>4, InsertCells
<1> HIDE DEF grown
<1>6. \A a \in 1..Len(arrays) : arrays[a] \in Seq(Cell) /\ Len(arrays[a]) \in Nat
  BY <1>1, ElementOfSeq, LenProperties
<1>7. loaded'[t] = [array |-> IF Reallocates(slice) THEN Len(arrays) + 1 ELSE loaded[t].array,
                    len   |-> grown.len]
  BY DEF InsertWrite, TypeOK, grown, slice
<1>8. CASE Reallocates(slice)
  <2>1. arrays' = Append(arrays, grown.cells)
    BY <1>8 DEF InsertWrite, grown, slice
  <2>2. /\ arrays' \in Seq(Seq(Cell)) /\ Len(arrays') = Len(arrays) + 1
        /\ \A a \in 1..Len(arrays) : arrays'[a] = arrays[a]
        /\ arrays'[Len(arrays) + 1] = grown.cells
    BY <1>1, <1>5, <2>1, AppendProperties
  <2> QED
    BY <1>1, <1>5, <1>6, <1>7, <1>8, <2>2 DEF Header, grown, slice
<1>9. CASE ~Reallocates(slice)
  <2>1. arrays' = [arrays EXCEPT ![loaded[t].array] = grown.cells]
    BY <1>9 DEF InsertWrite, grown, slice
  <2>2. /\ arrays' \in Seq(Seq(Cell)) /\ Len(arrays') = Len(arrays)
        /\ \A a \in 1..Len(arrays) :
             arrays'[a] = IF a = loaded[t].array THEN grown.cells ELSE arrays[a]
    BY <1>1, <1>5, <2>1, ExceptSeq
  <2>3. /\ loaded'[t] \in Header /\ loaded'[t].array = loaded[t].array
        /\ loaded'[t].len = grown.len
    BY <1>1, <1>5, <1>7, <1>9 DEF Header
  <2>4. \A a \in 1..Len(arrays) : Len(arrays[a]) <= Len(arrays'[a])
    <3> TAKE a \in 1..Len(arrays)
    <3>1. CASE a = loaded[t].array
      BY <1>3, <1>5, <2>2, <3>1
    <3>2. CASE a # loaded[t].array
      BY <1>6, <2>2, <3>2
    <3> QED
      BY <3>1, <3>2
  <2>5. arrays'[loaded'[t].array] = grown.cells
    BY <1>1, <2>2, <2>3
  <2> QED
    BY <1>1, <1>5, <2>2, <2>3, <2>4, <2>5 DEF grown, slice
<1> QED
  BY <1>8, <1>9

\* The heap is well typed again after a removal has shifted an array.
LEMMA RemoveShiftHeap ==
  ASSUME TypeOK, FoundInv, NEW t \in Thread, RemoveShift(t)
  PROVE  /\ arrays' \in Seq(Seq(Cell))
         /\ Len(arrays) <= Len(arrays')
         /\ \A a \in 1..Len(arrays) : Len(arrays[a]) <= Len(arrays'[a])
         /\ loaded'[t] = [array |-> chatInstances.array, len |-> chatInstances.len - 1]
         /\ loaded'[t] \in Header
         /\ loaded'[t].array \in 1..Len(arrays')
         /\ loaded'[t].len <= Len(arrays'[loaded'[t].array])
         /\ arrays'[chatInstances.array] =
              RemoveAt(SliceOf(chatInstances), position[t]).cells
<1> DEFINE slice == SliceOf(chatInstances)
           cells == RemoveAt(slice, position[t]).cells
<1>1. /\ chatInstances \in Header /\ chatInstances.array \in 1..Len(arrays)
      /\ chatInstances.len \in Nat /\ chatInstances.len <= Len(arrays[chatInstances.array])
      /\ arrays \in Seq(Seq(Cell)) /\ Len(arrays) \in Nat
  BY LenProperties DEF TypeOK, WithinArray, Header
<1>2. position[t] \in Nat /\ position[t] # 0 /\ position[t] <= chatInstances.len
  BY DEF TypeOK, FoundInv, RemoveShift, Access
<1>3. slice.cells = arrays[chatInstances.array] /\ slice.len = chatInstances.len
  BY DEF SliceOf
<1>4. slice.cells \in Seq(Cell)
  BY <1>1, <1>3, ElementOfSeq
<1> HIDE DEF slice
<1>5. cells \in Seq(Cell) /\ Len(cells) = Len(slice.cells)
  BY <1>1, <1>3, <1>4, RemoveCells
<1>6. /\ arrays' = [arrays EXCEPT ![chatInstances.array] = cells]
      /\ loaded'[t] = [array |-> chatInstances.array, len |-> chatInstances.len - 1]
  BY DEF RemoveShift, TypeOK, slice
<1> HIDE DEF cells
<1>7. \A a \in 1..Len(arrays) : arrays[a] \in Seq(Cell) /\ Len(arrays[a]) \in Nat
  BY <1>1, ElementOfSeq, LenProperties
<1>8. /\ arrays' \in Seq(Seq(Cell)) /\ Len(arrays') = Len(arrays)
      /\ \A a \in 1..Len(arrays) :
           arrays'[a] = IF a = chatInstances.array THEN cells ELSE arrays[a]
  BY <1>1, <1>5, <1>6, ExceptSeq
<1>9. chatInstances.len - 1 \in Nat /\ chatInstances.len - 1 <= Len(arrays[chatInstances.array])
  BY <1>1, <1>2, <1>7
<1> QED
  BY <1>1, <1>3, <1>5, <1>6, <1>7, <1>8, <1>9 DEF Header, cells, slice

\* Every step keeps the types.
LEMMA TypeStep ==
  ASSUME IInv, [Next]_vars
  PROVE  TypeOK'
<1> USE DEF TypeOK, MutexTypeOK, Goes, WithinArray
<1>0. TypeOK /\ FoundInv
  BY DEF IInv
<1>1. CASE UNCHANGED vars
  BY <1>0, <1>1 DEF vars, maps, slices
<1>2. ASSUME NEW t \in Thread, NEW c \in Call, Begin(t, c)
      PROVE  TypeOK'
  BY <1>0, <1>2, MaxCallsAssumption DEF Begin, maps, slices
<1>3. ASSUME NEW t \in Thread, CallLock(t)
      PROVE  TypeOK'
  <2>1. MutexTypeOK'
    <3> HIDE DEF MutexTypeOK
    <3> QED
      BY <1>0, <1>3, MutexOps DEF CallLock
  <2> QED
    BY <1>0, <1>3, <2>1 DEF CallLock, maps, slices
<1>4. ASSUME NEW t \in Thread, Enter(t)
      PROVE  TypeOK'
  BY <1>0, <1>4 DEF Enter, maps, slices
<1>5. ASSUME NEW t \in Thread, Body(t)
      PROVE  TypeOK'
  <2>1. t \in Thread /\ (pc[t] \notin {"idle", "dead"} => call[t] \in Call)
    BY <1>0
  <2>2. CASE CreateScan(t) \/ DeleteCheck(t) \/ Lookup(t)
    BY <1>0, <2>2 DEF CreateScan, DeleteCheck, Lookup, Access, At, Op, maps, slices
  <2>3. CASE CreateWrite(t)
    BY <1>0, <2>1, <2>3, CallFields DEF CreateWrite, Access, At, Op, slices
  <2>4. CASE DeleteWrite(t)
    BY <1>0, <2>1, <2>4, CallFields DEF DeleteWrite, Access, At, Op, slices
  <2>5. CASE UpdateDelayList(t)
    BY <1>0, <2>1, <2>5, CallFields DEF UpdateDelayList, Access, At, Op, slices
  <2>6. CASE InsertLoad(t)
    BY <1>0, <2>6 DEF InsertLoad, Access, At, Op, maps
  <2>7. CASE InsertStore(t) \/ RemoveStore(t)
    <3>1. /\ UNCHANGED <<mu, calls, call, data, delayLists, arrays, loaded, position, overlapped>>
          /\ pc' = [pc EXCEPT ![t] = "unlock"] /\ pc[t] = "third"
          /\ chatInstances' = loaded[t]
      BY <2>7 DEF InsertStore, RemoveStore, Access, maps
    <3> QED
      BY <1>0, <3>1
  <2>8. CASE RemoveScan(t)
    <3>1. chatInstances.len \in Nat
      BY <1>0 DEF Header
    <3>2. PositionsOf(SliceOf(chatInstances), call[t].name) \subseteq Nat
      BY <3>1 DEF PositionsOf, SliceOf
    <3>3. position' \in [Thread -> Nat]
      BY <1>0, <2>8, <3>2 DEF RemoveScan
    <3>4. /\ pc' \in [Thread -> {"idle", "lock", "wait", "first", "second", "third", "unlock", "dead"}]
          /\ \A s \in Thread : pc'[s] \notin {"idle", "dead"} => call[s] \in Call
          /\ UNCHANGED <<mu, calls, call, data, delayLists, arrays, chatInstances, loaded>>
          /\ overlapped' \in BOOLEAN
      BY <1>0, <2>8 DEF RemoveScan, Access, At, Op, maps
    <3> QED
      BY <1>0, <3>3, <3>4
  <2>9. CASE RemovePanics(t)
    BY <1>0, <2>9 DEF RemovePanics, At, Op, maps, slices
  <2>10. CASE InsertWrite(t) \/ RemoveShift(t)
    <3>1. /\ arrays' \in Seq(Seq(Cell))
          /\ Len(arrays) <= Len(arrays')
          /\ \A a \in 1..Len(arrays) : Len(arrays[a]) <= Len(arrays'[a])
          /\ loaded'[t] \in Header
          /\ loaded'[t].array \in 1..Len(arrays')
          /\ loaded'[t].len <= Len(arrays'[loaded'[t].array])
      <4> HIDE DEF TypeOK
      <4> QED
        BY <1>0, <2>10, InsertWriteHeap, RemoveShiftHeap
    <3>2. /\ UNCHANGED <<mu, calls, call, data, delayLists, chatInstances, position, overlapped>>
          /\ pc' = [pc EXCEPT ![t] = "third"] /\ pc[t] = "second"
          /\ \E h : loaded' = [loaded EXCEPT ![t] = h]
      BY <2>10 DEF InsertWrite, RemoveShift, Access, maps
    <3>3. loaded' \in [Thread -> Header] /\ \A s \in Thread : s # t => loaded'[s] = loaded[s]
      BY <1>0, <3>1, <3>2
    <3>4. WithinArray(chatInstances)'
      BY <1>0, <3>1, <3>2, HeapGrows
    <3>5. ASSUME NEW s \in Thread PROVE WithinArray(loaded[s])'
      <4>1. CASE s = t
        BY <3>1, <4>1
      <4>2. CASE s # t
        BY <1>0, <3>1, <3>3, <4>2, HeapGrows
      <4> QED
        BY <4>1, <4>2
    <3> QED
      BY <1>0, <3>1, <3>2, <3>3, <3>4, <3>5
  <2> QED
    BY <1>5, <2>2, <2>3, <2>4, <2>5, <2>6, <2>7, <2>8, <2>9, <2>10 DEF Body
<1>6. ASSUME NEW t \in Thread, Return(t)
      PROVE  TypeOK'
  <2>1. MutexTypeOK'
    <3> HIDE DEF MutexTypeOK
    <3> QED
      BY <1>0, <1>6, MutexOps DEF Return
  <2>2. /\ loaded' \in [Thread -> Header]
        /\ \A s \in Thread : WithinArray(loaded[s])'
    <3>1. NoHeader \in Header
      BY DEF NoHeader, Header
    <3>2. 1 \in 1..Len(arrays) /\ 0 <= Len(arrays[1])
      <4>1. Len(arrays) \in Nat /\ 1 \in 1..Len(arrays)
        BY <1>0, LenProperties DEF Header
      <4>2. arrays[1] \in Seq(Cell)
        BY <1>0, <4>1, ElementOfSeq
      <4> QED
        BY <4>1, <4>2, LenProperties
    <3> QED
      BY <1>0, <1>6, <3>1, <3>2 DEF Return, NoHeader
  <2> QED
    BY <1>0, <1>6, <2>1, <2>2 DEF Return, maps
<1> QED
  BY <1>1, <1>2, <1>3, <1>4, <1>5, <1>6 DEF Next

\* Every step keeps the account of who holds the lock.
LEMMA LockStep ==
  ASSUME IInv, [Next]_vars
  PROVE  LockInv'
<1> USE DEF LockInv, Locked, Writing, Reading, Goes, Op
<1>0. TypeOK /\ LockInv
  BY DEF IInv
<1>1. CASE UNCHANGED vars
  BY <1>0, <1>1 DEF vars
<1>2. ASSUME NEW t \in Thread, NEW c \in Call, Begin(t, c)
      PROVE  LockInv'
  BY <1>0, <1>2 DEF Begin, TypeOK
<1>3. ASSUME NEW t \in Thread, CallLock(t)
      PROVE  LockInv'
  <2>1. CASE Op(t) \in WriteLocked
    BY <1>0, <1>3, <2>1, ThreadAssumption DEF CallLock, Lock, TypeOK, MutexTypeOK
  <2>2. CASE Op(t) \notin WriteLocked
    <3>1. RLock(t) /\ MutexTypeOK
      BY <1>0, <1>3, <2>2 DEF CallLock, TypeOK
    <3>2. t \notin mu.readers \cup mu.waiting
      BY <1>0, <1>3 DEF CallLock
    <3>3. UNCHANGED call /\ pc' = [pc EXCEPT ![t] = "wait"] /\ pc \in [Thread -> {"idle", "lock", "wait", "first", "second", "third", "unlock", "dead"}]
      BY <1>0, <1>3 DEF CallLock, TypeOK
    <3>4. CASE mu.writer = None
      BY <1>0, <2>2, <3>1, <3>2, <3>3, <3>4, MutexOps, ThreadAssumption
    <3>5. CASE mu.writer # None
      BY <1>0, <2>2, <3>1, <3>2, <3>3, <3>5, MutexOps
    <3> QED
      BY <3>4, <3>5
  <2> QED
    BY <2>1, <2>2
<1>4. ASSUME NEW t \in Thread, Enter(t)
      PROVE  LockInv'
  BY <1>0, <1>4 DEF Enter, TypeOK
<1>5. ASSUME NEW t \in Thread, Body(t)
      PROVE  LockInv'
  <2>1. CASE RemovePanics(t)
    BY <1>0, <2>1 DEF RemovePanics, TypeOK
  <2>2. CASE ~RemovePanics(t)
    <3>1. /\ pc[t] \in {"first", "second", "third"}
          /\ \E next \in {"second", "third", "unlock"} : pc' = [pc EXCEPT ![t] = next]
          /\ UNCHANGED <<mu, call>>
      BY <1>5, <2>2
         DEF Body, CreateScan, CreateWrite, DeleteCheck, DeleteWrite, Lookup, UpdateDelayList,
             InsertLoad, InsertWrite, InsertStore, RemoveScan, RemoveShift, RemoveStore,
             Access, At
    <3> QED
      BY <1>0, <3>1 DEF TypeOK
  <2> QED
    BY <2>1, <2>2
<1>6. ASSUME NEW t \in Thread, Return(t)
      PROVE  LockInv'
  <2>1. CASE Op(t) \in WriteLocked
    <3>1. \A s \in Thread : s # t => ~Locked(s)
      BY <1>0, <1>6, <2>1, WriterAlone DEF Return
    <3> QED
      BY <1>0, <1>6, <2>1, <3>1 DEF Return, Unlock, TypeOK, MutexTypeOK
  <2>2. CASE Op(t) \notin WriteLocked
    <3>1. RUnlock(t) /\ MutexTypeOK
      BY <1>0, <1>6, <2>2 DEF Return, TypeOK
    <3>2. /\ \A s \in Thread : s # t => pc'[s] = pc[s] /\ call'[s] = call[s]
          /\ pc'[t] = "idle" /\ Reading(t)
      BY <1>0, <1>6, <2>2 DEF Return, TypeOK
    <3>3. /\ mu'.writer = mu.writer /\ mu'.waiting = mu.waiting
          /\ mu'.readers = mu.readers \ {t}
      BY <3>1, MutexOps
    <3> QED
      BY <1>0, <3>2, <3>3
  <2> QED
    BY <2>1, <2>2
<1> QED
  BY <1>1, <1>2, <1>3, <1>4, <1>5, <1>6 DEF Next

\* Only a goroutine that is alone past the lock enters a username, and it has
\* looked for the name since it came in.
LEMMA NameStep ==
  ASSUME IInv, [Next]_vars
  PROVE  ScanInv' /\ UsernameUnique'
<1> USE DEF ScanInv, UsernameUnique, Goes, Op, At
<1>0. TypeOK /\ LockInv /\ ScanInv /\ UsernameUnique
  BY DEF IInv
<1>1. CASE UNCHANGED vars
  BY <1>0, <1>1 DEF vars, maps
<1>2. ASSUME NEW t \in Thread, NEW c \in Call, Begin(t, c)
      PROVE  ScanInv' /\ UsernameUnique'
  BY <1>0, <1>2 DEF Begin, TypeOK, maps
<1>3. ASSUME NEW t \in Thread, CallLock(t) \/ Enter(t) \/ Return(t)
      PROVE  ScanInv' /\ UsernameUnique'
  BY <1>0, <1>3 DEF CallLock, Enter, Return, TypeOK, maps
<1>4. ASSUME NEW t \in Thread, CreateWrite(t) \/ DeleteWrite(t)
      PROVE  ScanInv' /\ UsernameUnique'
  <2>1. \A s \in Thread : s # t => pc[s] # "second"
    BY <1>0, <1>4, WriterAlone DEF CreateWrite, DeleteWrite, Access, Locked, WriteLocked
  <2>2. CASE CreateWrite(t)
    <3>1. /\ \A ip \in Ip : data[ip] # call[t].name
          /\ data' = [data EXCEPT ![call[t].ip] = call[t].name]
          /\ pc' = [pc EXCEPT ![t] = "unlock"]
      BY <1>0, <2>2 DEF CreateWrite, Access
    <3>2. ScanInv'
      BY <1>0, <2>1, <3>1 DEF TypeOK
    <3>3. UsernameUnique'
      BY <1>0, <3>1 DEF TypeOK
    <3> QED
      BY <3>2, <3>3
  <2>3. CASE DeleteWrite(t)
    <3>1. /\ data' = [data EXCEPT ![call[t].ip] = None]
          /\ pc' = [pc EXCEPT ![t] = "unlock"]
      BY <1>0, <2>3 DEF DeleteWrite, Access
    <3> QED
      BY <1>0, <2>1, <3>1 DEF TypeOK
  <2> QED
    BY <1>4, <2>2, <2>3
<1>5. ASSUME NEW t \in Thread, CreateScan(t)
      PROVE  ScanInv' /\ UsernameUnique'
  BY <1>0, <1>5 DEF CreateScan, Access, TypeOK, maps
<1>6. ASSUME NEW t \in Thread,
             DeleteCheck(t) \/ Lookup(t) \/ UpdateDelayList(t) \/ InsertLoad(t)
               \/ InsertWrite(t) \/ InsertStore(t) \/ RemoveScan(t) \/ RemoveShift(t)
               \/ RemoveStore(t) \/ RemovePanics(t)
      PROVE  ScanInv' /\ UsernameUnique'
  <2>1. /\ UNCHANGED <<data, call>>
        /\ \A s \in Thread : At(s, "second", "Create")' => At(s, "second", "Create")
    BY <1>0, <1>6
       DEF DeleteCheck, Lookup, UpdateDelayList, InsertLoad, InsertWrite, InsertStore,
           RemoveScan, RemoveShift, RemoveStore, RemovePanics, Access, TypeOK, maps
  <2> QED
    BY <1>0, <2>1
<1> QED
  BY <1>1, <1>2, <1>3, <1>4, <1>5, <1>6 DEF Next, Body

\* The steps that do not touch the slice, nor what a rewriting call has of it.
Elsewhere(t) ==
  \/ \E c \in Call : Begin(t, c)
  \/ CallLock(t) \/ Enter(t) \/ Return(t)
  \/ CreateScan(t) \/ CreateWrite(t) \/ DeleteCheck(t) \/ DeleteWrite(t)
  \/ Lookup(t) \/ UpdateDelayList(t)

\* They leave the rewriting calls alone.
LEMMA ElsewhereSame ==
  ASSUME TypeOK, NEW t \in Thread, Elsewhere(t)
  PROVE  /\ UNCHANGED <<arrays, chatInstances, table, overlapped>>
         /\ Rewriting' = Rewriting
         /\ \A s \in Rewriting : /\ pc'[s] = pc[s] /\ call'[s] = call[s]
                                 /\ loaded'[s] = loaded[s] /\ position'[s] = position[s]
         /\ \A s \in Thread : pc'[s] = "dead" => pc[s] = "dead"
<1> USE DEF Goes, Op, At, TypeOK
<1>1. UNCHANGED <<arrays, chatInstances, table, overlapped>>
  BY DEF Elsewhere, Begin, CallLock, Enter, Return, CreateScan, CreateWrite, DeleteCheck,
         DeleteWrite, Lookup, UpdateDelayList, slices
<1>2. \A s \in Thread : s # t => /\ pc'[s] = pc[s] /\ call'[s] = call[s]
                                 /\ loaded'[s] = loaded[s] /\ position'[s] = position[s]
  BY DEF Elsewhere, Begin, CallLock, Enter, Return, CreateScan, CreateWrite, DeleteCheck,
         DeleteWrite, Lookup, UpdateDelayList, slices, Access
<1>3. t \notin Rewriting /\ t \notin Rewriting' /\ pc'[t] # "dead"
  BY DEF Elsewhere, Begin, CallLock, Enter, Return, CreateScan, CreateWrite, DeleteCheck,
         DeleteWrite, Lookup, UpdateDelayList, Access, Rewriting, WritesSlice
<1>4. Rewriting' = Rewriting
  BY <1>2, <1>3 DEF Rewriting
<1> QED
  BY <1>1, <1>2, <1>3, <1>4 DEF Rewriting

\* A rewriting call that has not overlapped is the only one, and stays so.
LEMMA OnlyRewriter ==
  ASSUME TypeOK, RewriteInv, ~overlapped, NEW t \in Thread,
         \A s \in Rewriting : s = t, call' = call,
         NEW to \in {"second", "third", "unlock"},
         pc' = [pc EXCEPT ![t] = to]
  PROVE  /\ \A s \in Rewriting' : s = t
         /\ to = "unlock" =>
              /\ Rewriting' = {}
              /\ \A s \in Thread, point \in {"second", "third"}, op \in WritesSlice :
                   ~At(s, point, op)'
         /\ \A s \in Thread : pc'[s] # "dead"
         /\ pc'[t] = to
         /\ \A s \in Thread, point \in {"second", "third"}, op \in WritesSlice :
              At(s, point, op)' => s = t /\ point = to /\ Op(t) = op
BY DEF RewriteInv, Rewriting, TypeOK, At, Op

\* A call that loads or scans the slice while no other rewrites it reads the
\* table; what it writes into the array and stores is the table of its call.
LEMMA RewriteStep ==
  ASSUME IInv, [Next]_vars
  PROVE  FoundInv' /\ RewriteInv'
<1>0. TypeOK /\ FoundInv /\ RewriteInv
  BY DEF IInv
<1>w. {"InsertChatInstance", "RemoveChatInstancesForUser"} = WritesSlice
  BY DEF WritesSlice
<1>1. CASE UNCHANGED vars
  <2>1. UNCHANGED <<arrays, chatInstances, table, overlapped, loaded, position, pc, call>>
    BY <1>1 DEF vars, slices
  <2> QED
    BY <1>0, <2>1 DEF FoundInv, RewriteInv, Prepared, Rewriting, SliceOf, Found, At, Op
<1>2. ASSUME NEW t \in Thread, Elsewhere(t)
      PROVE  FoundInv' /\ RewriteInv'
  <2>1. /\ UNCHANGED <<arrays, chatInstances, table, overlapped>>
        /\ Rewriting' = Rewriting
        /\ \A s \in Rewriting : /\ pc'[s] = pc[s] /\ call'[s] = call[s]
                                /\ loaded'[s] = loaded[s] /\ position'[s] = position[s]
        /\ \A s \in Thread : pc'[s] = "dead" => pc[s] = "dead"
    BY <1>0, <1>2, ElsewhereSame
  <2>2. \A s \in Thread, point \in {"second", "third"}, op \in WritesSlice :
          At(s, point, op)' => s \in Rewriting /\ At(s, point, op)
    BY <2>1 DEF Rewriting, At, Op
  <2>3. FoundInv'
    BY <1>0, <1>w, <2>1, <2>2 DEF FoundInv
  <2>4. ASSUME ~overlapped, NEW s \in Thread
        PROVE  Prepared(s)'
    <3>1. SliceOf(loaded[s])' = SliceOf(loaded'[s])
      BY <2>1 DEF SliceOf
    <3>2. s \in Rewriting => Found(s)' = Found(s)
      BY <2>1 DEF Found
    <3> QED
      BY <1>0, <1>w, <2>1, <2>2, <2>4, <3>1, <3>2 DEF RewriteInv, Prepared
  <2>5. SliceOf(chatInstances)' = SliceOf(chatInstances)
    BY <2>1 DEF SliceOf
  <2> QED
    BY <1>0, <2>1, <2>3, <2>4, <2>5 DEF RewriteInv
<1>3. ASSUME NEW t \in Thread, InsertLoad(t)
      PROVE  FoundInv' /\ RewriteInv'
  <2>1. /\ UNCHANGED <<arrays, chatInstances, table, call, position>>
        /\ pc' = [pc EXCEPT ![t] = "second"] /\ Op(t) = "InsertChatInstance"
        /\ loaded' = [loaded EXCEPT ![t] = chatInstances]
        /\ overlapped' = (overlapped \/ Rewriting # {})
    BY <1>3 DEF InsertLoad, Access, At, Goes
  <2>2. FoundInv'
    BY <1>0, <2>1 DEF FoundInv, TypeOK, At, Op
  <2>3. CASE ~overlapped'
    <3>1. ~overlapped /\ Rewriting = {}
      BY <2>1, <2>3
    <3>2. SliceOf(chatInstances) = table /\ SliceOf(chatInstances)' = SliceOf(chatInstances)
      BY <1>0, <2>1, <3>1 DEF RewriteInv, SliceOf
    <3>3. /\ (\A s \in Rewriting' : s = t) /\ pc'[t] = "second"
          /\ \A s \in Thread : pc'[s] # "dead"
          /\ \A s \in Thread, point \in {"second", "third"}, op \in WritesSlice :
               At(s, point, op)' => s = t /\ point = "second" /\ Op(t) = op
      BY <1>0, <2>1, <3>1, OnlyRewriter
    <3>4. loaded'[t] = chatInstances'
      BY <1>0, <2>1 DEF TypeOK
    <3>5. ASSUME NEW s \in Thread PROVE Prepared(s)'
      BY <1>w, <2>1, <3>3, <3>4 DEF Prepared
    <3>6. \A p, q \in Rewriting' : p = q
      BY <3>3
    <3> QED
      BY <2>1, <2>2, <3>2, <3>3, <3>5, <3>6 DEF RewriteInv
  <2> QED
    BY <2>2, <2>3 DEF RewriteInv
<1>4. ASSUME NEW t \in Thread, InsertWrite(t)
      PROVE  FoundInv' /\ RewriteInv'
  <2>1. /\ UNCHANGED <<chatInstances, table, call, position, overlapped>>
        /\ pc' = [pc EXCEPT ![t] = "third"] /\ At(t, "second", "InsertChatInstance")
    BY <1>4 DEF InsertWrite, Access, Goes
  <2>2. FoundInv'
    BY <1>0, <2>1 DEF FoundInv, TypeOK, At, Op
  <2>3. CASE ~overlapped
    <3>1. t \in Rewriting /\ (\A s \in Rewriting : s = t) /\ pc[t] = "second"
          /\ Op(t) = "InsertChatInstance"
      BY <1>0, <1>w, <2>1, <2>3 DEF RewriteInv, Rewriting, At
    <3>2. SliceOf(chatInstances) = table /\ loaded[t] = chatInstances
      BY <1>0, <2>1, <2>3, <3>1 DEF RewriteInv, Prepared
    <3>3. /\ (\A s \in Rewriting' : s = t) /\ pc'[t] = "third"
          /\ \A s \in Thread : pc'[s] # "dead"
          /\ \A s \in Thread, point \in {"second", "third"}, op \in WritesSlice :
               At(s, point, op)' => s = t /\ point = "third" /\ Op(t) = op
      BY <1>0, <2>1, <2>3, <3>1, OnlyRewriter
    <3>4. t \in Rewriting'
      BY <1>w, <2>1, <3>1, <3>3 DEF Rewriting, Op
    <3>5. SliceOf(loaded[t])' = InsertChatInstance(table, call[t].instance)
      <4> DEFINE grown == InsertChatInstance(table, call[t].instance)
      <4>1. arrays'[loaded'[t].array] = grown.cells /\ loaded'[t].len = grown.len
        BY <1>0, <1>4, <3>2, InsertWriteHeap
      <4>2. grown = [cells |-> grown.cells, len |-> grown.len]
        BY DEF InsertChatInstance
      <4> HIDE DEF grown
      <4>3. SliceOf(loaded[t])' = grown
        BY <4>1, <4>2 DEF SliceOf
      <4> QED
        BY <4>3 DEF grown
    <3>6. ASSUME NEW s \in Thread PROVE Prepared(s)'
      BY <1>w, <2>1, <3>1, <3>3, <3>5 DEF Prepared
    <3>7. \A p, q \in Rewriting' : p = q
      BY <3>3
    <3> QED
      BY <2>2, <3>3, <3>4, <3>6, <3>7 DEF RewriteInv
  <2> QED
    BY <2>1, <2>2, <2>3 DEF RewriteInv
<1>5. ASSUME NEW t \in Thread, InsertStore(t)
      PROVE  FoundInv' /\ RewriteInv'
  <2>1. /\ UNCHANGED <<arrays, call, position, overlapped, loaded>>
        /\ pc' = [pc EXCEPT ![t] = "unlock"] /\ At(t, "third", "InsertChatInstance")
        /\ chatInstances' = loaded[t]
        /\ table' = InsertChatInstance(table, call[t].instance)
    BY <1>5 DEF InsertStore, Access, Goes
  <2>2. FoundInv'
    BY <1>0, <2>1 DEF FoundInv, TypeOK, At, Op
  <2>3. CASE ~overlapped
    <3>1. \A s \in Rewriting : s = t
      BY <1>0, <1>w, <2>1, <2>3 DEF RewriteInv, Rewriting, At
    <3>2. SliceOf(loaded[t]) = table' /\ SliceOf(chatInstances)' = SliceOf(loaded[t])
      BY <1>0, <2>1, <2>3 DEF RewriteInv, Prepared, SliceOf
    <3>3. /\ Rewriting' = {} /\ \A s \in Thread : pc'[s] # "dead"
          /\ \A s \in Thread, point \in {"second", "third"}, op \in WritesSlice :
               ~At(s, point, op)'
      BY <1>0, <2>1, <2>3, <3>1, OnlyRewriter
    <3>4. ASSUME NEW s \in Thread PROVE Prepared(s)'
      BY <1>w, <3>3 DEF Prepared
    <3>5. \A p, q \in Rewriting' : p = q
      BY <3>3
    <3> QED
      BY <2>2, <3>2, <3>3, <3>4, <3>5 DEF RewriteInv
  <2> QED
    BY <2>1, <2>2, <2>3 DEF RewriteInv
<1>6. ASSUME NEW t \in Thread, RemoveScan(t)
      PROVE  FoundInv' /\ RewriteInv'
  <2> DEFINE found == PositionsOf(SliceOf(chatInstances), call[t].name)
             to == IF found = {} THEN "unlock" ELSE "second"
  <2>1. /\ UNCHANGED <<arrays, chatInstances, table, call, loaded>>
        /\ pc' = [pc EXCEPT ![t] = to] /\ Op(t) = "RemoveChatInstancesForUser"
        /\ overlapped' = (overlapped \/ Rewriting # {})
    BY <1>6 DEF RemoveScan, Access, At, Goes
  <2>2. IF found = {} THEN UNCHANGED position
        ELSE /\ position'[t] \in found /\ \A j \in found : position'[t] <= j
             /\ \A s \in Thread : s # t => position'[s] = position[s]
    BY <1>0, <1>6 DEF RemoveScan, TypeOK
  <2>3. found \subseteq Nat \ {0}
    <3>1. chatInstances.len \in Nat
      BY <1>0 DEF TypeOK, Header
    <3> QED
      BY <3>1 DEF PositionsOf, SliceOf
  <2> HIDE DEF found
  <2>4. FoundInv'
    BY <1>0, <2>1, <2>2, <2>3 DEF FoundInv, TypeOK, At, Op
  <2>5. CASE ~overlapped'
    <3>1. ~overlapped /\ Rewriting = {}
      BY <2>1, <2>5
    <3>2. SliceOf(chatInstances) = table /\ SliceOf(chatInstances)' = SliceOf(chatInstances)
      BY <1>0, <2>1, <3>1 DEF RewriteInv, SliceOf
    <3>3. /\ (\A s \in Rewriting' : s = t) /\ pc'[t] = to
          /\ \A s \in Thread : pc'[s] # "dead"
          /\ \A s \in Thread, point \in {"second", "third"}, op \in WritesSlice :
               At(s, point, op)' => s = t /\ point = to /\ Op(t) = op
      <4>1. to \in {"second", "third", "unlock"}
        OBVIOUS
      <4> HIDE DEF to
      <4> QED
        BY <1>0, <2>1, <3>1, <4>1, OnlyRewriter
    <3>4. Found(t)' = found
      BY <2>1, <3>2 DEF Found, found
    <3>5. ASSUME NEW s \in Thread PROVE Prepared(s)'
      BY <1>w, <2>1, <2>2, <3>3, <3>4 DEF Prepared
    <3>6. \A p, q \in Rewriting' : p = q
      BY <3>3
    <3> QED
      BY <2>1, <2>4, <3>2, <3>3, <3>5, <3>6 DEF RewriteInv
  <2> QED
    BY <2>4, <2>5 DEF RewriteInv
<1>7. ASSUME NEW t \in Thread, RemoveShift(t)
      PROVE  FoundInv' /\ RewriteInv'
  <2>1. /\ UNCHANGED <<chatInstances, table, call, position, overlapped>>
        /\ pc' = [pc EXCEPT ![t] = "third"] /\ At(t, "second", "RemoveChatInstancesForUser")
    BY <1>7 DEF RemoveShift, Access, Goes
  <2>2. FoundInv'
    BY <1>0, <2>1 DEF FoundInv, TypeOK, At, Op
  <2>3. CASE ~overlapped
    <3>1. t \in Rewriting /\ (\A s \in Rewriting : s = t) /\ pc[t] = "second"
          /\ Op(t) = "RemoveChatInstancesForUser"
      BY <1>0, <1>w, <2>1, <2>3 DEF RewriteInv, Rewriting, At
    <3>2. /\ SliceOf(chatInstances) = table
          /\ position[t] \in Found(t) /\ \A j \in Found(t) : position[t] <= j
      BY <1>0, <2>1, <2>3, <3>1 DEF RewriteInv, Prepared
    <3>3. /\ (\A s \in Rewriting' : s = t) /\ pc'[t] = "third"
          /\ \A s \in Thread : pc'[s] # "dead"
          /\ \A s \in Thread, point \in {"second", "third"}, op \in WritesSlice :
               At(s, point, op)' => s = t /\ point = "third" /\ Op(t) = op
      BY <1>0, <2>1, <2>3, <3>1, OnlyRewriter
    <3>4. t \in Rewriting'
      BY <1>w, <2>1, <3>1, <3>3 DEF Rewriting, Op
    <3>5. SliceOf(loaded[t])' = RemoveChatInstancesForUser(table, call[t].name)
      <4>1. table.len = chatInstances.len /\ chatInstances.len \in Nat
        BY <1>0, <3>2 DEF SliceOf, TypeOK, Header
      <4>2. RemoveChatInstancesForUser(table, call[t].name) = RemoveAt(table, position[t])
        BY <3>2, <4>1, RemovesLeast DEF Found
      <4> DEFINE rest == RemoveAt(table, position[t])
      <4>3. /\ rest = [cells |-> rest.cells, len |-> rest.len]
            /\ rest.len = chatInstances.len - 1
        BY <4>1 DEF RemoveAt
      <4>4. /\ loaded'[t] = [array |-> chatInstances.array, len |-> chatInstances.len - 1]
            /\ arrays'[chatInstances.array] = rest.cells
        BY <1>0, <1>7, <3>2, RemoveShiftHeap
      <4> HIDE DEF rest
      <4>5. SliceOf(loaded[t])' = rest
        BY <4>3, <4>4 DEF SliceOf
      <4> QED
        BY <4>2, <4>5 DEF rest
    <3>6. ASSUME NEW s \in Thread PROVE Prepared(s)'
      BY <1>w, <2>1, <3>1, <3>3, <3>5 DEF Prepared
    <3>7. \A p, q \in Rewriting' : p = q
      BY <3>3
    <3> QED
      BY <2>2, <3>3, <3>4, <3>6, <3>7 DEF RewriteInv
  <2> QED
    BY <2>1, <2>2, <2>3 DEF RewriteInv
<1>8. ASSUME NEW t \in Thread, RemovePanics(t)
      PROVE  FoundInv' /\ RewriteInv'
  <2>1. /\ At(t, "second", "RemoveChatInstancesForUser")
        /\ position[t] > chatInstances.len
        /\ pc' = [s \in Thread |-> "dead"]
        /\ UNCHANGED overlapped
    BY <1>8 DEF RemovePanics, slices
  <2>2. overlapped
    <3> SUFFICES ASSUME ~overlapped PROVE FALSE
      OBVIOUS
    <3>1. t \in Rewriting /\ (\A s \in Rewriting : s = t) /\ pc[t] = "second"
      BY <1>0, <1>w, <2>1 DEF RewriteInv, Rewriting, At
    <3>2. SliceOf(chatInstances) = table /\ position[t] \in Found(t)
      BY <1>0, <2>1, <3>1 DEF RewriteInv, Prepared
    <3>3. position[t] \in 1..chatInstances.len /\ chatInstances.len \in Nat
      BY <1>0, <3>2 DEF Found, PositionsOf, SliceOf, TypeOK, Header
    <3> QED
      BY <2>1, <3>3
  <2> QED
    BY <2>1, <2>2 DEF FoundInv, RewriteInv, At
<1>9. ASSUME NEW t \in Thread, RemoveStore(t)
      PROVE  FoundInv' /\ RewriteInv'
  <2>1. /\ UNCHANGED <<arrays, call, position, overlapped, loaded>>
        /\ pc' = [pc EXCEPT ![t] = "unlock"] /\ At(t, "third", "RemoveChatInstancesForUser")
        /\ chatInstances' = loaded[t]
        /\ table' = RemoveChatInstancesForUser(table, call[t].name)
    BY <1>9 DEF RemoveStore, Access, Goes
  <2>2. FoundInv'
    BY <1>0, <2>1 DEF FoundInv, TypeOK, At, Op
  <2>3. CASE ~overlapped
    <3>1. \A s \in Rewriting : s = t
      BY <1>0, <1>w, <2>1, <2>3 DEF RewriteInv, Rewriting, At
    <3>2. SliceOf(loaded[t]) = table' /\ SliceOf(chatInstances)' = SliceOf(loaded[t])
      BY <1>0, <2>1, <2>3 DEF RewriteInv, Prepared, SliceOf
    <3>3. /\ Rewriting' = {} /\ \A s \in Thread : pc'[s] # "dead"
          /\ \A s \in Thread, point \in {"second", "third"}, op \in WritesSlice :
               ~At(s, point, op)'
      BY <1>0, <2>1, <2>3, <3>1, OnlyRewriter
    <3>4. ASSUME NEW s \in Thread PROVE Prepared(s)'
      BY <1>w, <3>3 DEF Prepared
    <3>5. \A p, q \in Rewriting' : p = q
      BY <3>3
    <3> QED
      BY <2>2, <3>2, <3>3, <3>4, <3>5 DEF RewriteInv
  <2> QED
    BY <2>1, <2>2, <2>3 DEF RewriteInv
<1> QED
  BY <1>1, <1>2, <1>3, <1>4, <1>5, <1>6, <1>7, <1>8, <1>9 DEF Next, Body, Elsewhere

\* The invariant holds in every state of the store.
THEOREM Invariant == Spec => []IInv
<1>1. IInv /\ [Next]_vars => IInv'
  BY TypeStep, LockStep, NameStep, RewriteStep DEF IInv
<1> QED
  BY InitInv, <1>1, PTL DEF Spec

\* The store's state and the calls in progress always have their types.
THEOREM TypeCorrect == Spec => []TypeOK
BY Invariant, PTL DEF IInv

\* However many goroutines call Create, Delete, Read, ReadByUsername,
\* UpdateDelayList and GetDelayList, none accesses a map that another writes.
THEOREM MapsNeverRace == Spec => []MapsRaceFree
<1>1. IInv => MapsRaceFree
  <2> SUFFICES ASSUME IInv, NEW t \in Thread, NEW s \in Thread,
                      t # s, Inside(t), Inside(s), WritesMap(t)
               PROVE  FALSE
    BY DEF MapsRaceFree
  <2>1. Locked(t) /\ Locked(s)
    BY DEF Inside, Locked
  <2>2. Op(t) \in WriteLocked
    BY DEF WritesMap, WriteLocked
  <2> QED
    BY <2>1, <2>2, WriterAlone DEF IInv
<1> QED
  BY Invariant, <1>1, PTL

\* However registrations overlap, no two addresses have the same username.
THEOREM UsernamesStayUnique == Spec => []UsernameUnique
BY Invariant, PTL DEF IInv

\* Until two calls that write the slice overlap, the table of chats is what
\* InsertChatInstance and RemoveChatInstancesForUser make of it one after
\* another, and no removal panics, however many goroutines call the store.
THEOREM AtomicUntilOverlap == Spec => []AsIfAtomic
<1>1. IInv => AsIfAtomic
  BY DEF IInv, RewriteInv, AsIfAtomic
<1> QED
  BY Invariant, <1>1, PTL
============================================================================

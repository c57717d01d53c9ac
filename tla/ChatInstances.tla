--------------------------- MODULE ChatInstances ---------------------------
(***************************************************************************)
(* The chat instance table of Central's client store                       *)
(* (Central/internal/client/store.go): a Go slice.  A slice is a window of *)
(* len cells on a backing array; append writes into the array in place     *)
(* while the capacity lasts, and the removals shift the array in place.    *)
(* The array matters because GetAllChatInstances hands it to the caller.   *)
(* Each call is one step here; the calls take the read lock only, and      *)
(* ClientStore has them access by access, overlapping.                     *)
(***************************************************************************)
EXTENDS Naturals, Sequences

\* A slice: cells is the whole backing array (its length is the capacity).
\* The cells after len hold what earlier writes left there.
EmptySlice == [cells |-> <<>>, len |-> 0]

\* The zero ChatInstance of a cell that was never written.
ZeroInstance == [room |-> "", server |-> "", users |-> <<>>]

Entries(slice) == SubSeq(slice.cells, 1, slice.len)

\* Does append move the table to a new array?
Reallocates(slice) == slice.len = Len(slice.cells)

\* The capacity after an append of one element: it doubles when the array is
\* full (Go's rule for up to 256 elements of this size).
CapacityAfterAppend(slice) ==
  IF ~Reallocates(slice) THEN Len(slice.cells)
                         ELSE IF slice.len = 0 THEN 1 ELSE 2 * slice.len

\* append: in place while the capacity lasts, else in a new, larger array.
InsertChatInstance(slice, instance) ==
  [cells |-> [k \in 1..CapacityAfterAppend(slice) |->
                IF k = slice.len + 1 THEN instance
                ELSE IF k <= Len(slice.cells) THEN slice.cells[k]
                ELSE ZeroInstance],
   len   |-> slice.len + 1]

\* append(s[:i], s[i+1:]...): the later entries move up by one, in place; the
\* last cell keeps its old contents.
RemoveAt(slice, i) ==
  [cells |-> [k \in 1..Len(slice.cells) |->
                IF i <= k /\ k < slice.len THEN slice.cells[k + 1]
                                           ELSE slice.cells[k]],
   len   |-> slice.len - 1]

HasUser(instance, user) == \E k \in DOMAIN instance.users : instance.users[k] = user

\* Positions of the entries that have the user.
PositionsOf(slice, user) == {i \in 1..slice.len : HasUser(slice.cells[i], user)}

MutantRemoveChatInstancesForUser(slice, user) ==
  IF PositionsOf(slice, user) = {}
    THEN slice
    ELSE LET i == CHOOSE k \in PositionsOf(slice, user) :
                    \A j \in PositionsOf(slice, user) : k <= j
         IN  RemoveAt(slice, IF i = slice.len THEN i ELSE i + 1)

\* Removes the first entry that has the user, if there is one.
RemoveChatInstancesForUser(slice, user) ==
  IF PositionsOf(slice, user) = {}
    THEN slice
    ELSE RemoveAt(slice, CHOOSE i \in PositionsOf(slice, user) :
                           \A j \in PositionsOf(slice, user) : i <= j)
============================================================================

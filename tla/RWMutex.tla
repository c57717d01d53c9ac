------------------------------ MODULE RWMutex ------------------------------
(***************************************************************************)
(* Go's sync.RWMutex, as the stores of Central use it.  A writer that has  *)
(* called Lock keeps new readers out while it waits for the readers that   *)
(* are in; the readers it kept out enter together when it unlocks.         *)
(***************************************************************************)
CONSTANTS
  Thread,  \* the goroutines that call the store
  None

ASSUME ThreadAssumption == None \notin Thread

VARIABLE mu

Unlocked == [readers |-> {}, waiting |-> {}, writer |-> None]

MutexTypeOK ==
  mu \in [readers : SUBSET Thread, waiting : SUBSET Thread, writer : Thread \cup {None}]

\* The call of RLock; the caller is in once Reading holds.
RLock(t) ==
  mu' = IF mu.writer = None THEN [mu EXCEPT !.readers = @ \cup {t}]
                            ELSE [mu EXCEPT !.waiting = @ \cup {t}]

RUnlock(t) ==
  mu' = [mu EXCEPT !.readers = @ \ {t}]

\* The call of Lock, past the mutex between writers; the caller is in once
\* Writing holds.
Lock(t) ==
  /\ mu.writer = None
  /\ mu' = [mu EXCEPT !.writer = t]

Unlock(t) ==
  mu' = [readers |-> mu.waiting, waiting |-> {}, writer |-> None]

Reading(t) == t \in mu.readers

Writing(t) == mu.writer = t /\ mu.readers = {}
============================================================================

-------------------------- MODULE ChatHistory_proofs --------------------------
(***************************************************************************)
(* Proofs about one chat history file, for any number of storing, deleting *)
(* and pruning threads, of messages and of restarts.                       *)
(***************************************************************************)
EXTENDS ChatHistory, FiniteSetTheorems, TLAPS

(***************************************************************************)
(* The inductive invariant.  The lock a thread works under is its own      *)
(* (LocksHeld), and until one is forgotten under somebody they are all the *)
(* registered one (OneLock).  So nobody writes between the moment a storer *)
(* reads the file and the moment it replaces it (ReadsCurrent), which is   *)
(* why no message gets lost, unless the storer could not read it.          *)
(***************************************************************************)

\* The steps of each kind of thread.
Positions ==
    /\ \A t \in Storers :
          pc[t] \in {"idle", "acquire", "read", "write", "replace", "done"}
    /\ \A t \in Deleters \cup Pruners :
          pc[t] \in {"idle", "expired", "acquire", "remove", "forget", "done"}

\* A storer at work has a message to store.
HasMessage ==
    \A t \in Storers :
        pc[t] \in {"acquire", "read", "write", "replace"} => sent[t] >= 1

LocksHeld == \A t \in Threads : Inside(t) => holder[lock[t]] = t

OneLock ==
    ~forgotten => \A t \in Threads : lock[t] # NoLock => lock[t] = registry

\* What a storer finds in the file.
Contents == IF file = Missing THEN <<>> ELSE file

ReadsCurrent ==
    ~forgotten => \A t \in Storers :
        pc[t] \in {"write", "replace"} => buffer[t] = Contents \/ unread[t] = Stored

IInv ==
    /\ TypeOK
    /\ Positions
    /\ HasMessage
    /\ LocksHeld
    /\ OneLock
    /\ ReadsCurrent
    /\ StoredUntilForgotten

------------------------------------------------------------------------------
(***************************************************************************)
(* Lemmas about the operations on locks.                                   *)
(***************************************************************************)

\* Looking a lock up gives a thread the registered lock; if there is none, a
\* fresh one is registered.
LEMMA LockForGives ==
    ASSUME TypeOK, NEW t \in Threads, LockFor(t)
    PROVE  /\ registry' \in Locks
           /\ lock' \in [Threads -> Locks \cup {NoLock}]
           /\ lock'[t] = registry' /\ lock'[t] # NoLock
           /\ \A u \in Threads \ {t} : lock'[u] = lock[u]
           /\ registry # NoLock => registry' = registry
BY HistoryAssumption DEF TypeOK, LockFor, InUse

\* Leaving a `with` block frees the lock and leaves the other threads' alone.
LEMMA ReleaseFrees ==
    ASSUME TypeOK, NEW t \in Threads, Release(t), lock[t] # NoLock
    PROVE  /\ holder' \in [Locks -> Threads \cup {NoThread}]
           /\ lock' \in [Threads -> Locks \cup {NoLock}]
           /\ lock'[t] = NoLock
           /\ \A u \in Threads \ {t} : lock'[u] = lock[u]
           /\ \A l \in Locks \ {lock[t]} : holder'[l] = holder[l]
BY HistoryAssumption DEF TypeOK, Release

\* Two threads inside have two locks, and then one has been forgotten.
LEMMA Exclusion == IInv => OverlapOnlyForgotten
<1> SUFFICES ASSUME IInv, NEW t \in Threads, NEW u \in Threads,
                    Inside(t), Inside(u), t # u
             PROVE  lock[t] # lock[u] /\ forgotten
  BY DEF OverlapOnlyForgotten
<1>1. holder[lock[t]] = t /\ holder[lock[u]] = u
  BY DEF IInv, LocksHeld
<1>2. lock[t] # lock[u]
  BY <1>1
<1>3. lock[t] # NoLock /\ lock[u] # NoLock
  BY DEF IInv, TypeOK
<1>4. forgotten
  BY <1>2, <1>3 DEF IInv, OneLock
<1>5. QED
  BY <1>2, <1>4

------------------------------------------------------------------------------
(***************************************************************************)
(* Types.                                                                  *)
(***************************************************************************)
\* The last part of TypeOK: threads refer to locks as their position says.
RefersToLock(t) == lock[t] # NoLock <=> (Inside(t) \/ pc[t] = "acquire")

\* A step of one thread that keeps the lock it refers to.
LEMMA RefersKept ==
    ASSUME TypeOK, NEW t \in Threads, NEW label, Goto(t, label),
           \/ /\ lock' = lock
              /\ label \in {"acquire", "read", "write", "replace", "remove"}
                   <=> (Inside(t) \/ pc[t] = "acquire")
           \/ LockFor(t) /\ label = "acquire"
           \/ /\ Release(t) /\ lock[t] # NoLock
              /\ label \in {"idle", "forget", "done"}
    PROVE  \A u \in Threads : RefersToLock(u)'
<1>1. ASSUME NEW u \in Threads, u # t
      PROVE  RefersToLock(u)'
  <2>1. lock'[u] = lock[u]
    BY <1>1, LockForGives, ReleaseFrees
  <2>2. pc'[u] = pc[u]
    BY <1>1 DEF Goto, TypeOK
  <2>3. QED
    BY <2>1, <2>2 DEF RefersToLock, Inside, TypeOK
<1>2. RefersToLock(t)'
  <2>1. pc'[t] = label
    BY DEF Goto, TypeOK
  <2>2. CASE lock' = lock /\ (label \in {"acquire", "read", "write", "replace", "remove"}
                   <=> (Inside(t) \/ pc[t] = "acquire"))
    BY <2>1, <2>2 DEF RefersToLock, Inside, TypeOK
  <2>3. CASE LockFor(t) /\ label = "acquire"
    BY <2>1, <2>3, LockForGives DEF RefersToLock
  <2>4. CASE Release(t) /\ lock[t] # NoLock /\ label \in {"idle", "forget", "done"}
    BY <2>1, <2>4, ReleaseFrees DEF RefersToLock, Inside
  <2>5. QED
    BY <2>2, <2>3, <2>4
<1>3. QED
  BY <1>1, <1>2

\* A step moves the thread that takes it.
LEMMA GotoMoves ==
    ASSUME TypeOK, NEW t \in Threads, NEW label, Goto(t, label)
    PROVE  /\ pc' = [pc EXCEPT ![t] = label]
           /\ pc'[t] = label
           /\ \A u \in Threads \ {t} : pc'[u] = pc[u]
BY DEF TypeOK, Goto

\* Storing keeps the types.
LEMMA StoreTypes ==
    ASSUME IInv, NEW t \in Storers,
           \/ BeginStore(t) \/ Read(t) \/ ReadFails(t) \/ WriteTemp(t)
           \/ StoreFails(t) \/ Replace(t)
    PROVE  TypeOK'
<1>0. t \in Threads /\ TypeOK /\ <<>> \in Seq(Message)
  BY DEF Threads, IInv
<1>1. CASE BeginStore(t)
  <2>1. sent' \in [Storers -> 0 .. MaxStores]
    BY <1>0, <1>1, HistoryAssumption DEF TypeOK, BeginStore
  <2>2. pc' \in [Threads -> {"idle", "acquire", "read", "write", "replace",
                             "expired", "remove", "forget", "done"}]
    BY <1>0, <1>1 DEF TypeOK, BeginStore, Goto
  <2>3. \A u \in Threads : RefersToLock(u)'
    BY <1>0, <1>1, RefersKept DEF BeginStore
  <2>4. QED
    BY <1>0, <1>1, <2>1, <2>2, <2>3, LockForGives DEF TypeOK, BeginStore, RefersToLock
<1>2. CASE Read(t) \/ ReadFails(t)
  <2>1. buffer' \in [Threads -> Seq(Message)] /\ unread' \in [Storers -> SUBSET Message]
    <3>1. Stored \in SUBSET Message
      BY <1>0 DEF TypeOK, Stored
    <3>2. QED
      BY <1>0, <1>2, <3>1 DEF TypeOK, Read, ReadFails
  <2>2. \A u \in Threads : RefersToLock(u)'
    BY <1>0, <1>2, RefersKept DEF Read, ReadFails, Inside
  <2>3. QED
    BY <1>0, <1>2, <2>1, <2>2 DEF TypeOK, Read, ReadFails, Goto, RefersToLock
<1>3. CASE WriteTemp(t)
  <2>1. \A u \in Threads : RefersToLock(u)'
    BY <1>0, <1>3, RefersKept DEF WriteTemp, Inside
  <2>2. QED
    BY <1>0, <1>3, <2>1 DEF TypeOK, WriteTemp, Goto, RefersToLock
<1>4. CASE StoreFails(t)
  <2>1. Release(t) /\ lock[t] # NoLock
    BY <1>0, <1>4 DEF TypeOK, StoreFails, AfterFailure, Inside
  <2>2. \A u \in Threads : RefersToLock(u)'
    BY <1>0, <1>4, <2>1, RefersKept DEF StoreFails
  <2>3. buffer' \in [Threads -> Seq(Message)] /\ strays' \in Nat
    BY <1>0, <1>4 DEF TypeOK, StoreFails
  <2>4. QED
    BY <1>0, <1>4, <2>1, <2>2, <2>3, ReleaseFrees
       DEF TypeOK, StoreFails, Goto, RefersToLock
<1>5. CASE Replace(t)
  <2>1. Release(t) /\ lock[t] # NoLock
    BY <1>0, <1>5 DEF TypeOK, Replace, Inside
  <2>2. \A u \in Threads : RefersToLock(u)'
    BY <1>0, <1>5, <2>1, RefersKept DEF Replace
  <2>3. buffer' \in [Threads -> Seq(Message)]
    BY <1>0, <1>5 DEF TypeOK, Replace
  <2>4. New(t) \in Message
    BY <1>0, <1>5, HistoryAssumption DEF TypeOK, Replace, New, Message, IInv, HasMessage
  <2>5. /\ file' \in Seq(Message) /\ acked' \in SUBSET Message
        /\ overwritten' \in SUBSET Message
    BY <1>0, <1>5, <2>4 DEF TypeOK, Replace
  <2>6. QED
    BY <1>0, <1>5, <2>1, <2>2, <2>3, <2>5, ReleaseFrees
       DEF TypeOK, Replace, Goto, RefersToLock
<1>6. QED
  BY <1>1, <1>2, <1>3, <1>4, <1>5

\* Deleting and pruning keep the types.
LEMMA RemoveTypes ==
    ASSUME IInv, NEW t \in Threads,
           \/ BeginDelete(t) /\ t \in Deleters
           \/ (CheckExpired(t) \/ PruneStray(t) \/ BeginPrune(t)) /\ t \in Pruners
           \/ /\ Remove(t) \/ RemoveFails(t) \/ Forget(t)
              /\ t \in Deleters \cup Pruners
    PROVE  TypeOK'
<1>0. TypeOK
  BY DEF IInv
<1>1. CASE BeginDelete(t) \/ BeginPrune(t)
  <2>1. \A u \in Threads : RefersToLock(u)'
    BY <1>0, <1>1, RefersKept DEF BeginDelete, BeginPrune
  <2>2. /\ registry' \in Locks
        /\ lock' \in [Threads -> Locks \cup {NoLock}]
    BY <1>0, <1>1, LockForGives DEF BeginDelete, BeginPrune
  <2>3. QED
    BY <1>0, <1>1, <2>1, <2>2 DEF TypeOK, BeginDelete, BeginPrune, Goto, RefersToLock
<1>2. CASE CheckExpired(t)
  <2>1. \A u \in Threads : RefersToLock(u)'
    BY <1>0, <1>2, RefersKept DEF CheckExpired, Inside
  <2>2. QED
    BY <1>0, <1>2, <2>1 DEF TypeOK, CheckExpired, Goto, RefersToLock
<1>3. CASE PruneStray(t)
  BY <1>0, <1>3 DEF TypeOK, PruneStray, Inside
<1>4. CASE Remove(t) \/ RemoveFails(t)
  <2>1. Release(t) /\ lock[t] # NoLock
    BY <1>0, <1>4 DEF TypeOK, Remove, RemoveFails, Inside
  <2>2. \A u \in Threads : RefersToLock(u)'
    BY <1>0, <1>4, <2>1, RefersKept DEF Remove, RemoveFails
  <2>3. /\ holder' \in [Locks -> Threads \cup {NoThread}]
        /\ lock' \in [Threads -> Locks \cup {NoLock}]
    BY <1>0, <2>1, ReleaseFrees
  <2>4. /\ file' \in Seq(Message) \cup {Missing}
        /\ age' \in 0 .. 2 /\ acked' \in SUBSET Message
    BY <1>0, <1>4 DEF TypeOK, Remove, RemoveFails
  <2>5. QED
    BY <1>0, <1>4, <2>2, <2>3, <2>4 DEF TypeOK, Remove, RemoveFails, Goto, RefersToLock
<1>5. CASE Forget(t)
  <2>1. \A u \in Threads : RefersToLock(u)'
    BY <1>0, <1>5, RefersKept DEF Forget, Inside
  <2>2. QED
    BY <1>0, <1>5, <2>1 DEF TypeOK, Forget, Goto, RefersToLock
<1>6. QED
  BY <1>1, <1>2, <1>3, <1>4, <1>5

\* Every step keeps the types.
LEMMA TypesKept == IInv /\ [Next]_vars => TypeOK'
<1> SUFFICES ASSUME IInv, [Next]_vars
             PROVE  TypeOK'
  OBVIOUS
<1>0. TypeOK
  BY DEF IInv
<1>1. ASSUME NEW t \in Threads, Acquire(t)
      PROVE  TypeOK'
  <2>1. \A u \in Threads : RefersToLock(u)'
    BY <1>0, <1>1, RefersKept DEF Acquire, Inside
  <2>2. holder' \in [Locks -> Threads \cup {NoThread}]
    BY <1>0, <1>1 DEF TypeOK, Acquire
  <2>3. pc' \in [Threads -> {"idle", "acquire", "read", "write", "replace",
                             "expired", "remove", "forget", "done"}]
    BY <1>0, <1>1 DEF TypeOK, Acquire, Goto
  <2>4. QED
    BY <1>0, <1>1, <2>1, <2>2, <2>3 DEF TypeOK, Acquire, RefersToLock
<1>2. CASE Age
  BY <1>2 DEF IInv, TypeOK, Age, Inside
<1>3. CASE Crash
  <2>1. \A left \in SUBSET Storers : Cardinality(left) \in Nat
    BY HistoryAssumption, FS_Subset, FS_CardinalityType DEF Threads
  <2>2. strays' \in Nat /\ crashes' \in 0 .. MaxCrashes
    <3>1. PICK begun \in SUBSET {t \in Storers : pc[t] = "write"} :
             strays' = strays
                + Cardinality({t \in Storers : pc[t] = "replace"} \cup begun)
      BY <1>3 DEF Crash
    <3>2. {t \in Storers : pc[t] = "replace"} \cup begun \in SUBSET Storers
      OBVIOUS
    <3>3. Cardinality({t \in Storers : pc[t] = "replace"} \cup begun) \in Nat
      BY <2>1, <3>2
    <3> QED
      BY <1>0, <1>3, <3>1, <3>3, HistoryAssumption DEF TypeOK, Crash
  <2>3. \A t \in Threads : RefersToLock(t)'
    BY <1>0, <1>3 DEF TypeOK, Crash, RefersToLock, Inside
  <2>4. QED
    BY <1>0, <1>3, <2>2, <2>3 DEF TypeOK, Crash, RefersToLock
<1>4. CASE UNCHANGED vars
  BY <1>4 DEF vars, IInv, TypeOK, Inside
<1>5. QED
  BY <1>1, <1>2, <1>3, <1>4, StoreTypes, RemoveTypes
     DEF Next, Work, Done, Threads

------------------------------------------------------------------------------
(***************************************************************************)
(* Threads and locks.                                                      *)
(***************************************************************************)
LocksInv == Positions /\ HasMessage /\ LocksHeld /\ OneLock

\* A thread that looks its lock up is not inside, and finds the registered
\* lock if any thread has one.
LEMMA LookUpLocks ==
    ASSUME IInv, NEW t \in Threads, LockFor(t), Goto(t, "acquire"),
           ~Inside(t), UNCHANGED <<holder, forgotten>>
    PROVE  LocksHeld' /\ OneLock'
<1>1. TypeOK /\ LocksHeld /\ OneLock
  BY DEF IInv
<1>2. LocksHeld'
  BY <1>1, LockForGives, GotoMoves DEF LocksHeld, Inside
<1>3. OneLock'
  <2> SUFFICES ASSUME ~forgotten, NEW u \in Threads, lock'[u] # NoLock
               PROVE  lock'[u] = registry'
    BY DEF OneLock
  <2>1. CASE u = t
    BY <1>1, <2>1, LockForGives
  <2>2. CASE u # t
    <3>1. lock'[u] = lock[u]
      BY <1>1, <2>2, LockForGives
    <3>2. lock[u] = registry /\ registry # NoLock
      BY <1>1, <3>1 DEF OneLock
    <3>3. QED
      BY <1>1, <3>1, <3>2, LockForGives
  <2>3. QED
    BY <2>1, <2>2
<1>4. QED
  BY <1>2, <1>3

\* A thread that leaves its `with` block takes its lock from nobody.
LEMMA LeaveLocks ==
    ASSUME IInv, NEW t \in Threads, Inside(t), Release(t),
           NEW label \in {"idle", "forget"}, Goto(t, label),
           UNCHANGED <<registry, forgotten>>
    PROVE  LocksHeld' /\ OneLock'
<1>1. TypeOK /\ LocksHeld /\ OneLock /\ lock[t] # NoLock
  BY DEF IInv, TypeOK
<1>2. LocksHeld'
  <2> SUFFICES ASSUME NEW u \in Threads, Inside(u)'
               PROVE  holder'[lock'[u]] = u
    BY DEF LocksHeld
  <2>1. u # t
    BY <1>1, GotoMoves DEF Inside
  <2>2. Inside(u) /\ lock'[u] = lock[u]
    BY <1>1, <2>1, GotoMoves, ReleaseFrees DEF Inside
  <2>3. lock[u] # lock[t] /\ lock[u] \in Locks
    BY <1>1, <2>1, <2>2 DEF LocksHeld, TypeOK
  <2>4. QED
    BY <1>1, <2>2, <2>3, ReleaseFrees DEF LocksHeld
<1>3. OneLock'
  BY <1>1, ReleaseFrees DEF OneLock
<1>4. QED
  BY <1>2, <1>3

\* Storing keeps the order of the locks.
LEMMA StoreLocks ==
    ASSUME IInv, NEW t \in Storers,
           \/ BeginStore(t) \/ Read(t) \/ ReadFails(t) \/ WriteTemp(t)
           \/ StoreFails(t) \/ Replace(t)
    PROVE  LocksInv'
<1>0. /\ TypeOK /\ Positions /\ HasMessage /\ LocksHeld /\ OneLock
      /\ t \in Threads /\ t \notin Deleters \cup Pruners
  BY HistoryAssumption DEF Threads, IInv
<1>1. \E label \in {"idle", "acquire", "read", "write", "replace"} : Goto(t, label)
  BY DEF BeginStore, Read, ReadFails, WriteTemp, StoreFails, Replace
<1>2. Positions'
  <2>1. /\ pc'[t] \in {"idle", "acquire", "read", "write", "replace"}
        /\ \A u \in Threads \ {t} : pc'[u] = pc[u]
    BY <1>0, <1>1, GotoMoves
  <2>2. QED
    BY <1>0, <2>1 DEF Positions, Threads
<1>3. HasMessage'
  <2>1. CASE BeginStore(t)
    BY <1>0, <2>1, GotoMoves DEF BeginStore, HasMessage, TypeOK, Threads
  <2>2. CASE \/ Read(t) \/ ReadFails(t) \/ WriteTemp(t)
             \/ StoreFails(t) \/ Replace(t)
    BY <1>0, <2>2, GotoMoves
       DEF Read, ReadFails, WriteTemp, StoreFails, Replace, HasMessage, Threads
  <2>3. QED
    BY <2>1, <2>2
<1>4. LocksHeld' /\ OneLock'
  <2>1. CASE BeginStore(t)
    BY <1>0, <2>1, LookUpLocks DEF BeginStore, Inside
  <2>2. CASE Read(t) \/ ReadFails(t) \/ WriteTemp(t)
    BY <1>0, <2>2, GotoMoves DEF Read, ReadFails, WriteTemp, LocksHeld, OneLock, Inside
  <2>3. CASE StoreFails(t) \/ Replace(t)
    BY <1>0, <2>3, LeaveLocks DEF StoreFails, AfterFailure, Replace, Inside
  <2>4. QED
    BY <2>1, <2>2, <2>3
<1>5. QED
  BY <1>2, <1>3, <1>4 DEF LocksInv

\* So do deleting and pruning: whoever forgets a lock under another notes it.
LEMMA RemoveLocks ==
    ASSUME IInv, NEW t \in Deleters \cup Pruners,
           \/ BeginDelete(t)
           \/ CheckExpired(t) \/ PruneStray(t) \/ BeginPrune(t)
           \/ Remove(t) \/ RemoveFails(t) \/ Forget(t)
    PROVE  LocksInv'
<1>0. /\ TypeOK /\ Positions /\ HasMessage /\ LocksHeld /\ OneLock
      /\ t \in Threads /\ t \notin Storers
  BY HistoryAssumption DEF Threads, IInv
<1>1. CASE PruneStray(t)
  BY <1>0, <1>1 DEF PruneStray, LocksInv, Positions, HasMessage, LocksHeld,
     OneLock, Inside
<1>2. CASE ~PruneStray(t)
  <2>1. \E label \in {"idle", "expired", "acquire", "forget", "done"} : Goto(t, label)
    BY <1>2 DEF BeginDelete, CheckExpired, BeginPrune, Remove, RemoveFails, Forget
  <2>2. /\ pc'[t] \in {"idle", "expired", "acquire", "forget", "done"}
        /\ \A u \in Threads \ {t} : pc'[u] = pc[u]
    BY <1>0, <2>1, GotoMoves
  <2>3. Positions'
    BY <1>0, <2>2 DEF Positions, Threads
  <2>4. HasMessage'
    BY <1>0, <1>2, <2>2
       DEF BeginDelete, CheckExpired, BeginPrune, Remove, RemoveFails, Forget,
           HasMessage, Threads
  <2>5. LocksHeld' /\ OneLock'
    <3>1. CASE BeginDelete(t) \/ BeginPrune(t)
      BY <1>0, <3>1, LookUpLocks DEF BeginDelete, BeginPrune, Inside
    <3>2. CASE CheckExpired(t)
      BY <1>0, <3>2, GotoMoves DEF CheckExpired, LocksHeld, OneLock, Inside
    <3>3. CASE Remove(t) \/ RemoveFails(t)
      BY <1>0, <3>3, LeaveLocks DEF Remove, RemoveFails, Inside
    <3>4. CASE Forget(t)
      <4>1. LocksHeld'
        BY <1>0, <2>2, <3>4 DEF Forget, LocksHeld, Inside
      <4>2. OneLock'
        BY <1>0, <3>4 DEF Forget, OneLock
      <4>3. QED
        BY <4>1, <4>2
    <3>5. QED
      BY <1>2, <3>1, <3>2, <3>3, <3>4
  <2>6. QED
    BY <2>3, <2>4, <2>5 DEF LocksInv
<1>3. QED
  BY <1>1, <1>2

\* A thread enters with a lock that nobody holds.
LEMMA AcquireLocks ==
    ASSUME IInv, NEW t \in Threads, Acquire(t)
    PROVE  LocksInv'
<1>0. TypeOK /\ Positions /\ HasMessage /\ LocksHeld /\ OneLock
  BY DEF IInv
<1>1. /\ pc'[t] = IF t \in Storers THEN "read" ELSE "remove"
      /\ \A u \in Threads \ {t} : pc'[u] = pc[u]
  BY <1>0, GotoMoves DEF Acquire
<1>2. Positions'
  BY <1>0, <1>1, HistoryAssumption DEF Positions, Threads
<1>3. HasMessage'
  BY <1>0, <1>1 DEF Acquire, HasMessage, Threads
<1>4. LocksHeld'
  <2> SUFFICES ASSUME NEW u \in Threads, Inside(u)'
               PROVE  holder'[lock[u]] = u
    BY DEF LocksHeld, Acquire
  <2>1. lock[t] \in Locks /\ holder[lock[t]] = NoThread
    BY <1>0 DEF Acquire, Free, TypeOK, Inside
  <2>2. CASE u = t
    BY <1>0, <2>1, <2>2 DEF Acquire, TypeOK
  <2>3. CASE u # t
    <3>1. Inside(u) /\ holder[lock[u]] = u
      BY <1>0, <1>1, <2>3 DEF Inside, LocksHeld
    <3>2. lock[u] # lock[t]
      BY <2>1, <3>1, HistoryAssumption
    <3>3. QED
      BY <1>0, <2>1, <3>1, <3>2 DEF Acquire, TypeOK
  <2>4. QED
    BY <2>2, <2>3
<1>5. OneLock'
  BY <1>0 DEF Acquire, OneLock
<1>6. QED
  BY <1>2, <1>3, <1>4, <1>5 DEF LocksInv

\* Every step keeps the order of the locks.
LEMMA LocksKept == IInv /\ [Next]_vars => LocksInv'
<1> SUFFICES ASSUME IInv, [Next]_vars
             PROVE  LocksInv'
  OBVIOUS
<1>0. TypeOK /\ Positions /\ HasMessage /\ LocksHeld /\ OneLock
  BY DEF IInv
<1>1. CASE Age
  BY <1>0, <1>1 DEF Age, LocksInv, Positions, HasMessage, LocksHeld, OneLock, Inside
<1>2. CASE Crash
  <2>1. \A t \in Threads : pc'[t] \in {"idle", "done"} /\ lock'[t] = NoLock
    BY <1>2 DEF Crash
  <2>2. QED
    BY <2>1 DEF LocksInv, Positions, HasMessage, LocksHeld, OneLock, Inside, Threads
<1>3. CASE UNCHANGED vars
  BY <1>0, <1>3 DEF vars, LocksInv, Positions, HasMessage, LocksHeld, OneLock, Inside
<1>4. QED
  BY <1>1, <1>2, <1>3, StoreLocks, RemoveLocks, AcquireLocks
     DEF Next, Work, Done

------------------------------------------------------------------------------
(***************************************************************************)
(* The contents of the file.                                               *)
(***************************************************************************)
ContentsInv == ReadsCurrent /\ StoredUntilForgotten

\* Until a lock is forgotten, a storer about to write is the only one inside.
LEMMA WriterAlone ==
    ASSUME IInv, ~forgotten, NEW t \in Threads, Inside(t)
    PROVE  \A u \in Storers : pc[u] \in {"write", "replace"} => u = t
BY Exclusion DEF OverlapOnlyForgotten, Inside, Threads

\* What is replaced was read from the file as it still is; or it could not be
\* read, and is what the file holds still, and then it counts as overwritten.
LEMMA ReplaceContents ==
    ASSUME IInv, NEW t \in Storers, Replace(t)
    PROVE  ContentsInv'
<1>0. /\ TypeOK /\ ReadsCurrent /\ StoredUntilForgotten
      /\ t \in Threads /\ Inside(t) /\ forgotten' = forgotten
  BY DEF IInv, Threads, Replace, Inside
<1>1. \A u \in Threads \ {t} : pc'[u] = pc[u]
  BY <1>0, GotoMoves DEF Replace
<1>2. pc'[t] = "idle"
  BY <1>0, GotoMoves DEF Replace
<1>3. ReadsCurrent'
  BY <1>0, <1>1, <1>2, WriterAlone DEF ReadsCurrent, Threads
<1>4. ASSUME ~forgotten
      PROVE  acked' \subseteq Stored' \cup overwritten'
  <2>1. buffer[t] \in Seq(Message) /\ New(t) \in Message
    BY <1>0, HistoryAssumption DEF IInv, HasMessage, Replace, TypeOK, New, Message
  <2>2. file' = Append(buffer[t], New(t)) /\ file' \in Seq(Message)
    BY <2>1 DEF Replace
  <2>3. Stored' = {file'[i] : i \in DOMAIN file'}
    BY <2>2, MissingAssumption DEF Stored
  <2>4. New(t) \in Stored'
    <3>1. /\ Len(buffer[t]) + 1 \in DOMAIN file'
          /\ file'[Len(buffer[t]) + 1] = New(t)
      BY <2>1, <2>2
    <3>2. QED
      BY <2>3, <3>1
  <2>5. Stored \subseteq Stored' \cup overwritten'
    <3>1. CASE unread[t] = Stored
      BY <3>1 DEF Replace
    <3>2. CASE buffer[t] = Contents
      <4>1. Stored \subseteq {buffer[t][i] : i \in DOMAIN buffer[t]}
        BY <3>2 DEF Stored, Contents
      <4>2. \A i \in DOMAIN buffer[t] : i \in DOMAIN file' /\ file'[i] = buffer[t][i]
        BY <2>1, <2>2
      <4>3. QED
        BY <2>3, <4>1, <4>2
    <3>3. QED
      BY <1>0, <1>4, <3>1, <3>2 DEF ReadsCurrent, Replace
  <2>6. /\ acked \subseteq Stored \cup overwritten
        /\ acked' = acked \cup {New(t)} /\ overwritten \subseteq overwritten'
    BY <1>0, <1>4 DEF StoredUntilForgotten, Replace
  <2>7. QED
    BY <2>4, <2>5, <2>6
<1>5. QED
  BY <1>0, <1>3, <1>4 DEF ContentsInv, StoredUntilForgotten

\* Nobody is about to write when the file is removed.
LEMMA RemoveContents ==
    ASSUME IInv, NEW t \in Deleters \cup Pruners, Remove(t)
    PROVE  ContentsInv'
<1>0. /\ TypeOK /\ t \in Threads /\ t \notin Storers
      /\ Inside(t) /\ forgotten' = forgotten
  BY HistoryAssumption DEF IInv, Threads, Remove, Inside
<1>1. \A u \in Threads \ {t} : pc'[u] = pc[u]
  BY <1>0, GotoMoves DEF Remove
<1>2. ReadsCurrent'
  BY <1>0, <1>1, WriterAlone DEF ReadsCurrent, Threads
<1>3. StoredUntilForgotten'
  BY DEF Remove, StoredUntilForgotten
<1>4. QED
  BY <1>2, <1>3 DEF ContentsInv

\* The other steps of a thread leave the file, and whoever is about to write,
\* as they are; a storer that comes to write has just read it, or failed to.
LEMMA QuietContents ==
    ASSUME IInv, NEW t \in Threads,
           UNCHANGED <<file, acked, overwritten>>, forgotten => forgotten',
           NEW label, pc' = [pc EXCEPT ![t] = label],
           \/ /\ label \notin {"write", "replace"}
              /\ unread' = unread
              /\ \A u \in Threads \ {t} : buffer'[u] = buffer[u]
           \/ /\ UNCHANGED <<buffer, unread>>
              /\ pc[t] \in {"write", "replace"}
           \/ Read(t) \/ ReadFails(t)
    PROVE  ContentsInv'
<1>0. TypeOK /\ ReadsCurrent /\ StoredUntilForgotten
  BY DEF IInv
<1>1. Contents' = Contents /\ Stored' = Stored
  BY DEF Contents, Stored
<1>2. ASSUME NEW u \in Storers, pc'[u] \in {"write", "replace"}, ~forgotten
      PROVE  buffer'[u] = Contents \/ unread'[u] = Stored
  <2>0. u \in Threads
    BY DEF Threads
  <2>1. CASE u # t
    <3>1. pc'[u] = pc[u] /\ buffer'[u] = buffer[u] /\ unread'[u] = unread[u]
      BY <1>0, <1>2, <2>0, <2>1 DEF Read, ReadFails, TypeOK
    <3>2. QED
      BY <1>0, <1>2, <3>1 DEF ReadsCurrent
  <2>2. CASE u = t
    <3>1. pc'[t] = label
      BY <1>0 DEF TypeOK
    <3>2. CASE UNCHANGED <<buffer, unread>> /\ pc[t] \in {"write", "replace"}
      BY <1>0, <1>2, <2>2, <3>2 DEF ReadsCurrent
    <3>3. CASE Read(t)
      BY <1>0, <2>2, <3>3 DEF Read, TypeOK, Contents
    <3>4. CASE ReadFails(t)
      BY <1>0, <2>2, <3>4 DEF ReadFails, TypeOK
    <3>5. QED
      BY <1>2, <2>2, <3>1, <3>2, <3>3, <3>4
  <2>3. QED
    BY <2>1, <2>2
<1>3. ReadsCurrent'
  BY <1>1, <1>2 DEF ReadsCurrent
<1>4. StoredUntilForgotten'
  BY <1>0 DEF StoredUntilForgotten, Stored
<1>5. QED
  BY <1>3, <1>4 DEF ContentsInv

\* Every step keeps what was stored.
LEMMA ContentsKept == IInv /\ [Next]_vars => ContentsInv'
<1> SUFFICES ASSUME IInv, [Next]_vars
             PROVE  ContentsInv'
  OBVIOUS
<1>0. TypeOK /\ ReadsCurrent /\ StoredUntilForgotten /\ Storers \subseteq Threads
      /\ Deleters \cup Pruners \subseteq Threads
  BY DEF IInv, Threads
<1>1. ASSUME NEW t \in Storers,
             \/ BeginStore(t) \/ Read(t) \/ ReadFails(t)
             \/ WriteTemp(t) \/ StoreFails(t)
      PROVE  ContentsInv'
  <2>1. CASE BeginStore(t)
    BY <1>0, <2>1, QuietContents DEF BeginStore, Goto
  <2>2. CASE Read(t) \/ ReadFails(t)
    BY <1>0, <2>2, QuietContents DEF Read, ReadFails, Goto
  <2>3. CASE WriteTemp(t)
    BY <1>0, <2>3, QuietContents DEF WriteTemp, Goto
  <2>4. CASE StoreFails(t)
    <3>1. \A u \in Threads \ {t} : buffer'[u] = buffer[u]
      BY <1>0, <2>4 DEF StoreFails, TypeOK
    <3>2. QED
      BY <1>0, <2>4, <3>1, QuietContents DEF StoreFails, Goto
  <2>5. QED
    BY <1>1, <2>1, <2>2, <2>3, <2>4
<1>2. ASSUME NEW t \in Threads, Acquire(t)
      PROVE  ContentsInv'
  <2> DEFINE label == IF t \in Storers THEN "read" ELSE "remove"
  <2>1. pc' = [pc EXCEPT ![t] = label] /\ label \notin {"write", "replace"}
    BY <1>2 DEF Acquire, Goto
  <2> HIDE DEF label
  <2>2. QED
    BY <1>0, <1>2, <2>1, QuietContents DEF Acquire
<1>3. ASSUME NEW t \in Deleters \cup Pruners,
             \/ BeginDelete(t) \/ CheckExpired(t) \/ BeginPrune(t)
             \/ RemoveFails(t) \/ Forget(t)
      PROVE  ContentsInv'
  <2>1. CASE BeginDelete(t)
    BY <1>0, <2>1, QuietContents DEF BeginDelete, Goto
  <2>2. CASE CheckExpired(t)
    BY <1>0, <2>2, QuietContents DEF CheckExpired, Goto
  <2>3. CASE BeginPrune(t)
    BY <1>0, <2>3, QuietContents DEF BeginPrune, Goto
  <2>4. CASE Forget(t)
    <3> DEFINE label == IF t \in Deleters THEN "done" ELSE "idle"
    <3>1. pc' = [pc EXCEPT ![t] = label] /\ label \notin {"write", "replace"}
      BY <2>4 DEF Forget, Goto
    <3> HIDE DEF label
    <3>2. QED
      BY <1>0, <2>4, <3>1, QuietContents DEF Forget
  <2>5. CASE RemoveFails(t)
    <3> DEFINE label == IF t \in Pruners THEN "idle" ELSE "forget"
    <3>1. pc' = [pc EXCEPT ![t] = label] /\ label \notin {"write", "replace"}
      BY <2>5 DEF RemoveFails, Goto
    <3> HIDE DEF label
    <3>2. QED
      BY <1>0, <2>5, <3>1, QuietContents DEF RemoveFails
  <2>6. QED
    BY <1>3, <2>1, <2>2, <2>3, <2>4, <2>5
<1>4. ASSUME NEW t \in Pruners, PruneStray(t)
      PROVE  ContentsInv'
  BY <1>0, <1>4 DEF PruneStray, ContentsInv, ReadsCurrent, Contents,
     StoredUntilForgotten, Stored
<1>5. CASE Age
  BY <1>0, <1>5 DEF Age, ContentsInv, ReadsCurrent, Contents,
     StoredUntilForgotten, Stored
<1>6. CASE Crash
  <2>1. \A t \in Threads : pc'[t] \in {"idle", "done"}
    BY <1>6 DEF Crash
  <2>2. QED
    BY <1>0, <1>6, <2>1 DEF Crash, ContentsInv, ReadsCurrent,
       StoredUntilForgotten, Stored
<1>7. CASE UNCHANGED vars
  BY <1>0, <1>7 DEF vars, ContentsInv, ReadsCurrent, Contents,
     StoredUntilForgotten, Stored
<1>8. QED
  BY <1>1, <1>2, <1>3, <1>4, <1>5, <1>6, <1>7, ReplaceContents, RemoveContents
     DEF Next, Work, Done

------------------------------------------------------------------------------
\* The inductive invariant holds of every behaviour.
THEOREM Invariance == Spec => []IInv
<1>1. Init => IInv
  <2> SUFFICES ASSUME Init
               PROVE  IInv
    OBVIOUS
  <2>1. TypeOK
    <3>1. <<>> \in Seq(Message)
      OBVIOUS
    <3>2. /\ file \in Seq(Message) \cup {Missing}
          /\ buffer \in [Threads -> Seq(Message)]
      BY <3>1 DEF Init
    <3>3. /\ sent \in [Storers -> 0 .. MaxStores]
          /\ crashes \in 0 .. MaxCrashes
      BY HistoryAssumption DEF Init
    <3>4. \A t \in Threads : lock[t] # NoLock <=> (Inside(t) \/ pc[t] = "acquire")
      BY DEF Init, Inside
    <3>5. /\ holder \in [Locks -> Threads \cup {NoThread}]
          /\ lock \in [Threads -> Locks \cup {NoLock}]
          /\ registry \in Locks \cup {NoLock}
          /\ pc \in [Threads -> {"idle", "acquire", "read", "write", "replace",
                                 "expired", "remove", "forget", "done"}]
      BY DEF Init
    <3>6. /\ age \in 0 .. 2 /\ strays \in Nat
          /\ acked \in SUBSET Message /\ overwritten \in SUBSET Message
          /\ unread \in [Storers -> SUBSET Message]
      BY DEF Init
    <3>7. forgotten \in BOOLEAN
      BY DEF Init
    <3>8. QED
      BY <3>2, <3>3, <3>4, <3>5, <3>6, <3>7 DEF TypeOK
  <2>2. Positions /\ HasMessage /\ LocksHeld /\ OneLock
    BY DEF Init, Positions, HasMessage, LocksHeld, OneLock, Inside, Threads
  <2>3. ReadsCurrent /\ StoredUntilForgotten
    BY DEF Init, ReadsCurrent, StoredUntilForgotten, Threads
  <2>4. QED
    BY <2>1, <2>2, <2>3 DEF IInv
<1>2. IInv /\ [Next]_vars => IInv'
  BY TypesKept, LocksKept, ContentsKept DEF IInv, LocksInv, ContentsInv
<1>3. QED
  BY <1>1, <1>2, PTL DEF Spec

\* Every variable keeps its type, and a thread refers to a lock exactly while
\* it waits for one or is inside.
THEOREM TypeCorrect == Spec => []TypeOK
<1>1. IInv => TypeOK
  BY DEF IInv
<1>2. QED
  BY <1>1, Invariance, PTL

\* However many threads store, delete and prune one history: two are inside
\* `with lock:` at once only after _forget_lock dropped a lock in use.
THEOREM OverlapExplained == Spec => []OverlapOnlyForgotten
<1>1. QED
  BY Exclusion, Invariance, PTL

\* Until that happens every message whose store_message returned is in the
\* file, whatever failed or crashed in between, except for those in a file that a
\* later store could not read: chat_history.py:145 goes on with an empty history.
THEOREM NothingLost == Spec => []StoredUntilForgotten
<1>1. IInv => StoredUntilForgotten
  BY DEF IInv
<1>2. QED
  BY <1>1, Invariance, PTL
==============================================================================

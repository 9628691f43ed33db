----------------------------- MODULE ChatHistory -----------------------------
(***************************************************************************)
(* One chat history file of apps/live2d/engine/chat_history.py and the     *)
(* worker threads (asyncio.to_thread) that store messages in it, delete it *)
(* and prune it.                                                           *)
(*                                                                         *)
(* Each thread looks its lock up in a registry, takes it, works and, when  *)
(* it removed the file, forgets the lock.  The registry is guarded by      *)
(* _locks_guard, so that a lookup and a forget are single steps.  Leaving  *)
(* a `with` block is merged with the last file operation in it: a release  *)
(* can always be moved before what other threads do in between.            *)
(* Locks are named here; a lock that nobody refers to is a fresh one.      *)
(***************************************************************************)
EXTENDS Naturals, Sequences, FiniteSets

CONSTANTS
    Storers,     \* threads that run store_message
    Deleters,    \* threads that run delete_history
    Pruners,     \* threads that run prune_histories
    Locks,       \* threading.Lock objects
    NoLock, NoThread,
    Missing,     \* the file does not exist
    MaxStores,   \* bound on the messages of a storer
    MaxCrashes   \* bound on restarts of the process

Threads == Storers \cup Deleters \cup Pruners

ASSUME HistoryAssumption ==
    /\ Storers \cap Deleters = {}
    /\ Storers \cap Pruners = {}
    /\ Deleters \cap Pruners = {}
    /\ NoLock \notin Locks
    /\ NoThread \notin Threads
    /\ IsFiniteSet(Locks)
    /\ IsFiniteSet(Threads)
    /\ Cardinality(Locks) > Cardinality(Threads)
    /\ MaxStores \in Nat
    /\ MaxCrashes \in Nat

VARIABLES
    file,       \* the messages in the file, without the metadata entry
    age,        \* mtime: 0, 1 (more than a day) or 2 (more than retention_days)
    strays,     \* temporary files nobody will rename any more
    registry,   \* _file_locks.get(filepath)
    holder,     \* the thread that holds each lock
    lock,       \* the lock each thread looked up
    pc, buffer, \* each thread's position, and what it read
    sent,       \* messages each storer has started to store
    crashes,
    acked,      \* history: messages stored since the file was last removed
    unread,     \* history: what stood in the file each storer failed to read
    overwritten, \* history: what storers have replaced for want of reading it
    forgotten   \* history: a lock was forgotten while threads referred to it

vars == <<file, age, strays, registry, holder, lock, pc, buffer, sent,
          crashes, acked, unread, overwritten, forgotten>>

Message == Storers \X (1 .. MaxStores)

\* The absence of a file is none of its contents.
ASSUME MissingAssumption == Missing \notin Seq(Message)

\* The message a storer is about to store.
New(t) == <<t, sent[t]>>

Stored == IF file = Missing THEN {} ELSE {file[i] : i \in DOMAIN file}

Init ==
    /\ file = <<>>
    /\ age = 0
    /\ strays = 0
    /\ registry = NoLock
    /\ holder = [l \in Locks |-> NoThread]
    /\ lock = [t \in Threads |-> NoLock]
    /\ pc = [t \in Threads |-> "idle"]
    /\ buffer = [t \in Threads |-> <<>>]
    /\ sent = [t \in Storers |-> 0]
    /\ crashes = 0
    /\ acked = {}
    /\ unread = [t \in Storers |-> {}]
    /\ overwritten = {}
    /\ forgotten = FALSE

Goto(t, label) == pc' = [pc EXCEPT ![t] = label]

InUse == {registry} \cup {lock[t] : t \in Threads}

\* _lock_for: the registered lock, or a fresh one registered now.
LockFor(t) ==
    /\ registry' \in IF registry # NoLock THEN {registry} ELSE Locks \ InUse
    /\ lock' = [lock EXCEPT ![t] = registry']

Release(t) ==
    /\ holder' = [holder EXCEPT ![lock[t]] = NoThread]
    /\ lock' = [lock EXCEPT ![t] = NoLock]

\* Mutant of Free: the lock is not waited for.
FreeAlways(l) == TRUE

Free(l) == holder[l] = NoThread

\* `with lock:` is entered.
Acquire(t) ==
    /\ pc[t] = "acquire"
    /\ Free(lock[t])
    /\ holder' = [holder EXCEPT ![lock[t]] = t]
    /\ Goto(t, IF t \in Storers THEN "read" ELSE "remove")
    /\ UNCHANGED <<file, age, strays, registry, lock, buffer, sent, crashes,
                   acked, unread, overwritten, forgotten>>

------------------------------------------------------------------------------
(***************************************************************************)
(* store_message.                                                          *)
(***************************************************************************)
BeginStore(t) ==
    /\ pc[t] = "idle"
    /\ sent[t] < MaxStores
    /\ sent' = [sent EXCEPT ![t] = @ + 1]
    /\ LockFor(t)
    /\ Goto(t, "acquire")
    /\ UNCHANGED <<file, age, strays, holder, buffer, crashes,
                   acked, unread, overwritten, forgotten>>

\* What the file holds; a missing one counts as an empty history.
Read(t) ==
    /\ pc[t] = "read"
    /\ buffer' = [buffer EXCEPT ![t] = IF file = Missing THEN <<>> ELSE file]
    /\ unread' = [unread EXCEPT ![t] = {}]
    /\ Goto(t, "write")
    /\ UNCHANGED <<file, age, strays, registry, holder, lock, sent, crashes,
                   acked, overwritten, forgotten>>

\* The file exists, but open or json.load raises: that is logged, and the
\* history counts as empty all the same.
ReadFails(t) ==
    /\ pc[t] = "read"
    /\ file # Missing
    /\ buffer' = [buffer EXCEPT ![t] = <<>>]
    /\ unread' = [unread EXCEPT ![t] = Stored]
    /\ Goto(t, "write")
    /\ UNCHANGED <<file, age, strays, registry, holder, lock, sent, crashes,
                   acked, overwritten, forgotten>>

\* Mutant of WriteTemp: the history itself is opened for writing.
WriteInPlace(t) ==
    /\ pc[t] = "write"
    /\ file' = <<>>
    /\ Goto(t, "replace")
    /\ UNCHANGED <<age, strays, registry, holder, lock, buffer, sent,
                   crashes, acked, unread, overwritten, forgotten>>

\* _atomic_write_json, first half: the temporary file is written and synced.
WriteTemp(t) ==
    /\ pc[t] = "write"
    /\ Goto(t, "replace")
    /\ UNCHANGED <<file, age, strays, registry, holder, lock, buffer, sent,
                   crashes, acked, unread, overwritten, forgotten>>

\* Mutant of AfterFailure: the lock is kept when the write fails.
LockKept(t) == UNCHANGED <<holder, lock>>

\* Leaving the `with` block by an exception.
AfterFailure(t) == Release(t)

\* The write or os.replace fails: the temporary file is removed, unless that
\* fails too, and the error raised.
StoreFails(t) ==
    /\ pc[t] \in {"write", "replace"}
    /\ strays' \in {strays, strays + 1}
    /\ AfterFailure(t)
    /\ buffer' = [buffer EXCEPT ![t] = <<>>]
    /\ Goto(t, "idle")
    /\ UNCHANGED <<file, age, registry, sent, crashes, acked, unread,
                   overwritten, forgotten>>

\* _atomic_write_json, second half: os.replace, and the lock is released.
Replace(t) ==
    /\ pc[t] = "replace"
    /\ file' = Append(buffer[t], New(t))
    /\ age' = 0
    /\ acked' = acked \cup {New(t)}
    /\ overwritten' = overwritten \cup unread[t]
    /\ Release(t)
    /\ buffer' = [buffer EXCEPT ![t] = <<>>]
    /\ Goto(t, "idle")
    /\ UNCHANGED <<strays, registry, sent, crashes, unread, forgotten>>

------------------------------------------------------------------------------
(***************************************************************************)
(* delete_history and prune_histories.                                     *)
(***************************************************************************)

\* A connection deletes a history once: it gives up its ownership first.
BeginDelete(t) ==
    /\ pc[t] = "idle"
    /\ LockFor(t)
    /\ Goto(t, "acquire")
    /\ UNCHANGED <<file, age, strays, holder, buffer, sent, crashes,
                   acked, unread, overwritten, forgotten>>

\* A file that cannot be read counts as empty here too.
IsEmptyHistory(readable) == file = <<>> \/ ~readable

\* Past retention_days, or past a day without a single message.
Expired(readable) == age = 2 \/ (age = 1 /\ IsEmptyHistory(readable))

\* prune_histories looks at the file before it takes the lock.
CheckExpired(t) ==
    /\ pc[t] = "idle"
    /\ file # Missing
    /\ \E readable \in BOOLEAN : Expired(readable)
    /\ Goto(t, "expired")
    /\ UNCHANGED <<file, age, strays, registry, holder, lock, buffer, sent,
                   crashes, acked, unread, overwritten, forgotten>>

BeginPrune(t) ==
    /\ pc[t] = "expired"
    /\ LockFor(t)
    /\ Goto(t, "acquire")
    /\ UNCHANGED <<file, age, strays, holder, buffer, sent, crashes,
                   acked, unread, overwritten, forgotten>>

\* os.remove, and the lock is released.  Pruning a file that is gone already
\* raises FileNotFoundError and skips the forgetting; deleting one does not.
Remove(t) ==
    /\ pc[t] = "remove"
    /\ file' = Missing
    /\ age' = 0
    /\ acked' = {}
    /\ Release(t)
    /\ Goto(t, IF file = Missing /\ t \in Pruners THEN "idle" ELSE "forget")
    /\ UNCHANGED <<strays, registry, buffer, sent, crashes, unread, overwritten,
                   forgotten>>

\* os.remove raises something else: that is logged, and the file stays.  The
\* lock is forgotten by delete_history's finally, and not by prune_histories.
RemoveFails(t) ==
    /\ pc[t] = "remove"
    /\ file # Missing
    /\ Release(t)
    /\ Goto(t, IF t \in Pruners THEN "idle" ELSE "forget")
    /\ UNCHANGED <<file, age, strays, registry, buffer, sent, crashes, acked,
                   unread, overwritten, forgotten>>

\* _forget_lock: whoever else looked the lock up keeps the old one.
Forget(t) ==
    /\ pc[t] = "forget"
    /\ forgotten' = (forgotten \/ \E u \in Threads : lock[u] = registry /\ lock[u] # NoLock)
    /\ registry' = NoLock
    /\ Goto(t, IF t \in Deleters THEN "done" ELSE "idle")
    /\ UNCHANGED <<file, age, strays, holder, lock, buffer, sent, crashes, acked,
                   unread, overwritten>>

\* prune_histories removes a temporary file an hour after it was left behind.
PruneStray(t) ==
    /\ pc[t] = "idle"
    /\ strays > 0
    /\ strays' = strays - 1
    /\ UNCHANGED <<file, age, registry, holder, lock, pc, buffer, sent, crashes,
                   acked, unread, overwritten, forgotten>>

------------------------------------------------------------------------------
\* Time passes without a write.
Age ==
    /\ file # Missing
    /\ age < 2
    /\ age' = age + 1
    /\ UNCHANGED <<file, strays, registry, holder, lock, pc, buffer, sent,
                   crashes, acked, unread, overwritten, forgotten>>

\* The process dies: threads and locks are gone, temporary files stay, also
\* such as are only half written, and with the connection gone nobody owns the
\* history any more.
Crash ==
    /\ crashes < MaxCrashes
    /\ crashes' = crashes + 1
    /\ \E begun \in SUBSET {t \in Storers : pc[t] = "write"} :
          strays' = strays + Cardinality({t \in Storers : pc[t] = "replace"} \cup begun)
    /\ registry' = NoLock
    /\ holder' = [l \in Locks |-> NoThread]
    /\ lock' = [t \in Threads |-> NoLock]
    /\ pc' = [t \in Threads |-> IF t \in Pruners THEN "idle" ELSE "done"]
    /\ buffer' = [t \in Threads |-> <<>>]
    /\ UNCHANGED <<file, age, sent, acked, unread, overwritten, forgotten>>

Done ==
    /\ \A t \in Threads : pc[t] \in {"idle", "done"}
    /\ UNCHANGED vars

Work(t) ==
    \/ Acquire(t)
    \/ /\ t \in Storers
       /\ \/ Read(t) \/ ReadFails(t)
          \/ WriteTemp(t) \/ StoreFails(t) \/ Replace(t)
    \/ t \in Pruners /\ BeginPrune(t)
    \/ t \in Deleters \cup Pruners /\ (Remove(t) \/ RemoveFails(t) \/ Forget(t))

Next ==
    \/ \E t \in Threads : Work(t)
    \/ \E t \in Storers : BeginStore(t)
    \/ \E t \in Deleters : BeginDelete(t)
    \/ \E t \in Pruners : CheckExpired(t) \/ PruneStray(t)
    \/ Age \/ Crash \/ Done

Spec == Init /\ [][Next]_vars

\* The worker threads run; nothing makes a connection store, delete or prune.
\* A thread that waits for a lock gets it if it is free again and again: who may
\* come back to it for ever is a pruner that cannot remove the file, and
\* _schedule_history_prune lets it come once an hour.
FairSpec ==
    /\ Spec
    /\ \A t \in Threads : WF_vars(Work(t)) /\ SF_vars(Acquire(t))

------------------------------------------------------------------------------
\* Threads inside a `with lock:` block.
Inside(t) == pc[t] \in {"read", "write", "replace", "remove"}

\* Threads refer to locks as their position says, and only they do.
TypeOK ==
    /\ file \in Seq(Message) \cup {Missing}
    /\ age \in 0 .. 2
    /\ strays \in Nat
    /\ registry \in Locks \cup {NoLock}
    /\ holder \in [Locks -> Threads \cup {NoThread}]
    /\ lock \in [Threads -> Locks \cup {NoLock}]
    /\ pc \in [Threads -> {"idle", "acquire", "read", "write", "replace",
                           "expired", "remove", "forget", "done"}]
    /\ buffer \in [Threads -> Seq(Message)]
    /\ sent \in [Storers -> 0 .. MaxStores]
    /\ crashes \in 0 .. MaxCrashes
    /\ acked \in SUBSET Message
    /\ unread \in [Storers -> SUBSET Message]
    /\ overwritten \in SUBSET Message
    /\ forgotten \in BOOLEAN
    /\ \A t \in Threads : lock[t] # NoLock <=> (Inside(t) \/ pc[t] = "acquire")

\* Two threads work on the file at the same time only with different locks:
\* then at least one of them holds a lock that has been forgotten.
OverlapOnlyForgotten ==
    \A t, u \in Threads : Inside(t) /\ Inside(u) /\ t # u =>
        /\ lock[t] # lock[u]
        /\ forgotten

\* As long as no lock was forgotten under a thread that uses it, a message
\* whose store_message returned is lost in one way only: it stood in the file
\* when another store failed to read it, which then replaced the history by its
\* own message.  It is lost neither to a concurrent store, nor to a failing write
\* or removal, nor to a crash half-way, and a failed read costs nothing but what
\* there was to read.
StoredUntilForgotten == ~forgotten => acked \subseteq Stored \cup overwritten

\* A thread that waits for the lock gets it: every path out of a `with` block
\* releases the lock, failing writes and missing files included.
EveryoneGetsIn == \A t \in Threads : pc[t] = "acquire" ~> pc[t] # "acquire"

\* "Every read-modify-write holds a per-file lock": stores do not overwrite
\* each other's messages, where they could read them.
NoLostMessage == acked \subseteq Stored \cup overwritten
==============================================================================

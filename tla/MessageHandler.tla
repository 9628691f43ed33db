---------------------------- MODULE MessageHandler ----------------------------
(***************************************************************************)
(* apps/live2d/engine/message_handler.py for one client and the one message*)
(* anybody waits for, "frontend-playback-complete" (it has no request_id,  *)
(* so that all waiters of a client share one key).                         *)
(*                                                                         *)
(* A waiter has an asyncio.Event of its own, but the table holds one event *)
(* per key: `registered` says whose.  What _response_data carries only     *)
(* decides whether the end of the chain is announced, which is a matter of *)
(* TTSDelivery.                                                            *)
(***************************************************************************)
EXTENDS Naturals

CONSTANTS
    Waiters,     \* the turns that may come to wait
    NoWaiter     \* there is no event under the key

ASSUME WaiterAssumption == NoWaiter \notin Waiters

VARIABLES
    registered,  \* whose event _response_events[client_uid] holds
    awaiting,    \* the waiters inside wait_for_response
    woken,       \* ... whose event is set
    contested    \* history: those whose wait has overlapped another's

handlerVars == <<registered, awaiting, woken, contested>>

HandlerInit ==
    /\ registered = NoWaiter
    /\ awaiting = {}
    /\ woken = {}
    /\ contested = {}

\* wait_for_response up to its await: a fresh event replaces the one there.
Wait(t) ==
    /\ registered' = t
    /\ awaiting' = awaiting \cup {t}
    /\ contested' = IF awaiting = {} THEN contested
                    ELSE contested \cup awaiting \cup {t}
    /\ UNCHANGED woken

\* The finally branch, however wait_for_response is left: the key is removed,
\* whosever event is under it.
Leave(t) ==
    /\ registered' = NoWaiter
    /\ awaiting' = awaiting \ {t}
    /\ woken' = woken \ {t}
    /\ contested' = contested \ {t}

\* handle_message for frontend-playback-complete.
HandleMessage ==
    /\ woken' = IF registered = NoWaiter THEN woken ELSE woken \cup {registered}
    /\ UNCHANGED <<registered, awaiting, contested>>

\* Mutant of CleanupClient: the events are dropped and not set.
DropEvents ==
    /\ registered' = NoWaiter
    /\ UNCHANGED <<awaiting, woken, contested>>

\* cleanup_client: the events in the table are set, and the table is dropped.
CleanupClient ==
    /\ woken' = IF registered = NoWaiter THEN woken ELSE woken \cup {registered}
    /\ registered' = NoWaiter
    /\ UNCHANGED <<awaiting, contested>>

HandlerTypeOK ==
    /\ registered \in Waiters \cup {NoWaiter}
    /\ awaiting \in SUBSET Waiters
    /\ woken \in SUBSET awaiting
    /\ contested \in SUBSET awaiting

\* A waiter nobody can reach any more: its event is neither set nor in the
\* table, where handle_message and cleanup_client look for it.
Unreachable(t) == t \in awaiting \ woken /\ registered # t
==============================================================================

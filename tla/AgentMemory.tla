----------------------------- MODULE AgentMemory -----------------------------
(***************************************************************************)
(* The memory of BasicMemoryAgent (agents/basic_memory_agent.py): the list *)
(* it gives to the language model, and the interrupt flag.                 *)
(*                                                                         *)
(* A message records its role, what kind of text it is (`form`), which     *)
(* text, and the turn it stems from:                                       *)
(*   asked   the user's words          spoken  a text read out by speak-text*)
(*   reply   an answer of the model    heard   what was heard of a message *)
(*   mark    "[Interrupted by user]"   empty   no text                     *)
(* Two messages have the same content when form and text agree.            *)
(* interrupt_method is "user" (agent_factory.py), and no caller remembers  *)
(* silently, so that _last_entry_silent stays False.                       *)
(***************************************************************************)
EXTENDS Naturals, Sequences, SequencesExt

VARIABLES
    memory,            \* _memory
    interruptHandled   \* _interrupt_handled

memoryVars == <<memory, interruptHandled>>

Forms == {"asked", "spoken", "reply", "heard", "mark", "empty"}

Message(role, form, text, turn) ==
    [role |-> role, form |-> form, text |-> text, turn |-> turn]

Mark(role) == Message(role, "mark", 0, 0)

MemoryInit == memory = <<>> /\ interruptHandled = FALSE

SameContent(m, n) == m.role = n.role /\ m.form = n.form /\ m.text = n.text

\* _add_message: an assistant's empty message and a repetition are left out.
WithMessage(m) ==
    IF \/ m.form = "empty"
       \/ memory # <<>> /\ SameContent(Last(memory), m)
    THEN memory ELSE Append(memory, m)

\* remember, and the end of chat_with_memory.
Remember(m) == memory' = WithMessage(m) /\ UNCHANGED interruptHandled

\* chat_with_memory up to the model's stream: reset_interrupt and _to_messages.
BeginChat(m) ==
    /\ interruptHandled' = FALSE
    /\ memory' = WithMessage(m)

\* What was heard takes the place of the assistant's message at the end; if
\* another message is at the end it is added, unless nothing was heard.
Corrected(heard) ==
    IF memory # <<>> /\ Last(memory).role = "assistant"
    THEN [memory EXCEPT ![Len(memory)].form = "heard"]
    ELSE IF heard.form = "empty" THEN memory
         ELSE Append(memory, [heard EXCEPT !.role = "assistant"])

\* Mutant of HandleInterrupt: every interrupt is handled.
HandleAlways(heard) ==
    /\ interruptHandled' = TRUE
    /\ memory' = Append(Corrected(heard), Mark("user"))

\* handle_interrupt: ignored until a chat begins again.
HandleInterrupt(heard) ==
    IF interruptHandled THEN UNCHANGED memoryVars
    ELSE /\ interruptHandled' = TRUE
         /\ memory' = Append(Corrected(heard), Mark("user"))

\* set_memory_from_history: its parts run in a worker thread, next to the loop.
Forget == memory' = <<>> /\ UNCHANGED interruptHandled

\* Mutant of Recalled: the roles of the history are taken over.
RoleKept(m) == m

\* A message in the roles of the memory: anybody but a human, the system
\* included, counts as the assistant.
Recalled(m) == [m EXCEPT !.role = IF @ = "human" THEN "user" ELSE "assistant"]

\* Empty messages are skipped.
Recall(m) ==
    /\ memory' = IF m.form = "empty" THEN memory ELSE Append(memory, Recalled(m))
    /\ UNCHANGED interruptHandled
==============================================================================

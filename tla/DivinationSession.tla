-------------------------- MODULE DivinationSession --------------------------
(***************************************************************************)
(* One row of the table behind apps.divinations.models.DivinationSession,  *)
(* and the concurrent HTTP requests that work on it: create, pray, draw,   *)
(* cast, interpret and delete (apps/divinations, apps/ai_service).         *)
(*                                                                         *)
(* Every database statement, or transaction.atomic() block, is one step:   *)
(* settings.DATABASES opens a transaction with BEGIN IMMEDIATE, so that    *)
(* the blocks are serial, and a statement outside a block commits on its   *)
(* own.  Between two steps of a request the others may run: an             *)
(* interpretation takes six steps, one of which calls the language model   *)
(* and lasts for up to two minutes.                                        *)
(*                                                                         *)
(* What a visitor asks has two parts that are compared and overwritten     *)
(* separately: the question and the categories (category is the first of   *)
(* these).  The get_object read that precedes every handler changes        *)
(* nothing here and is left out.                                           *)
(***************************************************************************)
EXTENDS Naturals

CONSTANTS
    Requests,      \* the HTTP requests being served
    Fortunes,      \* the active fortunes of the session's fortune set
    Questions,     \* texts of the question
    Categories,    \* lists of categories
    NoFortune,     \* fortune is NULL
    NoQuestion,    \* the request names no question / no row yet
    NoAnswer,      \* ai_interpretation is blank
    NoJob,         \* no prewarmed interpretation
    MaxCrashes,    \* bound on restarts of the process
    MaxDbErrors    \* bound on statements the database refuses

\* What can be asked, and what an interpretation is about.
Wording == [question : Questions, categories : Categories]
Prompt == [fortune : Fortunes, asked : Wording]

ASSUME ConstantsAssumption ==
    /\ NoFortune \notin Fortunes
    /\ NoQuestion \notin Wording
    /\ NoAnswer \notin Prompt
    /\ NoJob \notin Prompt
    /\ MaxCrashes \in Nat
    /\ MaxDbErrors \in Nat

VARIABLES
    row,         \* whether the row exists: "absent", "live" or "deleted"
    status,      \* column status
    fortune,     \* column fortune_id
    asked,       \* columns question and categories
    confirmed,   \* column confirmed
    answer,      \* column ai_interpretation: what it was generated from
    casts,       \* rows of BlockCast of this session
    prompts,     \* hidden (system, user, assistant) triples in AIMessage
    job,         \* entry of _prewarm_jobs for this session
    pc,          \* where each request stands
    seen,        \* the `session` object of each request, as it last read it
    draft,       \* what a request's own generation or future is about
    crashes, dbErrors,
    wordings     \* history: every wording that was ever on record

table == <<row, status, fortune, asked, confirmed, answer, casts, prompts>>
bounds == <<crashes, dbErrors>>
vars == <<table, job, pc, seen, draft, bounds, wordings>>

Statuses == {"created", "drawing", "waiting_for_blocks",
             "confirmed", "interpreting", "completed"}

\* What is left of a request once its response is sent.
Blank == [fortune |-> NoFortune, asked |-> NoQuestion, status |-> "created"]

\* The columns a request keeps on its session object.
Snapshot == [fortune |-> fortune, asked |-> asked, status |-> status]

\* _prewarm_signature: what an interpretation depends on.
Signature(s) == [fortune |-> s.fortune, asked |-> s.asked]

\* The request r ends, with a response or an exception.
Respond(r) ==
    /\ pc' = [pc EXCEPT ![r] = "idle"]
    /\ seen' = [seen EXCEPT ![r] = Blank]
    /\ draft' = [draft EXCEPT ![r] = NoJob]

Goto(r, label) == pc' = [pc EXCEPT ![r] = label]

Init ==
    /\ row = "absent"
    /\ status = "created"
    /\ fortune = NoFortune
    /\ asked = NoQuestion
    /\ confirmed = FALSE
    /\ answer = NoAnswer
    /\ casts = 0
    /\ prompts = 0
    /\ job = NoJob
    /\ pc = [r \in Requests |-> "idle"]
    /\ seen = [r \in Requests |-> Blank]
    /\ draft = [r \in Requests |-> NoJob]
    /\ crashes = 0
    /\ dbErrors = 0
    /\ wordings = {}

------------------------------------------------------------------------------
(***************************************************************************)
(* Creating, praying, drawing, casting, deleting.                          *)
(***************************************************************************)

\* POST /divinations/ : create_session, then prewarm_interpretation when a
\* fortune_number pinned the fortune.
Create(r) ==
    /\ pc[r] = "idle"
    /\ row = "absent"
    /\ row' = "live"
    /\ \E q \in Wording, f \in Fortunes \cup {NoFortune} :
          /\ asked' = q
          /\ wordings' = {q}
          /\ fortune' = f
          /\ confirmed' = (f # NoFortune)
          /\ status' = IF f # NoFortune THEN "confirmed" ELSE "created"
          /\ IF f # NoFortune
             THEN /\ Goto(r, "prewarm")
                  /\ seen' = [seen EXCEPT ![r] = [fortune |-> f, asked |-> q,
                                                  status |-> "confirmed"]]
             ELSE UNCHANGED <<pc, seen>>
    /\ UNCHANGED <<answer, casts, prompts, job, draft, bounds>>

\* The test of complete_prayer.
PrayerOpen == status \in {"created", "praying"}

\* POST prayer-complete: complete_prayer.
CompletePrayer ==
    /\ row = "live"
    /\ PrayerOpen
    /\ status' = "drawing"
    /\ UNCHANGED <<row, fortune, asked, confirmed, answer, casts, prompts,
                   job, pc, seen, draft, bounds, wordings>>

\* The transaction of draw_fortune on a session that has no fortune yet.
DrawFresh(f) ==
    /\ fortune = NoFortune
    /\ status = "drawing"
    /\ fortune' = f
    /\ status' = "waiting_for_blocks"

\* Mutant of DrawAgain: the early return is gone, and a new fortune replaces
\* the one drawn before.
DrawReplaces ==
    /\ fortune # NoFortune
    /\ fortune' \in Fortunes
    /\ UNCHANGED status

\* draw_fortune called again: it returns the fortune drawn before, whatever
\* the status is by now.
DrawAgain == fortune # NoFortune /\ UNCHANGED <<fortune, status>>

\* POST draw: draw_fortune; the request goes on to prewarm_interpretation.
Draw(r) ==
    /\ pc[r] = "idle"
    /\ row = "live"
    /\ \/ DrawAgain
       \/ \E f \in Fortunes : DrawFresh(f)
    /\ seen' = [seen EXCEPT ![r] = [fortune |-> fortune', asked |-> asked,
                                    status |-> status']]
    /\ Goto(r, "prewarm")
    /\ UNCHANGED <<row, asked, confirmed, answer, casts, prompts,
                   job, draft, bounds, wordings>>

\* prewarm_interpretation: submit a generation for the snapshot the request
\* holds, unless the same one is already in the table.
Prewarm(r) ==
    /\ pc[r] = "prewarm"
    /\ job' = Signature(seen[r])
    /\ Respond(r)
    /\ UNCHANGED <<table, bounds, wordings>>

\* The table of prewarmed jobs drops its oldest entry for another session's
\* (also: prewarming is switched off, INTERPRET_PREWARM_ENABLED).
Evict ==
    /\ job # NoJob
    /\ job' = NoJob
    /\ UNCHANGED <<table, pc, seen, draft, bounds, wordings>>

\* Mutant of MayCast: any session with a fortune may cast.
MayCastAlways == fortune # NoFortune

\* The two tests cast_blocks makes before it casts.
MayCast == status = "waiting_for_blocks" /\ ~confirmed

\* POST block-casts: cast_blocks.  block_two is the opposite of block_one, so
\* that block_result is always "sheng" and the first cast confirms.
CastBlocks ==
    /\ row = "live"
    /\ MayCast
    /\ casts' = casts + 1
    /\ confirmed' = TRUE
    /\ status' = "confirmed"
    /\ UNCHANGED <<row, fortune, asked, answer, prompts,
                   job, pc, seen, draft, bounds, wordings>>

\* DELETE: the row goes, with its casts and messages (on_delete=CASCADE); no
\* status protects it.  The columns keep their last values in the model.
Delete ==
    /\ row = "live"
    /\ row' = "deleted"
    /\ UNCHANGED <<status, fortune, asked, confirmed, answer, casts, prompts,
                   job, pc, seen, draft, bounds, wordings>>

------------------------------------------------------------------------------
(***************************************************************************)
(* POST interpret: interpret_session, step by step.                        *)
(***************************************************************************)

\* Mutant of Interpretable: only the two early answers are left.
InterpretableUnchecked ==
    /\ ~(status = "completed" /\ answer # NoAnswer)
    /\ status # "interpreting"

\* The tests on the session as it was read.  A completed session with an
\* interpretation is returned as it is.
Interpretable ==
    /\ ~(status = "completed" /\ answer # NoAnswer)
    /\ status # "interpreting"
    /\ confirmed
    /\ status \in {"confirmed", "completed"}
    /\ fortune # NoFortune

\* Read the session.
InterpretRead(r) ==
    /\ pc[r] = "idle"
    /\ row = "live"
    /\ Interpretable
    /\ seen' = [seen EXCEPT ![r] = Snapshot]
    /\ Goto(r, "claim")
    /\ UNCHANGED <<table, job, draft, bounds, wordings>>

\* Mutant of StillAs: the claim is an update by key alone.
StillThere(r) == row = "live"

\* Does filter(pk=..., status=original_status) still match the row?
StillAs(r) == row = "live" /\ status = seen[r].status

\* The compare-and-set on status; the request that loses it answers 409.
Claim(r) ==
    /\ pc[r] = "claim"
    /\ \/ /\ StillAs(r)
          /\ status' = "interpreting"
          /\ Goto(r, "edit")
          /\ UNCHANGED <<seen, draft>>
       \/ /\ ~StillAs(r)
          /\ Respond(r)
          /\ UNCHANGED status
    /\ UNCHANGED <<row, fortune, asked, confirmed, answer, casts, prompts,
                   job, bounds, wordings>>

\* A request that brings nothing, or what its snapshot says, saves nothing.
KeepQuestion(r) ==
    /\ Goto(r, "take")
    /\ UNCHANGED <<asked, seen, draft, wordings>>

\* The columns after a save of the parts in which `new` differs from the
\* snapshot: the comparison is not with the row, which may differ from both.
Overwritten(r, new) ==
    [question |-> IF new.question # seen[r].asked.question
                  THEN new.question ELSE asked.question,
     categories |-> IF new.categories # seen[r].asked.categories
                    THEN new.categories ELSE asked.categories]

\* Mutant of SaveQuestion: the new question is used and never saved.
UseQuestion(r, new) ==
    /\ new # seen[r].asked
    /\ seen' = [seen EXCEPT ![r].asked = new]
    /\ Goto(r, "take")
    /\ UNCHANGED <<asked, wordings, draft>>

\* session.save(update_fields): fails on a row that is gone, outside the try.
SaveQuestion(r, new) ==
    /\ new # seen[r].asked
    /\ \/ /\ row = "live"
          /\ asked' = Overwritten(r, new)
          /\ wordings' = wordings \cup {asked'}
          /\ seen' = [seen EXCEPT ![r].asked = new]
          /\ Goto(r, "take")
          /\ UNCHANGED draft
       \/ /\ row # "live"
          /\ Respond(r)
          /\ UNCHANGED <<asked, wordings>>

Edit(r) ==
    /\ pc[r] = "edit"
    /\ \/ KeepQuestion(r)
       \/ \E new \in Wording : SaveQuestion(r, new)
    /\ UNCHANGED <<row, status, fortune, confirmed, answer, casts, prompts,
                   job, bounds>>

\* Does the prewarmed job fit the session the request holds?
Hit(r) == job # NoJob /\ job = Signature(seen[r])

\* _take_prewarmed, under _prewarm_lock: pop a job that fits; one that does
\* not fit stays in the table.
TakePrewarmed(r) ==
    /\ pc[r] = "take"
    /\ \/ /\ Hit(r)
          /\ job' = NoJob
          /\ draft' = [draft EXCEPT ![r] = job]
          /\ Goto(r, "await")
       \/ /\ ~Hit(r)
          /\ draft' = [draft EXCEPT ![r] = Signature(seen[r])]
          /\ Goto(r, "generate")
          /\ UNCHANGED job
    /\ UNCHANGED <<table, seen, bounds, wordings>>

\* job.future.result(timeout): content, or an exception, a timeout or blank
\* content, after which the request generates by itself.
AwaitPrewarmed(r) ==
    /\ pc[r] = "await"
    /\ \/ Goto(r, "finish") /\ UNCHANGED draft
       \/ /\ draft' = [draft EXCEPT ![r] = Signature(seen[r])]
          /\ Goto(r, "generate")
    /\ UNCHANGED <<table, job, seen, bounds, wordings>>

\* _chat: the language model answers or fails (timeout, HTTP error, blank).
Generate(r) ==
    /\ pc[r] = "generate"
    /\ Goto(r, "finish") \/ Goto(r, "release")
    /\ UNCHANGED <<table, job, seen, draft, bounds, wordings>>

\* Mutant of RestoredStatus: the claim is not given back.
RestoredNothing(r) == "interpreting"

\* What the except branch puts back.
RestoredStatus(r) == seen[r].status

\* The except branch: give the claim back, then re-raise.
Release(r) ==
    /\ pc[r] = "release"
    /\ status' = IF row = "live" /\ status = "interpreting"
                 THEN RestoredStatus(r) ELSE status
    /\ Respond(r)
    /\ UNCHANGED <<row, fortune, asked, confirmed, answer, casts, prompts,
                   job, bounds, wordings>>

\* The closing transaction: re-read the row (DoesNotExist when it is gone),
\* store the interpretation and the three hidden messages.
Finish(r) ==
    /\ pc[r] = "finish"
    /\ IF row = "live"
       THEN /\ status' = "completed"
            /\ answer' = draft[r]
            /\ prompts' = prompts + 1
       ELSE UNCHANGED <<status, answer, prompts>>
    /\ Respond(r)
    /\ UNCHANGED <<row, fortune, asked, confirmed, casts,
                   job, bounds, wordings>>

------------------------------------------------------------------------------
(***************************************************************************)
(* Failures.                                                               *)
(***************************************************************************)

\* The database refuses a write (locked beyond busy_timeout, disk full): all
\* four writes of interpret_session stand outside its try block.
DbError(r) ==
    /\ dbErrors < MaxDbErrors
    /\ pc[r] \in {"claim", "edit", "release", "finish"}
    /\ dbErrors' = dbErrors + 1
    /\ Respond(r)
    /\ UNCHANGED <<table, job, crashes, wordings>>

\* The process dies and compose restarts it: requests and prewarmed jobs are
\* gone, the table stays, and nothing at start-up looks at it.
Crash ==
    /\ crashes < MaxCrashes
    /\ crashes' = crashes + 1
    /\ job' = NoJob
    /\ pc' = [r \in Requests |-> "idle"]
    /\ seen' = [r \in Requests |-> Blank]
    /\ draft' = [r \in Requests |-> NoJob]
    /\ UNCHANGED <<table, dbErrors, wordings>>

\* Nothing is left to do.
Done ==
    /\ row = "deleted"
    /\ \A r \in Requests : pc[r] = "idle"
    /\ UNCHANGED vars

Steps(r) ==
    \/ Prewarm(r) \/ Claim(r) \/ Edit(r) \/ TakePrewarmed(r)
    \/ AwaitPrewarmed(r) \/ Generate(r) \/ Release(r) \/ Finish(r)

Next ==
    \/ \E r \in Requests :
          \/ Create(r) \/ Draw(r) \/ InterpretRead(r)
          \/ Steps(r) \/ DbError(r)
    \/ CompletePrayer \/ CastBlocks \/ Delete
    \/ Evict \/ Crash \/ Done

Spec == Init /\ [][Next]_vars

\* A thread that serves a request is eventually scheduled, and the call to
\* the language model returns within LLM_TIMEOUT_SECONDS.  Nothing forces a
\* visitor to send a request, nor a failure to happen.
FairSpec == Spec /\ \A r \in Requests : WF_vars(Steps(r))

------------------------------------------------------------------------------
(***************************************************************************)
(* Properties.                                                             *)
(***************************************************************************)

Labels == {"idle", "prewarm", "claim", "edit", "take", "await",
           "generate", "release", "finish"}

\* Columns and request state keep their types; in particular the row never
\* leaves the six statuses docs/API.md says the flow uses.
TypeOK ==
    /\ row \in {"absent", "live", "deleted"}
    /\ status \in Statuses
    /\ fortune \in Fortunes \cup {NoFortune}
    /\ asked \in Wording \cup {NoQuestion}
    /\ confirmed \in BOOLEAN
    /\ answer \in Prompt \cup {NoAnswer}
    /\ casts \in Nat
    /\ prompts \in Nat
    /\ job \in Prompt \cup {NoJob}
    /\ pc \in [Requests -> Labels]
    /\ seen \in [Requests -> [fortune : Fortunes \cup {NoFortune},
                              asked : Wording \cup {NoQuestion},
                              status : Statuses]]
    /\ draft \in [Requests -> Prompt \cup {NoJob}]
    /\ crashes \in 0 .. MaxCrashes
    /\ dbErrors \in 0 .. MaxDbErrors
    /\ wordings \in SUBSET Wording

\* The requests that own the claim on the session.
Holds(r) == pc[r] \in {"edit", "take", "await", "generate", "release", "finish"}

\* However requests interleave, fail and retry, at most one of them is past
\* the claim of interpret_session, and while it is the status says so: no
\* second call to the language model, no second writer of the result.
ClaimExclusive ==
    \A r \in Requests : Holds(r) =>
        /\ status = "interpreting"
        /\ \A s \in Requests : Holds(s) => s = r

\* A session that says "interpreting" has a request at work on it, unless the
\* process died or the database refused a write: neither a failing model
\* nor a lost race leaves a claim behind.
NoOrphanClaim ==
    row = "live" /\ status = "interpreting" /\ crashes = 0 /\ dbErrors = 0
        => \E r \in Requests : Holds(r)

\* The status and the other columns tell the same story: a fortune is there
\* exactly from the draw on, and the session is confirmed exactly from the
\* cast (or the lookup by number) on, however late or repeated the calls.
StatusTellsProgress ==
    row # "absent" =>
        /\ fortune = NoFortune <=> status \in {"created", "drawing"}
        /\ confirmed <=> status \in {"confirmed", "interpreting", "completed"}

\* Concurrent casts do not add up: a session has at most one BlockCast, and
\* it has one only if that cast confirmed it.
OneCast == casts <= 1 /\ (casts = 1 => confirmed)

\* An interpretation and its three hidden messages are written together and
\* once, and that is what "completed" means.
AnsweredOnce ==
    /\ status = "completed" <=> answer # NoAnswer
    /\ prompts = IF answer = NoAnswer THEN 0 ELSE 1

\* The columns of the row, its casts and its hidden messages tell one story, though
\* each is written by a handler of its own, in any order and by several requests.
RowAgrees == StatusTellsProgress /\ OneCast /\ AnsweredOnce

\* What is stored, what is being generated and what was generated ahead is
\* about the fortune on record: no stale snapshot or prewarmed job brings in
\* another fortune.
SameFortune ==
    /\ answer # NoAnswer => answer.fortune = fortune
    /\ job # NoJob => job.fortune = fortune
    /\ \A r \in Requests : draft[r] # NoJob => draft[r].fortune = fortune

\* A completed record never changes again, except that it can be deleted: no
\* request that read it earlier, waited and came back late writes over it.
CompletedFrozen ==
    [][status = "completed" =>
         UNCHANGED <<status, fortune, asked, confirmed, answer, casts, prompts>>]_vars

\* What the backend's table says of the promise made in module Reading.  The
\* claim is not part of the promise: "interpreting" is still "confirmed".
Stage ==
    IF row = "absent" THEN "unasked"
    ELSE IF row = "deleted" THEN "removed"
    ELSE IF status \in {"created", "drawing"} THEN "asked"
    ELSE IF status = "waiting_for_blocks" THEN "drawn"
    ELSE IF status = "completed" THEN "answered"
    ELSE "confirmed"

Promise == INSTANCE Reading WITH stage <- Stage

\* The requests, snapshots, claims and prewarmed jobs of the backend deliver
\* a reading as module Reading promises it.
ImplementsReading == Promise!Spec

\* A claim comes to an end: the session is answered, goes back to where it
\* was, or is deleted ("so a subsequent retry isn't stuck in interpreting").
ClaimEnds ==
    (row = "live" /\ status = "interpreting")
        ~> (row = "deleted" \/ status # "interpreting")

\* A prewarmed interpretation is used only for the question now on record
\* (_take_prewarmed: rewording the question midway makes it miss).
PrewarmHitIsCurrent ==
    \A r \in Requests :
        row = "live" /\ pc[r] = "await"
            => draft[r] = [fortune |-> fortune, asked |-> asked]
==============================================================================

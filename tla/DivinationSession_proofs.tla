----------------------- MODULE DivinationSession_proofs -----------------------
(***************************************************************************)
(* Proofs about DivinationSession, for any number of requests, fortunes,   *)
(* wordings, crashes and refused writes.                                   *)
(***************************************************************************)
EXTENDS DivinationSession, TLAPS

(***************************************************************************)
(* The inductive invariant.  ClaimExclusive is not inductive by itself: a  *)
(* request that holds a stale snapshot must not be able to win the claim   *)
(* again, and a snapshot or a prewarmed job must not carry the fortune of  *)
(* another draw into a result.                                             *)
(***************************************************************************)

\* The question of q was on record, and so were its categories.
OnRecord(q) ==
    /\ q \in Wording
    /\ \E w \in wordings : w.question = q.question
    /\ \E w \in wordings : w.categories = q.categories

\* Before the row is created nothing has happened at all.
NothingBefore ==
    row = "absent" =>
        /\ status = "created"
        /\ fortune = NoFortune
        /\ confirmed = FALSE
        /\ answer = NoAnswer
        /\ wordings = {}
        /\ job = NoJob
        /\ \A r \in Requests : pc[r] = "idle" /\ draft[r] = NoJob

\* What a request keeps on its session object may be an old question, but
\* never another fortune, and it was read while the session was confirmed.
SnapshotsTrue ==
    \A r \in Requests : pc[r] # "idle" =>
        /\ fortune # NoFortune
        /\ seen[r].fortune = fortune
        /\ OnRecord(seen[r].asked)
        /\ pc[r] # "prewarm" => seen[r].status = "confirmed"

\* Past _take_prewarmed a request knows what its content is about.
DraftsKnown ==
    \A r \in Requests :
        pc[r] \in {"await", "generate", "release", "finish"} => draft[r] # NoJob

\* Everything generated from a question is about one that was on record.
WordingsOnRecord ==
    /\ row # "absent" => asked \in wordings
    /\ answer # NoAnswer => OnRecord(answer.asked)
    /\ job # NoJob => OnRecord(job.asked)
    /\ \A r \in Requests : draft[r] # NoJob => OnRecord(draft[r].asked)

IInv ==
    /\ TypeOK
    /\ ClaimExclusive
    /\ StatusTellsProgress
    /\ OneCast
    /\ AnsweredOnce
    /\ SameFortune
    /\ NothingBefore
    /\ SnapshotsTrue
    /\ DraftsKnown
    /\ WordingsOnRecord

------------------------------------------------------------------------------
\* Nothing has happened in the initial state.
LEMMA InitIInv == Init => IInv
<1> SUFFICES ASSUME Init
             PROVE  IInv
  OBVIOUS
<1> USE DEF Init
<1>1. /\ row \in {"absent", "live", "deleted"}
      /\ status \in Statuses
      /\ fortune \in Fortunes \cup {NoFortune}
      /\ asked \in Wording \cup {NoQuestion}
      /\ confirmed \in BOOLEAN
  BY DEF Statuses
<1>2. /\ answer \in Prompt \cup {NoAnswer}
      /\ casts \in Nat
      /\ prompts \in Nat
      /\ job \in Prompt \cup {NoJob}
      /\ draft \in [Requests -> Prompt \cup {NoJob}]
  OBVIOUS
<1>3. /\ pc \in [Requests -> Labels]
      /\ seen \in [Requests -> [fortune : Fortunes \cup {NoFortune},
                                asked : Wording \cup {NoQuestion},
                                status : Statuses]]
  BY DEF Labels, Blank, Statuses
<1>4. /\ crashes \in 0 .. MaxCrashes
      /\ dbErrors \in 0 .. MaxDbErrors
      /\ wordings \in SUBSET Wording
  BY ConstantsAssumption
<1>5. TypeOK
  BY <1>1, <1>2, <1>3, <1>4 DEF TypeOK
<1>6. ClaimExclusive /\ StatusTellsProgress /\ OneCast /\ AnsweredOnce /\ SameFortune
  BY DEF ClaimExclusive, Holds, StatusTellsProgress, OneCast, AnsweredOnce, SameFortune
<1>7. NothingBefore /\ SnapshotsTrue /\ DraftsKnown /\ WordingsOnRecord
  BY DEF NothingBefore, SnapshotsTrue, DraftsKnown, WordingsOnRecord, OnRecord
<1>8. QED
  BY <1>5, <1>6, <1>7 DEF IInv

\* A request that creates the row finds every other request idle.
LEMMA CreateIInv ==
    ASSUME IInv, NEW r \in Requests, Create(r)
    PROVE  IInv'
<1> USE ConstantsAssumption DEF IInv, TypeOK, Create, Goto, bounds
<1>1. TypeOK'
  BY SMTT(30) DEF Prompt, Statuses, Labels
<1>2. ClaimExclusive'
  BY DEF ClaimExclusive, Holds, NothingBefore
<1>3. StatusTellsProgress'
  BY DEF StatusTellsProgress
<1>4. OneCast' /\ AnsweredOnce' /\ SameFortune'
  BY DEF OneCast, AnsweredOnce, SameFortune, Prompt, NothingBefore
<1>5. NothingBefore'
  BY DEF NothingBefore
<1>6. SnapshotsTrue'
  BY DEF SnapshotsTrue, NothingBefore, OnRecord
<1>7. DraftsKnown' /\ WordingsOnRecord'
  BY DEF DraftsKnown, WordingsOnRecord, OnRecord, Prompt, NothingBefore
<1>8. QED
  BY <1>1, <1>2, <1>3, <1>4, <1>5, <1>6, <1>7

\* A draw gives the row its one fortune, or reads back the one it has.
LEMMA DrawIInv ==
    ASSUME IInv, NEW r \in Requests, Draw(r)
    PROVE  IInv'
<1> USE ConstantsAssumption DEF IInv, TypeOK, Draw, DrawAgain, DrawFresh,
        Goto, bounds
<1>1. TypeOK'
  BY DEF Prompt, Statuses, Labels
<1>2. ClaimExclusive'
  BY DEF ClaimExclusive, Holds
<1>3. StatusTellsProgress'
  BY DEF StatusTellsProgress
<1>4. OneCast' /\ AnsweredOnce' /\ SameFortune'
  BY DEF OneCast, AnsweredOnce, SameFortune, Prompt
<1>5. NothingBefore'
  BY DEF NothingBefore
<1>6. SnapshotsTrue'
  BY DEF SnapshotsTrue, WordingsOnRecord, OnRecord
<1>7. DraftsKnown' /\ WordingsOnRecord'
  BY DEF DraftsKnown, WordingsOnRecord, OnRecord, Prompt
<1>8. QED
  BY <1>1, <1>2, <1>3, <1>4, <1>5, <1>6, <1>7

\* Only a confirmed session is read for interpretation.
LEMMA InterpretReadIInv ==
    ASSUME IInv, NEW r \in Requests, InterpretRead(r)
    PROVE  IInv'
<1> USE ConstantsAssumption DEF IInv, TypeOK, InterpretRead, Interpretable,
        Snapshot, Goto, table, bounds
<1>1. TypeOK'
  BY DEF Prompt, Statuses, Labels
<1>2. ClaimExclusive'
  BY DEF ClaimExclusive, Holds
<1>3. StatusTellsProgress'
  BY DEF StatusTellsProgress
<1>4. OneCast' /\ AnsweredOnce' /\ SameFortune'
  BY DEF OneCast, AnsweredOnce, SameFortune, Prompt
<1>5. NothingBefore'
  BY DEF NothingBefore
<1>6. SnapshotsTrue'
  BY DEF SnapshotsTrue, AnsweredOnce, WordingsOnRecord, OnRecord
<1>7. DraftsKnown' /\ WordingsOnRecord'
  BY DEF DraftsKnown, WordingsOnRecord, OnRecord, Prompt
<1>8. QED
  BY <1>1, <1>2, <1>3, <1>4, <1>5, <1>6, <1>7

\* A prewarmed job is about the snapshot, which has the row's fortune.
LEMMA PrewarmIInv ==
    ASSUME IInv, NEW r \in Requests, Prewarm(r)
    PROVE  IInv'
<1> USE ConstantsAssumption DEF IInv, TypeOK, Prewarm, Signature, Respond,
        Blank, table, bounds
<1>1. TypeOK'
  BY DEF Prompt, Statuses, Labels, SnapshotsTrue, OnRecord
<1>2. ClaimExclusive'
  BY DEF ClaimExclusive, Holds
<1>3. StatusTellsProgress'
  BY DEF StatusTellsProgress
<1>4. OneCast' /\ AnsweredOnce' /\ SameFortune'
  BY DEF OneCast, AnsweredOnce, SameFortune, Prompt, SnapshotsTrue
<1>5. NothingBefore'
  BY DEF NothingBefore
<1>6. SnapshotsTrue'
  BY DEF SnapshotsTrue, OnRecord
<1>7. DraftsKnown' /\ WordingsOnRecord'
  BY DEF DraftsKnown, WordingsOnRecord, OnRecord, Prompt, SnapshotsTrue
<1>8. QED
  BY <1>1, <1>2, <1>3, <1>4, <1>5, <1>6, <1>7

\* The compare-and-set succeeds only on a status no other claim has.
LEMMA ClaimIInv ==
    ASSUME IInv, NEW r \in Requests, Claim(r)
    PROVE  IInv'
<1> USE ConstantsAssumption DEF IInv, TypeOK, Claim, StillAs, Respond, Blank,
        Goto, bounds
<1>1. TypeOK'
  <2>1. CASE StillAs(r) /\ Goto(r, "edit") /\ UNCHANGED <<seen, draft>>
    BY <2>1 DEF Statuses, Labels
  <2>2. CASE Respond(r) /\ UNCHANGED status
    BY <2>2 DEF Statuses, Labels
  <2>3. QED
    BY <2>1, <2>2
<1>2. ClaimExclusive'
  BY DEF ClaimExclusive, Holds, SnapshotsTrue
<1>3. StatusTellsProgress'
  BY DEF StatusTellsProgress, SnapshotsTrue
<1>4. OneCast' /\ AnsweredOnce' /\ SameFortune'
  BY DEF OneCast, AnsweredOnce, SameFortune, Prompt, SnapshotsTrue
<1>5. NothingBefore'
  BY DEF NothingBefore
<1>6. SnapshotsTrue'
  BY DEF SnapshotsTrue, OnRecord
<1>7. DraftsKnown' /\ WordingsOnRecord'
  BY DEF DraftsKnown, WordingsOnRecord, OnRecord, Prompt
<1>8. QED
  BY <1>1, <1>2, <1>3, <1>4, <1>5, <1>6, <1>7

\* Saving a question adds a wording; a vanished row ends the request.
LEMMA EditIInv ==
    ASSUME IInv, NEW r \in Requests, Edit(r)
    PROVE  IInv'
<1> USE ConstantsAssumption DEF IInv, TypeOK, Edit, KeepQuestion,
        SaveQuestion, Respond, Blank, Goto, bounds
<1>1. TypeOK'
  <2>1. CASE KeepQuestion(r)
    BY <2>1 DEF Labels
  <2>2. ASSUME NEW new \in Wording, SaveQuestion(r, new)
        PROVE  TypeOK'
    <3>1. row = "live" => Overwritten(r, new) \in Wording
      BY DEF Overwritten, Wording, WordingsOnRecord
    <3>2. QED
      BY SMTT(30), <2>2, <3>1 DEF Statuses, Labels
  <2>3. QED
    BY <2>1, <2>2
<1>2. ClaimExclusive'
  BY DEF ClaimExclusive, Holds
<1>3. StatusTellsProgress'
  BY DEF StatusTellsProgress
<1>4. OneCast' /\ AnsweredOnce' /\ SameFortune'
  BY DEF OneCast, AnsweredOnce, SameFortune, Prompt
<1>5. NothingBefore'
  BY DEF NothingBefore
<1>6. SnapshotsTrue'
  <2>1. CASE KeepQuestion(r)
    BY <2>1 DEF SnapshotsTrue, OnRecord
  <2>2. ASSUME NEW new \in Wording, SaveQuestion(r, new), row = "live"
        PROVE  SnapshotsTrue'
    <3> DEFINE saved == Overwritten(r, new)
    <3>1. wordings \subseteq wordings' /\ saved \in wordings' /\ asked \in wordings
      BY <2>2 DEF WordingsOnRecord
    <3>2. OnRecord(seen[r].asked) /\ pc[r] = "edit"
      BY DEF SnapshotsTrue
    <3>3. \E w \in wordings' : w.question = new.question
      <4>1. CASE new.question = seen[r].asked.question
        BY <3>1, <3>2, <4>1 DEF OnRecord
      <4>2. CASE new.question # seen[r].asked.question
        BY <3>1, <4>2 DEF Overwritten
      <4>3. QED
        BY <4>1, <4>2
    <3>4. \E w \in wordings' : w.categories = new.categories
      <4>1. CASE new.categories = seen[r].asked.categories
        BY <3>1, <3>2, <4>1 DEF OnRecord
      <4>2. CASE new.categories # seen[r].asked.categories
        BY <3>1, <4>2 DEF Overwritten
      <4>3. QED
        BY <4>1, <4>2
    <3>5. seen'[r].asked = new
      BY <2>2
    <3>6. OnRecord(seen[r].asked)'
      BY <3>3, <3>4, <3>5 DEF OnRecord
    <3>7. ASSUME NEW s \in Requests, s # r, pc'[s] # "idle"
          PROVE  OnRecord(seen[s].asked)'
      BY <2>2, <3>1, <3>7 DEF SnapshotsTrue, OnRecord
    <3>8. QED
      BY <2>2, <3>6, <3>7 DEF SnapshotsTrue
  <2>3. ASSUME NEW new \in Wording, SaveQuestion(r, new), row # "live"
        PROVE  SnapshotsTrue'
    BY <2>3 DEF SnapshotsTrue, OnRecord
  <2>4. QED
    BY <2>1, <2>2, <2>3
<1>7. DraftsKnown' /\ WordingsOnRecord'
  BY DEF DraftsKnown, WordingsOnRecord, OnRecord, Prompt
<1>8. QED
  BY <1>1, <1>2, <1>3, <1>4, <1>5, <1>6, <1>7

\* A hit and a miss both yield content about a recorded wording.
LEMMA TakePrewarmedIInv ==
    ASSUME IInv, NEW r \in Requests, TakePrewarmed(r)
    PROVE  IInv'
<1> USE ConstantsAssumption DEF IInv, TypeOK, TakePrewarmed, Hit, Signature,
        Goto, table, bounds
<1>1. TypeOK'
  BY DEF Prompt, Statuses, Labels, SnapshotsTrue, OnRecord
<1>2. ClaimExclusive'
  BY DEF ClaimExclusive, Holds
<1>3. StatusTellsProgress'
  BY DEF StatusTellsProgress
<1>4. OneCast' /\ AnsweredOnce' /\ SameFortune'
  BY DEF OneCast, AnsweredOnce, SameFortune, Prompt, SnapshotsTrue
<1>5. NothingBefore'
  BY DEF NothingBefore
<1>6. SnapshotsTrue'
  BY DEF SnapshotsTrue, OnRecord
<1>7. DraftsKnown' /\ WordingsOnRecord'
  BY SMTT(30) DEF DraftsKnown, WordingsOnRecord, OnRecord, Prompt, SnapshotsTrue
<1>8. QED
  BY <1>1, <1>2, <1>3, <1>4, <1>5, <1>6, <1>7

\* Waiting for the job, or falling back to the snapshot.
LEMMA AwaitPrewarmedIInv ==
    ASSUME IInv, NEW r \in Requests, AwaitPrewarmed(r)
    PROVE  IInv'
<1> USE ConstantsAssumption DEF IInv, TypeOK, AwaitPrewarmed, Signature, Goto,
        table, bounds
<1>1. TypeOK'
  BY DEF Prompt, Statuses, Labels, SnapshotsTrue, OnRecord
<1>2. ClaimExclusive'
  BY DEF ClaimExclusive, Holds
<1>3. StatusTellsProgress'
  BY DEF StatusTellsProgress
<1>4. OneCast' /\ AnsweredOnce' /\ SameFortune'
  BY DEF OneCast, AnsweredOnce, SameFortune, Prompt, SnapshotsTrue
<1>5. NothingBefore'
  BY DEF NothingBefore
<1>6. SnapshotsTrue'
  BY DEF SnapshotsTrue, OnRecord
<1>7. DraftsKnown' /\ WordingsOnRecord'
  BY SMTT(30) DEF DraftsKnown, WordingsOnRecord, OnRecord, Prompt, SnapshotsTrue
<1>8. QED
  BY <1>1, <1>2, <1>3, <1>4, <1>5, <1>6, <1>7

\* The language model answers or fails.
LEMMA GenerateIInv ==
    ASSUME IInv, NEW r \in Requests, Generate(r)
    PROVE  IInv'
<1> USE ConstantsAssumption DEF IInv, TypeOK, Generate, Goto, table, bounds
<1>1. TypeOK'
  BY DEF Prompt, Statuses, Labels
<1>2. ClaimExclusive'
  BY DEF ClaimExclusive, Holds
<1>3. StatusTellsProgress'
  BY DEF StatusTellsProgress
<1>4. OneCast' /\ AnsweredOnce' /\ SameFortune'
  BY DEF OneCast, AnsweredOnce, SameFortune, Prompt
<1>5. NothingBefore'
  BY DEF NothingBefore
<1>6. SnapshotsTrue'
  BY DEF SnapshotsTrue, OnRecord
<1>7. DraftsKnown' /\ WordingsOnRecord'
  BY DEF DraftsKnown, WordingsOnRecord, OnRecord, Prompt
<1>8. QED
  BY <1>1, <1>2, <1>3, <1>4, <1>5, <1>6, <1>7

\* The claim goes back to the status it was taken from.
LEMMA ReleaseIInv ==
    ASSUME IInv, NEW r \in Requests, Release(r)
    PROVE  IInv'
<1> USE ConstantsAssumption DEF IInv, TypeOK, Release, RestoredStatus,
        Respond, Blank, bounds
<1>1. TypeOK'
  BY DEF Prompt, Statuses, Labels
<1>2. ClaimExclusive'
  BY DEF ClaimExclusive, Holds
<1>3. StatusTellsProgress'
  BY DEF StatusTellsProgress, SnapshotsTrue, ClaimExclusive, Holds
<1>4. OneCast' /\ AnsweredOnce' /\ SameFortune'
  BY DEF OneCast, AnsweredOnce, SameFortune, Prompt, SnapshotsTrue,
         ClaimExclusive, Holds
<1>5. NothingBefore'
  BY DEF NothingBefore
<1>6. SnapshotsTrue'
  BY DEF SnapshotsTrue, OnRecord
<1>7. DraftsKnown' /\ WordingsOnRecord'
  BY DEF DraftsKnown, WordingsOnRecord, OnRecord, Prompt
<1>8. QED
  BY <1>1, <1>2, <1>3, <1>4, <1>5, <1>6, <1>7

\* Only the owner of the claim stores a result, and it ends the claim.
LEMMA FinishIInv ==
    ASSUME IInv, NEW r \in Requests, Finish(r)
    PROVE  IInv'
<1> USE ConstantsAssumption DEF IInv, TypeOK, Finish, Respond, Blank, bounds
<1>1. TypeOK'
  BY DEF Prompt, Statuses, Labels, DraftsKnown
<1>2. ClaimExclusive'
  BY DEF ClaimExclusive, Holds
<1>3. StatusTellsProgress'
  BY DEF StatusTellsProgress, ClaimExclusive, Holds
<1>4. OneCast' /\ AnsweredOnce' /\ SameFortune'
  BY DEF OneCast, AnsweredOnce, SameFortune, Prompt, ClaimExclusive, Holds,
         DraftsKnown
<1>5. NothingBefore'
  BY DEF NothingBefore
<1>6. SnapshotsTrue'
  BY DEF SnapshotsTrue, OnRecord
<1>7. DraftsKnown' /\ WordingsOnRecord'
  BY DEF DraftsKnown, WordingsOnRecord, OnRecord, Prompt, ClaimExclusive, Holds
<1>8. QED
  BY <1>1, <1>2, <1>3, <1>4, <1>5, <1>6, <1>7

\* A refused write ends the request and leaves the row as it is.
LEMMA DbErrorIInv ==
    ASSUME IInv, NEW r \in Requests, DbError(r)
    PROVE  IInv'
<1> USE ConstantsAssumption DEF IInv, TypeOK, DbError, Respond, Blank, table,
        bounds
<1>1. TypeOK'
  BY DEF Prompt, Statuses, Labels
<1>2. ClaimExclusive'
  BY DEF ClaimExclusive, Holds
<1>3. StatusTellsProgress'
  BY DEF StatusTellsProgress
<1>4. OneCast' /\ AnsweredOnce' /\ SameFortune'
  BY DEF OneCast, AnsweredOnce, SameFortune, Prompt
<1>5. NothingBefore'
  BY DEF NothingBefore
<1>6. SnapshotsTrue'
  BY DEF SnapshotsTrue, OnRecord
<1>7. DraftsKnown' /\ WordingsOnRecord'
  BY DEF DraftsKnown, WordingsOnRecord, OnRecord, Prompt
<1>8. QED
  BY <1>1, <1>2, <1>3, <1>4, <1>5, <1>6, <1>7

\* A prayer is completed before there is a fortune.
LEMMA CompletePrayerIInv ==
    ASSUME IInv, CompletePrayer
    PROVE  IInv'
<1> USE ConstantsAssumption DEF IInv, TypeOK, CompletePrayer, PrayerOpen,
        bounds
<1>1. TypeOK'
  BY DEF Prompt, Statuses, Labels
<1>2. ClaimExclusive'
  BY DEF ClaimExclusive, Holds
<1>3. StatusTellsProgress'
  BY DEF StatusTellsProgress, Statuses
<1>4. OneCast' /\ AnsweredOnce' /\ SameFortune'
  BY DEF OneCast, AnsweredOnce, SameFortune, Prompt
<1>5. NothingBefore'
  BY DEF NothingBefore
<1>6. SnapshotsTrue'
  BY DEF SnapshotsTrue, OnRecord
<1>7. DraftsKnown' /\ WordingsOnRecord'
  BY DEF DraftsKnown, WordingsOnRecord, OnRecord, Prompt
<1>8. QED
  BY <1>1, <1>2, <1>3, <1>4, <1>5, <1>6, <1>7

\* A cast confirms a session that has a fortune and no cast.
LEMMA CastBlocksIInv ==
    ASSUME IInv, CastBlocks
    PROVE  IInv'
<1> USE ConstantsAssumption DEF IInv, TypeOK, CastBlocks, MayCast, bounds
<1>1. TypeOK'
  BY DEF Prompt, Statuses, Labels
<1>2. ClaimExclusive'
  BY DEF ClaimExclusive, Holds
<1>3. StatusTellsProgress'
  BY DEF StatusTellsProgress
<1>4. OneCast' /\ AnsweredOnce' /\ SameFortune'
  BY DEF OneCast, AnsweredOnce, SameFortune, Prompt
<1>5. NothingBefore'
  BY DEF NothingBefore
<1>6. SnapshotsTrue'
  BY DEF SnapshotsTrue, OnRecord
<1>7. DraftsKnown' /\ WordingsOnRecord'
  BY DEF DraftsKnown, WordingsOnRecord, OnRecord, Prompt
<1>8. QED
  BY <1>1, <1>2, <1>3, <1>4, <1>5, <1>6, <1>7

\* Deletion touches no column.
LEMMA DeleteIInv ==
    ASSUME IInv, Delete
    PROVE  IInv'
<1> USE ConstantsAssumption DEF IInv, TypeOK, Delete, bounds
<1>1. TypeOK'
  BY DEF Prompt, Statuses, Labels
<1>2. ClaimExclusive'
  BY DEF ClaimExclusive, Holds
<1>3. StatusTellsProgress'
  BY DEF StatusTellsProgress
<1>4. OneCast' /\ AnsweredOnce' /\ SameFortune'
  BY DEF OneCast, AnsweredOnce, SameFortune, Prompt
<1>5. NothingBefore'
  BY DEF NothingBefore
<1>6. SnapshotsTrue'
  BY DEF SnapshotsTrue, OnRecord
<1>7. DraftsKnown' /\ WordingsOnRecord'
  BY DEF DraftsKnown, WordingsOnRecord, OnRecord, Prompt
<1>8. QED
  BY <1>1, <1>2, <1>3, <1>4, <1>5, <1>6, <1>7

\* Dropping a job takes nothing from the requests.
LEMMA EvictIInv ==
    ASSUME IInv, Evict
    PROVE  IInv'
<1> USE ConstantsAssumption DEF IInv, TypeOK, Evict, table, bounds
<1>1. TypeOK'
  BY DEF Prompt, Statuses, Labels
<1>2. ClaimExclusive'
  BY DEF ClaimExclusive, Holds
<1>3. StatusTellsProgress'
  BY DEF StatusTellsProgress
<1>4. OneCast' /\ AnsweredOnce' /\ SameFortune'
  BY DEF OneCast, AnsweredOnce, SameFortune, Prompt
<1>5. NothingBefore'
  BY DEF NothingBefore
<1>6. SnapshotsTrue'
  BY DEF SnapshotsTrue, OnRecord
<1>7. DraftsKnown' /\ WordingsOnRecord'
  BY DEF DraftsKnown, WordingsOnRecord, OnRecord, Prompt
<1>8. QED
  BY <1>1, <1>2, <1>3, <1>4, <1>5, <1>6, <1>7

\* A crash empties the memory of the process and no more.
LEMMA CrashIInv ==
    ASSUME IInv, Crash
    PROVE  IInv'
<1> USE ConstantsAssumption DEF IInv, TypeOK, Crash, table, Blank
<1>1. TypeOK'
  BY DEF Prompt, Statuses, Labels
<1>2. ClaimExclusive'
  BY DEF ClaimExclusive, Holds
<1>3. StatusTellsProgress'
  BY DEF StatusTellsProgress
<1>4. OneCast' /\ AnsweredOnce' /\ SameFortune'
  BY DEF OneCast, AnsweredOnce, SameFortune, Prompt
<1>5. NothingBefore'
  BY DEF NothingBefore
<1>6. SnapshotsTrue'
  BY DEF SnapshotsTrue, OnRecord
<1>7. DraftsKnown' /\ WordingsOnRecord'
  BY DEF DraftsKnown, WordingsOnRecord, OnRecord, Prompt
<1>8. QED
  BY <1>1, <1>2, <1>3, <1>4, <1>5, <1>6, <1>7

\* Every step of the backend, and every failure, preserves the invariant.
LEMMA NextIInv == IInv /\ [Next]_vars => IInv'
<1> SUFFICES ASSUME IInv, [Next]_vars
             PROVE  IInv'
  OBVIOUS
<1>1. ASSUME NEW r \in Requests, Create(r) \/ Draw(r) \/ InterpretRead(r)
      PROVE  IInv'
  BY <1>1, CreateIInv, DrawIInv, InterpretReadIInv
<1>2. ASSUME NEW r \in Requests, Steps(r) \/ DbError(r)
      PROVE  IInv'
  BY <1>2, PrewarmIInv, ClaimIInv, EditIInv, TakePrewarmedIInv,
     AwaitPrewarmedIInv, GenerateIInv, ReleaseIInv, FinishIInv, DbErrorIInv
     DEF Steps
<1>3. CASE CompletePrayer \/ CastBlocks \/ Delete \/ Evict \/ Crash
  BY <1>3, CompletePrayerIInv, CastBlocksIInv, DeleteIInv, EvictIInv, CrashIInv
<1>4. CASE UNCHANGED vars
  BY <1>4 DEF vars, table, bounds, IInv, TypeOK, ClaimExclusive, Holds,
     StatusTellsProgress, OneCast, AnsweredOnce, SameFortune, NothingBefore,
     SnapshotsTrue, DraftsKnown, WordingsOnRecord, OnRecord
<1>5. QED
  BY <1>1, <1>2, <1>3, <1>4 DEF Next, Done

\* The inductive invariant holds of every behaviour.
THEOREM Invariance == Spec => []IInv
<1>1. QED
  BY InitIInv, NextIInv, PTL DEF Spec

------------------------------------------------------------------------------
\* Every column and every request keeps its type: in particular the row never
\* leaves the six statuses of docs/API.md.
THEOREM TypeCorrect == Spec => []TypeOK
<1>1. IInv => TypeOK
  BY DEF IInv
<1>2. QED
  BY <1>1, Invariance, PTL

\* For any number of concurrent requests, one at most is past the claim of
\* interpret_session, and the row says so.
THEOREM MutualExclusion == Spec => []ClaimExclusive
<1>1. IInv => ClaimExclusive
  BY DEF IInv
<1>2. QED
  BY <1>1, Invariance, PTL

\* The columns of a row tell one story, whatever the order of the calls.
THEOREM RowConsistent == Spec => []RowAgrees
<1>1. IInv => RowAgrees
  BY DEF IInv, RowAgrees
<1>2. QED
  BY <1>1, Invariance, PTL

\* No request brings in another fortune than the row's, however old the
\* snapshot is that it works from.
THEOREM FortuneStays == Spec => []SameFortune
<1>1. IInv => SameFortune
  BY DEF IInv
<1>2. QED
  BY <1>1, Invariance, PTL

\* No late request changes a record once it is completed.
THEOREM CompletedIsFrozen == Spec => CompletedFrozen
<1> DEFINE record == <<status, fortune, asked, confirmed, answer, casts, prompts>>
<1>1. IInv /\ [Next]_vars /\ status = "completed" => UNCHANGED record
  <2> SUFFICES ASSUME IInv, [Next]_vars, status = "completed"
               PROVE  UNCHANGED record
    OBVIOUS
  <2> USE DEF IInv, table
  <2>1. ASSUME NEW r \in Requests, Create(r)
        PROVE  UNCHANGED record
    BY <2>1 DEF Create, NothingBefore
  <2>2. ASSUME NEW r \in Requests, Draw(r)
        PROVE  UNCHANGED record
    BY <2>2 DEF Draw, DrawFresh, DrawAgain
  <2>3. ASSUME NEW r \in Requests, Claim(r)
        PROVE  UNCHANGED record
    BY <2>3 DEF Claim, StillAs, SnapshotsTrue, OnRecord
  <2>4. ASSUME NEW r \in Requests, Edit(r) \/ Release(r) \/ Finish(r)
        PROVE  UNCHANGED record
    BY <2>4 DEF Edit, Release, Finish, ClaimExclusive, Holds
  <2>5. ASSUME NEW r \in Requests,
               \/ InterpretRead(r) \/ Prewarm(r) \/ TakePrewarmed(r)
               \/ AwaitPrewarmed(r) \/ Generate(r) \/ DbError(r)
        PROVE  UNCHANGED record
    BY <2>5 DEF InterpretRead, Prewarm, TakePrewarmed, AwaitPrewarmed,
       Generate, DbError
  <2>6. CASE CompletePrayer \/ CastBlocks
    BY <2>6 DEF CompletePrayer, PrayerOpen, CastBlocks, MayCast
  <2>7. CASE Delete \/ Evict \/ Crash \/ UNCHANGED vars
    BY <2>7 DEF Delete, Evict, Crash, vars
  <2>8. QED
    BY <2>1, <2>2, <2>3, <2>4, <2>5, <2>6, <2>7 DEF Next, Steps, Done
<1>2. IInv /\ [Next]_vars => [status = "completed" => UNCHANGED record]_vars
  BY <1>1
<1>3. QED
  BY <1>2, Invariance, PTL DEF Spec, CompletedFrozen

\* Unless the process dies or a write is refused, a claim has an owner at work
\* on it: every path out of interpret_session gives the claim back.
THEOREM ClaimIsOwned == Spec => []NoOrphanClaim
<1>1. Init => NoOrphanClaim
  BY DEF Init, NoOrphanClaim
<1>2. IInv /\ NoOrphanClaim /\ [Next]_vars => NoOrphanClaim'
  <2> SUFFICES ASSUME IInv, NoOrphanClaim, [Next]_vars,
                      row' = "live", status' = "interpreting",
                      crashes' = 0, dbErrors' = 0
               PROVE  \E r \in Requests : Holds(r)'
    BY DEF NoOrphanClaim
  <2> USE DEF IInv, TypeOK
  <2>1. ASSUME NEW r \in Requests, Claim(r)
        PROVE  \E s \in Requests : Holds(s)'
    <3>1. CASE StillAs(r)
      BY <2>1, <3>1 DEF Claim, Goto, Holds
    <3>2. CASE ~StillAs(r)
      BY <2>1, <3>2 DEF Claim, Respond, NoOrphanClaim, bounds, Holds
    <3>3. QED
      BY <3>1, <3>2
  <2>2. ASSUME NEW r \in Requests,
               Edit(r) \/ TakePrewarmed(r) \/ AwaitPrewarmed(r) \/ Generate(r)
        PROVE  Holds(r)'
    BY <2>2 DEF Edit, KeepQuestion, SaveQuestion, TakePrewarmed, AwaitPrewarmed,
       Generate, Goto, Holds, table
  <2>3. ASSUME NEW r \in Requests, Release(r) \/ Finish(r)
        PROVE  FALSE
    BY <2>3 DEF Release, RestoredStatus, Finish, SnapshotsTrue, ClaimExclusive, Holds
  <2>4. ASSUME NEW r \in Requests, Create(r)
        PROVE  FALSE
    BY <2>4 DEF Create
  <2>5. ASSUME NEW r \in Requests, Draw(r) \/ InterpretRead(r) \/ Prewarm(r)
        PROVE  \E s \in Requests : Holds(s)'
    <3>1. PICK s \in Requests : Holds(s)
      BY <2>5 DEF Draw, DrawAgain, DrawFresh, InterpretRead, Prewarm, table,
         bounds, NoOrphanClaim
    <3>2. Holds(s)'
      BY <2>5, <3>1 DEF Draw, InterpretRead, Prewarm, Respond, Goto, Holds
    <3>3. QED
      BY <3>2
  <2>6. ASSUME NEW r \in Requests, DbError(r)
        PROVE  FALSE
    BY <2>6 DEF DbError
  <2>7. CASE CompletePrayer \/ CastBlocks \/ Delete \/ Crash
    BY <2>7 DEF CompletePrayer, CastBlocks, Delete, Crash
  <2>8. CASE Evict \/ UNCHANGED vars
    BY <2>8 DEF Evict, vars, table, bounds, NoOrphanClaim, Holds
  <2>9. QED
    BY <2>1, <2>2, <2>3, <2>4, <2>5, <2>6, <2>7, <2>8 DEF Next, Steps, Done
<1>3. QED
  BY <1>1, <1>2, Invariance, PTL DEF Spec

------------------------------------------------------------------------------
(***************************************************************************)
(* The refinement: every step of the backend is a step of module Reading,  *)
(* seen through Stage, or leaves the reading as it is.                     *)
(***************************************************************************)
reading == <<Stage, fortune, wordings, answer>>

\* A table without the row is a reading nobody has asked for.
LEMMA ReadingInit == Init => Promise!Init
  BY DEF Init, Promise!Init, Stage

\* Every step of the backend is a step of the reading or leaves it as it is.
LEMMA ReadingNext == IInv /\ [Next]_vars => [Promise!Next]_(Promise!vars)
<1> SUFFICES ASSUME IInv, [Next]_vars
             PROVE  Promise!Next \/ UNCHANGED reading
  BY DEF Promise!vars, reading
<1> USE DEF IInv, TypeOK, Statuses, reading, Stage
<1>1. ASSUME NEW r \in Requests, Create(r)
      PROVE  Promise!Next
  <2>1. PICK q \in Wording, f \in Fortunes \cup {NoFortune} :
           /\ wordings' = {q}
           /\ fortune' = f
           /\ status' = IF f # NoFortune THEN "confirmed" ELSE "created"
    BY <1>1 DEF Create
  <2>2. Promise!Ask(q)
    BY <1>1, <2>1 DEF Create, Promise!Ask
  <2>3. QED
    BY <2>2 DEF Promise!Next, Promise!Wording, Wording
<1>2. ASSUME NEW r \in Requests, Draw(r)
      PROVE  Promise!Next \/ UNCHANGED reading
  <2>1. CASE DrawAgain
    BY <1>2, <2>1 DEF Draw, DrawAgain
  <2>2. ASSUME NEW f \in Fortunes, DrawFresh(f)
        PROVE  Promise!Draw(f)
    BY <1>2, <2>2 DEF Draw, DrawFresh, Promise!Draw
  <2>3. QED
    BY <1>2, <2>1, <2>2 DEF Draw, Promise!Next
<1>3. ASSUME NEW r \in Requests, Claim(r)
      PROVE  UNCHANGED reading
  BY <1>3 DEF Claim, StillAs, SnapshotsTrue, OnRecord
<1>4. ASSUME NEW r \in Requests, Edit(r)
      PROVE  Promise!Next \/ UNCHANGED reading
  <2>1. CASE KeepQuestion(r)
    BY <1>4, <2>1 DEF Edit, KeepQuestion
  <2>2. ASSUME NEW new \in Wording, SaveQuestion(r, new), row = "live"
        PROVE  Promise!Next
    <3> DEFINE saved == Overwritten(r, new)
    <3>1. saved \in Promise!Wording
      BY <2>2 DEF Overwritten, Wording, WordingsOnRecord, Promise!Wording
    <3>2. Promise!Reword(saved)
      BY <1>4, <2>2 DEF Edit, SaveQuestion, ClaimExclusive, Holds, Promise!Reword
    <3>3. QED
      BY <3>1, <3>2 DEF Promise!Next
  <2>3. ASSUME NEW new \in Wording, SaveQuestion(r, new), row # "live"
        PROVE  UNCHANGED reading
    BY <1>4, <2>3 DEF Edit, SaveQuestion
  <2>4. QED
    BY <1>4, <2>1, <2>2, <2>3 DEF Edit
<1>5. ASSUME NEW r \in Requests, Release(r)
      PROVE  UNCHANGED reading
  BY <1>5 DEF Release, RestoredStatus, SnapshotsTrue, OnRecord
<1>6. ASSUME NEW r \in Requests, Finish(r)
      PROVE  Promise!Next \/ UNCHANGED reading
  <2>1. CASE row = "live"
    <3> DEFINE q == draft[r].asked
    <3>1. draft[r] \in Prompt /\ OnRecord(q) /\ draft[r].fortune = fortune
      BY <1>6 DEF Finish, DraftsKnown, WordingsOnRecord, SameFortune, OnRecord
    <3>2. draft[r] = [fortune |-> fortune, asked |-> q]
      BY <3>1 DEF Prompt
    <3>3. Promise!Answer(q)
      BY <1>6, <2>1, <3>1, <3>2 DEF Finish, ClaimExclusive, Holds, OnRecord, Promise!Answer
    <3>4. q \in Promise!Wording
      BY <3>1 DEF Prompt, Wording, Promise!Wording
    <3>5. QED
      BY <3>3, <3>4 DEF Promise!Next
  <2>2. CASE row # "live"
    BY <1>6, <2>2 DEF Finish
  <2>3. QED
    BY <2>1, <2>2
<1>7. ASSUME NEW r \in Requests,
             \/ InterpretRead(r) \/ Prewarm(r) \/ TakePrewarmed(r)
             \/ AwaitPrewarmed(r) \/ Generate(r) \/ DbError(r)
      PROVE  UNCHANGED reading
  BY <1>7 DEF InterpretRead, Prewarm, TakePrewarmed, AwaitPrewarmed,
     Generate, DbError, table
<1>8. CASE CompletePrayer
  BY <1>8 DEF CompletePrayer, PrayerOpen
<1>9. CASE CastBlocks
  BY <1>9 DEF CastBlocks, MayCast, Promise!Confirm, Promise!Next
<1>10. CASE Delete
  BY <1>10 DEF Delete, Promise!Remove, Promise!Next
<1>11. CASE Evict \/ Crash \/ UNCHANGED vars
  BY <1>11 DEF Evict, Crash, vars, table
<1>12. QED
  BY <1>1, <1>2, <1>3, <1>4, <1>5, <1>6, <1>7, <1>8, <1>9, <1>10, <1>11
     DEF Next, Steps, Done

\* The backend delivers a reading as module Reading promises it, however many
\* requests work on the row, and whatever fails.
THEOREM Refinement == Spec => ImplementsReading
<1>1. IInv /\ [Next]_vars => [Promise!Next]_(Promise!vars)
  BY ReadingNext
<1>2. QED
  BY ReadingInit, <1>1, Invariance, PTL DEF Spec, ImplementsReading, Promise!Spec

==============================================================================

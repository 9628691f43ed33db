------------------------------- MODULE Reading -------------------------------
(***************************************************************************)
(* What one fortune reading promises its owner, without the requests,      *)
(* snapshots, claims and background jobs the backend uses to deliver it:   *)
(*                                                                         *)
(*   - a fortune is drawn once, and never exchanged for another;           *)
(*   - the reading is confirmed only after the draw (or together with it,  *)
(*     when the visitor looks a fortune up by number);                     *)
(*   - the question may be reworded only between confirmation and answer;  *)
(*   - the reading is answered at most once, about the drawn fortune, a    *)
(*     question that was on record at some time and categories that were;  *)
(*   - a removed reading stays removed.                                    *)
(***************************************************************************)
CONSTANTS Fortunes, Questions, Categories, NoFortune, NoAnswer

VARIABLES
    stage,      \* how far the reading has come
    fortune,    \* the fortune drawn, or NoFortune
    wordings,   \* every question, with its categories, ever on record
    answer      \* what the interpretation was written about, or NoAnswer

vars == <<stage, fortune, wordings, answer>>

Wording == [question : Questions, categories : Categories]

Init ==
    /\ stage = "unasked"
    /\ fortune = NoFortune
    /\ wordings = {}
    /\ answer = NoAnswer

Ask(q) ==
    /\ stage = "unasked"
    /\ wordings' = {q}
    /\ \/ /\ stage' = "asked"
          /\ fortune' = NoFortune
       \/ /\ stage' = "confirmed"
          /\ fortune' \in Fortunes
    /\ UNCHANGED answer

Draw(f) ==
    /\ stage = "asked"
    /\ stage' = "drawn"
    /\ fortune' = f
    /\ UNCHANGED <<wordings, answer>>

Confirm ==
    /\ stage = "drawn"
    /\ stage' = "confirmed"
    /\ UNCHANGED <<fortune, wordings, answer>>

Reword(q) ==
    /\ stage = "confirmed"
    /\ wordings' = wordings \cup {q}
    /\ UNCHANGED <<stage, fortune, answer>>

Answer(q) ==
    /\ stage = "confirmed"
    /\ \E w \in wordings : w.question = q.question
    /\ \E w \in wordings : w.categories = q.categories
    /\ stage' = "answered"
    /\ answer' = [fortune |-> fortune, asked |-> q]
    /\ UNCHANGED <<fortune, wordings>>

Remove ==
    /\ stage \notin {"unasked", "removed"}
    /\ stage' = "removed"
    /\ UNCHANGED <<fortune, wordings, answer>>

Next ==
    \/ \E q \in Wording : Ask(q) \/ Reword(q) \/ Answer(q)
    \/ \E f \in Fortunes : Draw(f)
    \/ Confirm
    \/ Remove

Spec == Init /\ [][Next]_vars

==============================================================================

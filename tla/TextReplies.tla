----------------------------- MODULE TextReplies -----------------------------
(***************************************************************************)
(* What the pipeline promises a student, without deliveries, rows, drafts  *)
(* or crashes: a text is judged once; only a text that passed is answered; *)
(* the answer is one reply, or to a text with the START code the welcome,  *)
(* the congratulations before the question; and no part arrives twice.     *)
(* The first welcome text may be lost and the second arrive all the same.  *)
(***************************************************************************)
EXTENDS Naturals

CONSTANTS Texts, StartTexts

VARIABLES verdict,    \* "unscreened", "passed" or "blocked", for each text
          reached     \* how often each part of its answer reached the student

vars == <<verdict, reached>>

Parts == {"reply", "congrats", "context"}

Init ==
    /\ verdict = [t \in Texts |-> "unscreened"]
    /\ reached = [t \in Texts |-> [part \in Parts |-> 0]]

Judge(t, decision) ==
    /\ verdict[t] = "unscreened"
    /\ verdict' = [verdict EXCEPT ![t] = decision]
    /\ UNCHANGED reached

(* The parts of an answer that may have arrived before this one. *)
Before(part) == IF part = "context" THEN {"congrats"} ELSE {}

Answer(t, part) ==
    /\ verdict[t] = "passed"
    /\ part = "reply" \/ t \in StartTexts
    /\ \A other \in Parts \ Before(part) : reached[t][other] = 0
    /\ reached' = [reached EXCEPT ![t][part] = @ + 1]
    /\ UNCHANGED verdict

Next ==
    \E t \in Texts :
        \/ \E decision \in {"passed", "blocked"} : Judge(t, decision)
        \/ \E part \in Parts : Answer(t, part)

Spec == Init /\ [][Next]_vars

=============================================================================

----------------------------- MODULE StudentTexts -----------------------------
(***************************************************************************)
(* A student's text from the webhook to the reply (apps/app/src/server.mjs *)
(* /webhooks/mac-bridge, apps/app/src/workflows/student-inbound.mjs,       *)
(* apps/app/src/outbound.mjs): deduplication, recording, screening, the    *)
(* agent's turn and the autonomous send, statement by statement.           *)
(*                                                                         *)
(* A task is one delivery of a text: first the HTTP handler, then the      *)
(* workflow the handler starts without awaiting it.  Tasks interleave at   *)
(* every await, a text may be delivered more than once, and a task may end *)
(* at any point because a statement throws or the process restarts.        *)
(*                                                                         *)
(* One student, one phone and one START code.  StartTexts is the set of    *)
(* texts that carry it, codelike the texts with a word that looks like a   *)
(* code of the older kinds (IJ-..., or eight hex digits), which nothing    *)
(* issues any more; the others are ordinary messages.                      *)
(***************************************************************************)
EXTENDS Naturals, Sequences

CONSTANTS Texts,          \* provider event ids
          StartTexts,     \* the texts that carry the student's START code
          Tasks,          \* deliveries that can be in progress at once
          MaxDeliveries,  \* bound: how often one text is delivered
          None

ASSUME TextsAssumption ==
    /\ StartTexts \subseteq Texts
    /\ None \notin Texts
    /\ MaxDeliveries \in Nat \ {0}

VARIABLES waitlist,     \* config.waitlistMode
          live,         \* sends are tried: the bridge is configured, no dry run
          codelike,     \* the texts with what looks like an older code
          claimedBy,    \* the text whose delivery claimed the code, or None
          expired,      \* whether a delivery found the code expired, unclaimed
          events,       \* messaging_events: the type recorded for each text
          inbox,        \* inbound_messages: the row of each text
          draft,        \* drafts: the status of each part of the reply
          task,         \* what each delivery is doing
          verdict,      \* history: what the screen decided about each text
          got,          \* history: how often each part reached the student's phone
          deliveries,   \* how often each text was delivered
          interrupted   \* history: the texts one of whose deliveries was cut short

(* What does not change: the configuration, and what the texts say. *)
fixed == <<waitlist, live, codelike>>

code == <<claimedBy, expired>>

db == <<code, events, inbox, draft>>

vars == <<fixed, db, task, verdict, got, deliveries, interrupted>>

(* A reply is one text, or the two welcome texts of a first contact. *)
Parts == {"reply", "congrats", "context"}

Welcome == <<"congrats", "context">>

RejectedTypes == {"pairing_expired", "pairing_rejected"}

EventTypes == RejectedTypes \union
              {"pairing_started", "student_reply", "unmatched_inbound"}

(* A task at one of RejectedTypes has yet to record that event. *)
Places == RejectedTypes \union
          {"idle", "claim", "startevent", "confirm", "dedup", "record",
           "unknown", "inbox", "screen", "load", "insert", "send", "marksent",
           "markfailed", "finish"}

TypeOK ==
    /\ waitlist \in BOOLEAN /\ live \in BOOLEAN
    /\ codelike \subseteq Texts \ StartTexts
    /\ claimedBy \in StartTexts \union {None} /\ expired \in BOOLEAN
    /\ events \in [Texts -> EventTypes \union {"none"}]
    /\ inbox \in [Texts -> {"absent", "pending", "processed"}]
    /\ draft \in [Texts -> [Parts -> {"none", "sending", "sent", "failed"}]]
    /\ task \in [Tasks -> [at : Places, t : Texts \union {None},
                           todo : {<<>>, <<"reply">>, <<"context">>, Welcome}]]
    /\ verdict \in [Texts -> {"unscreened", "passed", "blocked"}]
    /\ got \in [Texts -> [Parts -> 0..MaxDeliveries]]
    /\ deliveries \in [Texts -> 0..MaxDeliveries]
    /\ interrupted \subseteq Texts

Idle == [at |-> "idle", t |-> None, todo |-> <<>>]

Init ==
    /\ waitlist \in BOOLEAN /\ live \in BOOLEAN
    /\ codelike \in SUBSET (Texts \ StartTexts)
    /\ claimedBy = None /\ expired = FALSE
    /\ events = [t \in Texts |-> "none"]
    /\ inbox = [t \in Texts |-> "absent"]
    /\ draft = [t \in Texts |-> [part \in Parts |-> "none"]]
    /\ task = [k \in Tasks |-> Idle]
    /\ verdict = [t \in Texts |-> "unscreened"]
    /\ got = [t \in Texts |-> [part \in Parts |-> 0]]
    /\ deliveries = [t \in Texts |-> 0]
    /\ interrupted = {}

Go(k, place) == task' = [task EXCEPT ![k].at = place]

End(k) == task' = [task EXCEPT ![k] = Idle]

(* insert into messaging_events ... on conflict do nothing *)
RecordEvent(t, type) ==
    events' = [events EXCEPT ![t] = IF @ = "none" THEN type ELSE @]

-----------------------------------------------------------------------------
(* The START branch of the handler. *)

(* parsePairingCode comes first, then extractPairingCode, which parseInbound
   has run on the text. *)
Branch(t) == IF t \in StartTexts THEN "claim"
             ELSE IF t \in codelike THEN "confirm" ELSE "dedup"

Deliver(k, t) ==
    /\ task[k].at = "idle"
    /\ deliveries[t] < MaxDeliveries
    /\ deliveries' = [deliveries EXCEPT ![t] = @ + 1]
    /\ task' = [task EXCEPT ![k] = [Idle EXCEPT !.t = t, !.at = Branch(t)]]
    /\ UNCHANGED <<db, fixed, verdict, got, interrupted>>

(* claimPairingCode, one transaction (module Pairing). *)
Claim(k) ==
    /\ task[k].at = "claim"
    /\ claimedBy = None /\ ~expired
    /\ claimedBy' = task[k].t
    /\ Go(k, "startevent")
    /\ UNCHANGED <<expired, events, inbox, draft, fixed, verdict, got, deliveries,
                   interrupted>>

(* Refused as already claimed, expired or unknown; or, where it could have been
   claimed, as the student has another phone or no LinkedIn profile.  A code
   that has expired stays so. *)
ClaimRefused(k, type) ==
    /\ task[k].at = "claim"
    /\ IF type = "pairing_rejected"
          THEN claimedBy = None /\ ~expired /\ UNCHANGED expired
          ELSE expired' = (claimedBy = None)
    /\ Go(k, type)
    /\ UNCHANGED <<claimedBy, events, inbox, draft, fixed, verdict, got,
                   deliveries, interrupted>>

StartEvent(k) ==
    /\ task[k].at = "startevent"
    /\ RecordEvent(task[k].t, "pairing_started")
    /\ Go(k, "inbox")
    /\ UNCHANGED <<code, inbox, draft, fixed, verdict, got, deliveries,
                   interrupted>>

RejectEvent(k) ==
    /\ task[k].at \in RejectedTypes
    /\ RecordEvent(task[k].t, task[k].at)
    /\ End(k)
    /\ UNCHANGED <<code, inbox, draft, fixed, verdict, got, deliveries,
                   interrupted>>

-----------------------------------------------------------------------------
(* confirmPairingCode finds a duplicate, or no active code: 422, and nothing is
   recorded or answered. *)
ConfirmCode(k) ==
    /\ task[k].at = "confirm"
    /\ End(k)
    /\ UNCHANGED <<db, fixed, verdict, got, deliveries, interrupted>>

-----------------------------------------------------------------------------
(* recordInboundMessage and the reply to an unknown number. *)

Deduplicate(k) ==
    /\ task[k].at = "dedup"
    /\ IF events[task[k].t] # "none" THEN End(k) ELSE Go(k, "record")
    /\ UNCHANGED <<db, fixed, verdict, got, deliveries, interrupted>>

(* The sender is the student once the code has been claimed from that phone. *)
Record(k) ==
    LET type == IF claimedBy # None THEN "student_reply" ELSE "unmatched_inbound"
    IN  /\ task[k].at = "record"
        /\ RecordEvent(task[k].t, type)
        /\ Go(k, IF type = "student_reply" THEN "inbox" ELSE "unknown")
        /\ UNCHANGED <<code, inbox, draft, fixed, verdict, got,
                       deliveries, interrupted>>

(* The registration text goes out; nothing here depends on its fate. *)
ReplyUnknown(k) ==
    /\ task[k].at = "unknown"
    /\ End(k)
    /\ UNCHANGED <<db, fixed, verdict, got, deliveries, interrupted>>

-----------------------------------------------------------------------------
(* writeInboundMessage, then the screen. *)

(* Slip: the conflict on (provider, provider_event_id) is not looked at. *)
WriteInboxUpsert(k) ==
    LET t == task[k].t
    IN  /\ task[k].at = "inbox"
        /\ inbox' = [inbox EXCEPT ![t] = "pending"]
        /\ Go(k, "screen")
        /\ UNCHANGED <<code, events, draft, fixed, verdict, got,
                       deliveries, interrupted>>

(* Null instead of an id when the text has a row: the delivery ends there. *)
WriteInbox(k) ==
    LET t == task[k].t
    IN  /\ task[k].at = "inbox"
        /\ IF inbox[t] = "absent"
              THEN /\ inbox' = [inbox EXCEPT ![t] = "pending"]
                   /\ Go(k, "screen")
              ELSE /\ UNCHANGED inbox
                   /\ End(k)
        /\ UNCHANGED <<code, events, draft, fixed, verdict, got,
                       deliveries, interrupted>>

(* Slip: only a numeric score blocks, and Lakera v2 sends none. *)
ScreenByScore(k, result) ==
    /\ task[k].at = "screen"
    /\ verdict' = [verdict EXCEPT ![task[k].t] =
                      IF result = "flagged" THEN "blocked" ELSE "passed"]
    /\ Go(k, "load")
    /\ UNCHANGED <<db, fixed, got, deliveries, interrupted>>

(* screenMessage: flagged blocks, with a canned reply and no agent; clean and
   unavailable pass (it fails open). *)
Screen(k, result) ==
    /\ task[k].at = "screen"
    /\ verdict' = [verdict EXCEPT ![task[k].t] =
                      IF result = "flagged" THEN "blocked" ELSE "passed"]
    /\ IF result = "flagged" THEN End(k) ELSE Go(k, "load")
    /\ UNCHANGED <<db, fixed, got, deliveries, interrupted>>

-----------------------------------------------------------------------------
(* runStudentInboundWorkflow. *)

(* What the turn will send: two welcome texts on a first contact without a
   role, one reply while waitlisted or when a role matches, else nothing. *)
Replies(t, roleFound) ==
    IF t \in StartTexts /\ (waitlist \/ ~roleFound) THEN Welcome
    ELSE IF waitlist \/ roleFound THEN <<"reply">>
    ELSE <<>>

Load(k, roleFound) ==
    LET t == task[k].t
        todo == Replies(t, roleFound)
    IN  /\ task[k].at = "load"
        /\ IF inbox[t] = "processed"
              THEN End(k)
              ELSE task' = [task EXCEPT ![k].todo = todo,
                      ![k].at = IF todo = <<>> THEN "finish" ELSE "insert"]
        /\ UNCHANGED <<db, fixed, verdict, got, deliveries, interrupted>>

InsertDraft(k) ==
    /\ task[k].at = "insert"
    /\ draft' = [draft EXCEPT ![task[k].t][Head(task[k].todo)] = "sending"]
    /\ Go(k, "send")
    /\ UNCHANGED <<code, events, inbox, fixed, verdict, got, deliveries,
                   interrupted>>

(* Slip: a provider_error result is not turned into an exception. *)
SendIgnoresProviderError(k, arrives, acked) ==
    LET t == task[k].t
        part == Head(task[k].todo)
    IN  /\ task[k].at = "send"
        /\ acked => arrives
        /\ arrives => live
        /\ got' = [got EXCEPT ![t][part] = IF arrives THEN @ + 1 ELSE @]
        /\ Go(k, "marksent")
        /\ UNCHANGED <<db, fixed, verdict, deliveries, interrupted>>

(* routeAndSend through the bridge: the text arrives or not, and the answer
   may be lost after it has arrived.  Without a bridge (the client answers
   skipped_configuration_missing) and in a dry run nothing goes out, and that
   counts as sent. *)
Send(k, arrives, acked) ==
    LET t == task[k].t
        part == Head(task[k].todo)
    IN  /\ task[k].at = "send"
        /\ acked => arrives
        /\ arrives => live
        /\ got' = [got EXCEPT ![t][part] = IF arrives THEN @ + 1 ELSE @]
        /\ Go(k, IF acked \/ ~live THEN "marksent" ELSE "markfailed")
        /\ UNCHANGED <<db, fixed, verdict, deliveries, interrupted>>

(* The next welcome text, or the end of the turn. *)
Settle(k, status) ==
    LET rest == Tail(task[k].todo)
    IN  /\ draft' = [draft EXCEPT ![task[k].t][Head(task[k].todo)] = status]
        /\ task' = [task EXCEPT ![k].todo = rest,
                       ![k].at = IF rest = <<>> THEN "finish" ELSE "insert"]
        /\ UNCHANGED <<code, events, inbox, fixed, verdict, got,
                       deliveries, interrupted>>

MarkSent(k) == task[k].at = "marksent" /\ Settle(k, "sent")

(* Inside the try block the UPDATE to 'sent' throws, or in the role flow the
   audit row after it: the catch block goes on to mark the draft 'failed'. *)
MarkSentThrows(k, updated) ==
    LET part == Head(task[k].todo)
    IN  /\ task[k].at = "marksent"
        /\ updated => part = "reply" /\ ~waitlist
        /\ draft' = IF updated THEN [draft EXCEPT ![task[k].t][part] = "sent"]
                              ELSE draft
        /\ Go(k, "markfailed")
        /\ UNCHANGED <<code, events, inbox, fixed, verdict, got,
                       deliveries, interrupted>>

MarkFailed(k) == task[k].at = "markfailed" /\ Settle(k, "failed")

(* Slip: the row is left as it was. *)
FinishUnmarked(k) ==
    /\ task[k].at = "finish"
    /\ End(k)
    /\ UNCHANGED <<db, fixed, verdict, got, deliveries, interrupted>>

(* Slip: the row gets the last status of a draft instead of its own. *)
FinishAsSent(k) ==
    /\ task[k].at = "finish"
    /\ inbox' = [inbox EXCEPT ![task[k].t] = "sent"]
    /\ End(k)
    /\ UNCHANGED <<code, events, draft, fixed, verdict, got, deliveries,
                   interrupted>>

(* markProcessed *)
Finish(k) ==
    /\ task[k].at = "finish"
    /\ inbox' = [inbox EXCEPT ![task[k].t] = "processed"]
    /\ End(k)
    /\ UNCHANGED <<code, events, draft, fixed, verdict, got, deliveries,
                   interrupted>>

-----------------------------------------------------------------------------
(* A statement throws outside the try block around the send, or the process
   goes down: the delivery ends there and nothing takes it up again. *)
Interrupt(k) ==
    /\ task[k].at # "idle"
    /\ interrupted' = interrupted \union {task[k].t}
    /\ End(k)
    /\ UNCHANGED <<db, fixed, verdict, got, deliveries>>

Step(k) ==
    \/ Claim(k)
    \/ \E type \in RejectedTypes : ClaimRefused(k, type)
    \/ StartEvent(k)
    \/ RejectEvent(k)
    \/ ConfirmCode(k)
    \/ Deduplicate(k)
    \/ Record(k)
    \/ ReplyUnknown(k)
    \/ WriteInbox(k)
    \/ \E result \in {"clean", "flagged", "unavailable"} : Screen(k, result)
    \/ \E roleFound \in BOOLEAN : Load(k, roleFound)
    \/ InsertDraft(k)
    \/ \E arrives, acked \in BOOLEAN : Send(k, arrives, acked)
    \/ MarkSent(k)
    \/ \E updated \in BOOLEAN : MarkSentThrows(k, updated)
    \/ MarkFailed(k)
    \/ Finish(k)

Next ==
    \/ \E k \in Tasks, t \in Texts : Deliver(k, t)
    \/ \E k \in Tasks : Step(k) \/ Interrupt(k)

Spec == Init /\ [][Next]_vars

(* The event loop runs every task that is not interrupted; texts arrive, and
   tasks are interrupted, as they please. *)
FairSpec == Spec /\ \A k \in Tasks : WF_vars(Step(k))

-----------------------------------------------------------------------------
Promised == INSTANCE TextReplies WITH reached <- got

(***************************************************************************)
(* All that is promised of the answers, of overlapping, repeated and       *)
(* broken-off deliveries: every text is judged once, and a text that has   *)
(* passed gets one reply or the welcome texts, in order and never twice.   *)
(***************************************************************************)
ImplementsTextReplies == Promised!Spec

(***************************************************************************)
(* However often a text is delivered, and however the deliveries overlap   *)
(* or break off, each part of its reply reaches the student at most once.  *)
(***************************************************************************)
RepliedAtMostOnce ==
    \A t \in Texts, part \in Parts : got[t][part] <= 1

(***************************************************************************)
(* "Agent never sees the text": the agent drafts only for texts that the   *)
(* screen has passed, and a blocked text never gets a draft.               *)
(***************************************************************************)
OnlyScreenedTextsAreDrafted ==
    \A t \in Texts :
        (\E part \in Parts : draft[t][part] # "none") => verdict[t] = "passed"

(***************************************************************************)
(* A draft marked 'sent' was delivered wherever sends are tried at all,    *)
(* which a row does not tell: without a bridge and in a dry run drafts are *)
(* marked alike.  The second welcome text is not drafted before the first  *)
(* one is settled.                                                         *)
(***************************************************************************)
DraftsTellTheTruth ==
    \A t \in Texts :
        /\ \A part \in Parts : draft[t][part] = "sent" => got[t][part] > 0 \/ ~live
        /\ draft[t]["context"] # "none" => draft[t]["congrats"] \in {"sent", "failed"}

(***************************************************************************)
(* A row left pending, or a draft left 'sending', with no task at work on  *)
(* it, has an explanation: the text was blocked or a delivery of it was    *)
(* interrupted.  Operators read stuck rows as signs of a crash.            *)
(***************************************************************************)
StuckRowsAreExplained ==
    \A t \in Texts :
        /\ (\A k \in Tasks : task[k].t # t)
        /\ \/ inbox[t] = "pending"
           \/ \E part \in Parts : draft[t][part] = "sending"
        => t \in interrupted \/ verdict[t] = "blocked"

(* The code was claimed by this text or it was recorded as a reply. *)
FromStudent(t) == claimedBy = t \/ events[t] = "student_reply"

Handled(t) ==
    IF FromStudent(t) THEN inbox[t] = "processed" \/ verdict[t] = "blocked"
                      ELSE events[t] # "none"

(***************************************************************************)
(* A delivered text is handled in the end, unless a delivery of it was     *)
(* interrupted: a student's text is answered or blocked, any other is      *)
(* recorded.  A text with what looks like an older code is lost: it gets   *)
(* neither a record nor an answer, whoever sends it.                       *)
(***************************************************************************)
DeliveredIsHandled ==
    \A t \in Texts :
        deliveries[t] > 0 ~> Handled(t) \/ t \in interrupted \union codelike

(***************************************************************************)
(* "providerEventId from the bridge is reused so dedup still works on a    *)
(* retry" (server.mjs): the text that claimed the code is not on record as *)
(* an expired pairing.  It is, where a delivery claims, breaks off before  *)
(* it records the start, and the text is delivered again.                  *)
(***************************************************************************)
ClaimingTextIsNotExpired ==
    claimedBy # None => events[claimedBy] # "pairing_expired"

=============================================================================

----------------------------- MODULE MailFolders -----------------------------
(***************************************************************************)
(* The folders of one Parrot mailbox and everything that moves or destroys *)
(* a mail in them (apps/parrot/workers: lib/inbound-email.ts, index.ts,    *)
(* durableObject/index.ts, lib/spam-purge.ts, app.ts).                     *)
(*                                                                         *)
(* Mail comes in screened: what the screen blocks goes to Spam, unless the *)
(* employee trusts its sender.  The employee moves mail, trusts its sender *)
(* and deletes it in two stages (to Trash, then for good).  A cron sweeps  *)
(* Spam of what is past its retention, about once a day.                   *)
(*                                                                         *)
(* A method of the durable object is one step.  The routes are not: they   *)
(* read the mail in one call and act on what they read in another.         *)
(***************************************************************************)
EXTENDS Naturals

CONSTANTS Letters,   \* the mails that reach this mailbox, all from one sender
          Tabs       \* requests of the employee that run at once

VARIABLES folder,    \* emails.folder_id; "absent" before, "gone" after
          intake,    \* receiveEmail of each mail
          trusted,   \* trusted_senders holds the sender
          aged,      \* the mails whose date is before now - RETENTION_DAYS
          tab,       \* the request each tab has under way
          sweep,     \* runSpamPurge: phase, and the mails older than its cutoff
          lastRun,   \* what the key spam_purge_last_run says
          crossed    \* history: mails moved out of Trash after a request read
                     \* that they were in it and before it deleted them

mailVars == <<folder, intake, trusted, aged, tab, sweep, lastRun, crossed>>

Folders == {"inbox", "archive", "spam", "trash"}
Present(m) == folder[m] \in Folders

Free == [op |-> "none"]
Job  == [op : {"delete"}, mail : Letters, sawTrash : BOOLEAN]
          \union [op : {"trust", "trusted"}, mail : Letters]

MailInit == /\ folder = [m \in Letters |-> "absent"]
            /\ intake = [m \in Letters |-> "queued"]
            /\ trusted = FALSE
            /\ aged = {}
            /\ tab = [t \in Tabs |-> Free]
            /\ sweep = [phase |-> "idle", old |-> {}]
            /\ lastRun \in {"never", "unreadable"}
            /\ crossed = {}

-----------------------------------------------------------------------------
(* Inbound mail. *)

(* The recipient is looked up, the attachments are put into R2 and the trusted
   sender (or the skip list) is asked for, before anything is screened. *)
CheckTrust(m) ==
    /\ intake[m] = "queued"
    /\ intake' = [intake EXCEPT ![m] = IF trusted THEN "clean" ELSE "unscreened"]
    /\ UNCHANGED <<folder, trusted, aged, tab, sweep, lastRun, crossed>>

(* screenMessage: flagged blocks; not flagged, or no answer within a second,
   lets the mail through. *)
Screen(m) ==
    /\ intake[m] = "unscreened"
    /\ \E verdict \in {"blocked", "clean"} :
         intake' = [intake EXCEPT ![m] = verdict]
    /\ UNCHANGED <<folder, trusted, aged, tab, sweep, lastRun, crossed>>

CreateEmail(m) ==
    /\ intake[m] \in {"blocked", "clean"}
    /\ folder' = [folder EXCEPT ![m] =
                    IF intake[m] = "blocked" THEN "spam" ELSE "inbox"]
    /\ intake' = [intake EXCEPT ![m] = "stored"]
    /\ UNCHANGED <<trusted, aged, tab, sweep, lastRun, crossed>>

(* Anything that throws is thrown again: Email Routing delivers once more, or
   gives up and bounces. *)
IntakeFails(m) ==
    /\ intake[m] \in {"queued", "unscreened", "blocked", "clean"}
    /\ \E next \in {"queued", "bounced"} :
         intake' = [intake EXCEPT ![m] = next]
    /\ UNCHANGED <<folder, trusted, aged, tab, sweep, lastRun, crossed>>

-----------------------------------------------------------------------------
(* The employee's requests. *)

(* A request of t read that m was in Trash and is about to delete it. *)
Doomed(m) == \E t \in Tabs : /\ tab[t].op = "delete"
                             /\ tab[t].mail = m
                             /\ tab[t].sawTrash

(* moveEmail: nothing happens to a mail that is no longer there. *)
MoveEmail(m, f) ==
    IF Present(m)
    THEN /\ folder' = [folder EXCEPT ![m] = f]
         /\ crossed' = IF folder[m] = "trash" /\ f # "trash" /\ Doomed(m)
                       THEN crossed \union {m} ELSE crossed
    ELSE UNCHANGED <<folder, crossed>>

MoveRoute(m, f) ==
    /\ MoveEmail(m, f)
    /\ UNCHANGED <<intake, trusted, aged, tab, sweep, lastRun>>

(* Mutant: the folder is not asked for. *)
ReadForDeleteAnywhere(t, m) ==
    /\ tab[t] = Free
    /\ Present(m)
    /\ tab' = [tab EXCEPT ![t] = [op |-> "delete", mail |-> m, sawTrash |-> TRUE]]
    /\ UNCHANGED <<folder, intake, trusted, aged, sweep, lastRun, crossed>>

(* DELETE /messages/:id: getEmail, and then the branch it decided. *)
ReadForDelete(t, m) ==
    /\ tab[t] = Free
    /\ Present(m)
    /\ tab' = [tab EXCEPT ![t] = [op |-> "delete", mail |-> m,
                                  sawTrash |-> folder[m] = "trash"]]
    /\ UNCHANGED <<folder, intake, trusted, aged, sweep, lastRun, crossed>>

MoveToTrash(t) ==
    /\ tab[t].op = "delete" /\ ~tab[t].sawTrash
    /\ MoveEmail(tab[t].mail, "trash")
    /\ tab' = [tab EXCEPT ![t] = Free]
    /\ UNCHANGED <<intake, trusted, aged, sweep, lastRun>>

(* deleteEmail asks for no folder: the row goes wherever it is by now. *)
DeleteEmail(t) ==
    /\ tab[t].op = "delete" /\ tab[t].sawTrash
    /\ folder' = [folder EXCEPT ![tab[t].mail] = "gone"]
    /\ tab' = [tab EXCEPT ![t] = Free]
    /\ UNCHANGED <<intake, trusted, aged, sweep, lastRun, crossed>>

(* POST /messages/:id/trust-sender: getEmail, trustSender, moveEmail. *)
ReadForTrust(t, m) ==
    /\ tab[t] = Free
    /\ Present(m)
    /\ tab' = [tab EXCEPT ![t] = [op |-> "trust", mail |-> m]]
    /\ UNCHANGED <<folder, intake, trusted, aged, sweep, lastRun, crossed>>

TrustSender(t) ==
    /\ tab[t].op = "trust"
    /\ trusted' = TRUE
    /\ tab' = [tab EXCEPT ![t].op = "trusted"]
    /\ UNCHANGED <<folder, intake, aged, sweep, lastRun, crossed>>

MoveTrusted(t) ==
    /\ tab[t].op = "trusted"
    /\ MoveEmail(tab[t].mail, "inbox")
    /\ tab' = [tab EXCEPT ![t] = Free]
    /\ UNCHANGED <<intake, trusted, aged, sweep, lastRun>>

-----------------------------------------------------------------------------
(* The sweep. *)

Ages(m) ==
    /\ intake[m] = "stored" /\ m \notin aged
    /\ aged' = aged \union {m}
    /\ UNCHANGED <<folder, intake, trusted, tab, sweep, lastRun, crossed>>

(* The throttle: only a timestamp that can be read and is less than a day old
   skips the sweep. *)
(* Mutant: a key never written, or not readable, skips it too. *)
RanRecentlyUnlessStale == lastRun # "stale"

RanRecently == lastRun = "recent"

StartSweep ==
    /\ sweep.phase = "idle"
    /\ ~RanRecently
    /\ sweep' = [phase |-> "purge", old |-> aged]
    /\ UNCHANGED <<folder, intake, trusted, aged, tab, lastRun, crossed>>

ListEmployeesFails ==
    /\ sweep.phase = "purge"
    /\ sweep' = [phase |-> "idle", old |-> {}]
    /\ UNCHANGED <<folder, intake, trusted, aged, tab, lastRun, crossed>>

Expired == {m \in sweep.old : folder[m] = "spam"}

PurgeExpiredSpam ==
    /\ sweep.phase = "purge"
    /\ folder' = [m \in Letters |-> IF m \in Expired THEN "gone" ELSE folder[m]]
    /\ sweep' = [sweep EXCEPT !.phase = "record"]
    /\ UNCHANGED <<intake, trusted, aged, tab, lastRun, crossed>>

(* One mailbox that fails does not stop the sweep, nor keep it from being
   recorded. *)
PurgeFails ==
    /\ sweep.phase = "purge"
    /\ sweep' = [sweep EXCEPT !.phase = "record"]
    /\ UNCHANGED <<folder, intake, trusted, aged, tab, lastRun, crossed>>

RecordSweep ==
    /\ sweep.phase = "record"
    /\ sweep' = [phase |-> "idle", old |-> {}]
    /\ lastRun' \in {"recent", lastRun}          \* put may reject: only logged
    /\ UNCHANGED <<folder, intake, trusted, aged, tab, crossed>>

DayPasses ==
    /\ lastRun = "recent"
    /\ lastRun' = "stale"
    /\ UNCHANGED <<folder, intake, trusted, aged, tab, sweep, crossed>>

-----------------------------------------------------------------------------
MailNext ==
    \/ \E m \in Letters : \/ CheckTrust(m) \/ Screen(m) \/ CreateEmail(m)
                          \/ IntakeFails(m) \/ Ages(m)
                          \/ \E f \in Folders : MoveRoute(m, f)
    \/ \E t \in Tabs : \/ MoveToTrash(t) \/ DeleteEmail(t)
                       \/ TrustSender(t) \/ MoveTrusted(t)
                       \/ \E m \in Letters : ReadForDelete(t, m) \/ ReadForTrust(t, m)
    \/ StartSweep \/ ListEmployeesFails \/ PurgeExpiredSpam \/ PurgeFails
    \/ RecordSweep \/ DayPasses

(* The cron fires every five minutes and days pass; the directory and the
   mailbox, asked again and again, answer at some point. *)
MailFairness ==
    /\ WF_mailVars(StartSweep)
    /\ SF_mailVars(PurgeExpiredSpam)
    /\ WF_mailVars(RecordSweep)
    /\ WF_mailVars(DayPasses)

MailSpec == MailInit /\ [][MailNext]_mailVars /\ MailFairness

-----------------------------------------------------------------------------
MailTypeOK ==
    /\ folder \in [Letters -> Folders \union {"absent", "gone"}]
    /\ intake \in [Letters -> {"queued", "unscreened", "blocked", "clean",
                               "stored", "bounced"}]
    /\ trusted \in BOOLEAN
    /\ aged \subseteq Letters
    /\ tab \in [Tabs -> Job \union {Free}]
    /\ sweep \in [phase : {"idle", "purge", "record"}, old : SUBSET Letters]
    /\ lastRun \in {"never", "recent", "stale", "unreadable"}
    /\ crossed \subseteq Letters

(* What makes deletion safe: a mail that some request is about to delete for
   good is in Trash, or was taken out of it under that request. *)
DoomedIsInTrash ==
    \A m \in Letters : Doomed(m) => folder[m] \in {"trash", "gone"} \/ m \in crossed

(* A mail is destroyed from Trash, or from Spam once it is past its retention,
   whatever the tabs and the sweep do at the same time; the one exception is a
   mail put back while the request that will delete it was already under way
   (deleteEmail does not look at the folder again). *)
Destroyed(m) == folder[m] # "gone" /\ folder'[m] = "gone"

DestroyedWithCause ==
    [][\A m \in Letters : Destroyed(m) =>
         \/ folder[m] = "trash"
         \/ folder[m] = "spam" /\ m \in aged
         \/ m \in crossed]_mailVars

(* Spam past its retention does not stay, even if the throttle's key was never
   written, cannot be read, or cannot be written. *)
ExpiredSpamIsPurged ==
    \A m \in Letters : (folder[m] = "spam" /\ m \in aged) ~> (folder[m] # "spam")

=============================================================================

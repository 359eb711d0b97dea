--------------------------- MODULE OfflineMentions ---------------------------
(***************************************************************************)
(* How one employee hears of mentions in the chat (apps/parrot/workers:    *)
(* durableObject/index.ts, lib/mattermost.ts, lib/mailbox.ts,              *)
(* lib/email-sender.ts, routes in index.ts).                               *)
(*                                                                         *)
(* An alarm of the employee's durable object fires every minute.  It polls *)
(* the posts of each channel since a watermark, turns mentions into rows   *)
(* of the notification drawer, and, when the employee has not been seen    *)
(* for 90 seconds and has unread mentions, mails how many there are.  An   *)
(* open chat reports the same mentions at once.  Every request of the      *)
(* employee marks them as seen.                                            *)
(*                                                                         *)
(* Other calls reach the durable object while the alarm awaits Mattermost  *)
(* or the mail, never between two awaits.  Times are sets of posts: the    *)
(* watermark is the set of posts that it leaves behind.                    *)
(***************************************************************************)
EXTENDS Naturals, FiniteSets

CONSTANTS Mentions,      \* posts that mention the employee
          Channels, ChannelOf

ASSUME MentionsAssumption == IsFiniteSet(Mentions)
ASSUME ChannelOfAssumption == ChannelOf \in [Mentions -> Channels]

VARIABLES posted,      \* posts made so far
          watermark,   \* last_mm_poll_at, as the posts that are older
          row,         \* notifications: none, unread or read, for each post
          alarm,       \* what the alarm is doing
          away,        \* last_seen_at is more than 90 seconds ago
          touching,    \* a touchLastSeen that no request waits for
          notified,    \* offline_chat_notified_count
          skipped,     \* history: posts behind the watermark, never fetched
          noticed,     \* history: posts that have had a row
          mailed,      \* history: the mentions of the last mail since the
                       \* employee was seen
          lateMark     \* history: notified was put after the employee was
                       \* seen, for a mail sent before, or not put at all

mentionVars == <<posted, watermark, row, alarm, away, touching, notified,
                 skipped, noticed, mailed, lateMark>>

Asleep == [pc |-> "asleep"]
AlarmStates ==
    [pc : {"poll"}, upTo : SUBSET Mentions, left : SUBSET Channels,
     missed : SUBSET Mentions]
      \union [pc : {"check"}]
      \union [pc : {"mail"}, count : 0..Cardinality(Mentions), seen : BOOLEAN]
      \union {Asleep}

Unread == {p \in Mentions : row[p] = "unread"}
In(c)  == {p \in Mentions : ChannelOf[p] = c}

MentionInit == /\ posted = {}
               /\ watermark = {}
               /\ row = [p \in Mentions |-> "none"]
               /\ alarm = Asleep
               /\ away \in BOOLEAN
               /\ touching = FALSE
               /\ notified = 0
               /\ skipped = {}
               /\ noticed = {}
               /\ mailed = {}
               /\ lateMark = FALSE

-----------------------------------------------------------------------------
Post(p) ==
    /\ p \notin posted
    /\ posted' = posted \union {p}
    /\ UNCHANGED <<watermark, row, alarm, away, touching, notified, skipped,
                   noticed, mailed, lateMark>>

(* addNotification: one row for each url, that is for each post. *)
AddRows(ps) ==
    /\ row' = [p \in Mentions |-> IF p \in ps /\ row[p] = "none" THEN "unread"
                                  ELSE row[p]]
    /\ noticed' = noticed \union ps

(* Requests of the employee.  requireEmployeeMailbox marks the employee as seen
   in a call of its own, which the request does not wait for. *)

(* An open chat saw the post arrive: POST /api/chat/notify. *)
Notify(p) ==
    /\ p \in posted
    /\ AddRows({p})
    /\ touching' = TRUE
    /\ UNCHANGED <<posted, watermark, alarm, away, notified, skipped, mailed,
                   lateMark>>

(* The bell and the drawer show what there is. *)
MarkRead(ps) ==
    /\ row' = [p \in Mentions |-> IF p \in ps \intersect Unread THEN "read"
                                  ELSE row[p]]
    /\ touching' = TRUE
    /\ UNCHANGED <<posted, watermark, alarm, away, notified, skipped, noticed,
                   mailed, lateMark>>

(* clearNotifications deletes the rows, and with them what the next poll would
   have recognised the post by. *)
ClearRows(ps) ==
    /\ row' = [p \in Mentions |-> IF p \in ps THEN "none" ELSE row[p]]
    /\ touching' = TRUE
    /\ UNCHANGED <<posted, watermark, alarm, away, notified, skipped, noticed,
                   mailed, lateMark>>

(* Mutant: the count of the last mail outlives the visit. *)
TouchKeepsCount ==
    /\ touching
    /\ touching' = FALSE /\ away' = FALSE
    /\ mailed' = {}
    /\ lateMark' = FALSE
    /\ alarm' = IF alarm.pc = "mail" THEN [alarm EXCEPT !.seen = TRUE] ELSE alarm
    /\ UNCHANGED <<posted, watermark, row, notified, skipped, noticed>>

(* The polling alarm is set already: initAlarm leaves it alone. *)
TouchLastSeen ==
    /\ touching
    /\ touching' = FALSE /\ away' = FALSE
    /\ notified' = 0
    /\ mailed' = {}
    /\ lateMark' = FALSE
    /\ alarm' = IF alarm.pc = "mail" THEN [alarm EXCEPT !.seen = TRUE] ELSE alarm
    /\ UNCHANGED <<posted, watermark, row, skipped, noticed>>

NinetySecondsPass ==
    /\ ~away
    /\ away' = TRUE
    /\ UNCHANGED <<posted, watermark, row, alarm, touching, notified,
                   skipped, noticed, mailed, lateMark>>

-----------------------------------------------------------------------------
(* The alarm. *)

(* The account and the channels are asked for, and only then is the time taken
   that will be the watermark. *)
StartPoll ==
    /\ alarm = Asleep
    /\ alarm' = [pc |-> "poll", upTo |-> posted, left |-> Channels, missed |-> {}]
    /\ UNCHANGED <<posted, watermark, row, away, touching, notified,
                   skipped, noticed, mailed, lateMark>>

(* No account yet, or no channels came back: the poll returns at once, the
   watermark stays and the mail is checked. *)
PollReturnsEarly ==
    /\ alarm = Asleep
    /\ alarm' = [pc |-> "check"]
    /\ UNCHANGED <<posted, watermark, row, away, touching, notified,
                   skipped, noticed, mailed, lateMark>>

(* getMmPostsSince, and for each mention the row (and a push). *)
FetchPosts(c) ==
    /\ alarm.pc = "poll" /\ c \in alarm.left
    /\ alarm' = [alarm EXCEPT !.left = @ \ {c}]
    /\ AddRows((posted \ watermark) \intersect In(c))
    /\ UNCHANGED <<posted, watermark, away, touching, notified, skipped,
                   mailed, lateMark>>

(* A refused or failed fetch is an empty list of posts. *)
FetchFails(c) ==
    /\ alarm.pc = "poll" /\ c \in alarm.left
    /\ alarm' = [alarm EXCEPT !.left = @ \ {c},
                              !.missed = @ \union (In(c) \ watermark)]
    /\ UNCHANGED <<posted, watermark, row, away, touching, notified,
                   skipped, noticed, mailed, lateMark>>

(* Mutant: the time is taken when the poll ends. *)
AdvanceWatermarkToNow ==
    /\ alarm.pc = "poll" /\ alarm.left = {}
    /\ watermark' = posted
    /\ skipped' = skipped \union ((alarm.missed \intersect alarm.upTo) \ noticed)
    /\ alarm' = [pc |-> "check"]
    /\ UNCHANGED <<posted, row, away, touching, notified, noticed, mailed,
                   lateMark>>

AdvanceWatermark ==
    /\ alarm.pc = "poll" /\ alarm.left = {}
    /\ watermark' = alarm.upTo
    /\ skipped' = skipped \union ((alarm.missed \intersect alarm.upTo) \ noticed)
    /\ alarm' = [pc |-> "check"]
    /\ UNCHANGED <<posted, row, away, touching, notified, noticed, mailed,
                   lateMark>>

(* Mutant: any backlog is mailed again. *)
HasGrownAlways == TRUE

HasGrown == Cardinality(Unread) > notified

(* maybeSendOfflineChatEmail up to the mail. *)
SendMail ==
    /\ alarm.pc = "check"
    /\ away /\ Unread # {} /\ HasGrown
    /\ alarm' = [pc |-> "mail", count |-> Cardinality(Unread), seen |-> FALSE]
    /\ mailed' = Unread
    /\ UNCHANGED <<posted, watermark, row, away, touching, notified,
                   skipped, noticed, lateMark>>

(* No mail is due, or the binding refuses it: the alarm is set again. *)
NoMail ==
    /\ alarm.pc = "check"
    /\ alarm' = Asleep
    /\ UNCHANGED <<posted, watermark, row, away, touching, notified,
                   skipped, noticed, mailed, lateMark>>

(* The mail is out: put offline_chat_notified_count, whoever has been seen
   meanwhile. *)
PutCount ==
    /\ alarm.pc = "mail"
    /\ notified' = alarm.count
    /\ lateMark' = (lateMark \/ alarm.seen)
    /\ alarm' = Asleep
    /\ UNCHANGED <<posted, watermark, row, away, touching, skipped, noticed,
                   mailed>>

(* The object is restarted, or the answer of the mail is an error although it
   went out; alarms are delivered at least once. *)
AlarmIsLost ==
    /\ alarm.pc \in {"poll", "mail"}
    /\ alarm' = Asleep
    /\ lateMark' = (lateMark \/ alarm.pc = "mail")
    /\ UNCHANGED <<posted, watermark, row, away, touching, notified,
                   skipped, noticed, mailed>>

-----------------------------------------------------------------------------
MentionNext ==
    \/ \E p \in Mentions : Post(p) \/ Notify(p)
    \/ \E ps \in SUBSET Mentions : MarkRead(ps) \/ ClearRows(ps)
    \/ TouchLastSeen \/ NinetySecondsPass
    \/ StartPoll \/ PollReturnsEarly
    \/ \E c \in Channels : FetchPosts(c) \/ FetchFails(c)
    \/ AdvanceWatermark \/ SendMail \/ NoMail \/ PutCount \/ AlarmIsLost

(* The alarm always sets itself again and what it started goes on; Mattermost
   and the mail binding, asked again and again, answer at some point; the
   object is not restarted in the middle of an alarm for ever. *)
MentionFairness ==
    /\ SF_mentionVars(StartPoll)
    /\ \A c \in Channels : WF_mentionVars(FetchPosts(c) \/ FetchFails(c))
    /\ WF_mentionVars(AdvanceWatermark)
    /\ SF_mentionVars(SendMail)
    /\ WF_mentionVars(NoMail \/ PutCount)
    /\ WF_mentionVars(TouchLastSeen)
    /\ <>[][~AlarmIsLost]_mentionVars

MentionSpec == MentionInit /\ [][MentionNext]_mentionVars /\ MentionFairness

-----------------------------------------------------------------------------
MentionTypeOK ==
    /\ posted \subseteq Mentions
    /\ watermark \subseteq posted
    /\ row \in [Mentions -> {"none", "unread", "read"}]
    /\ alarm \in AlarmStates
    /\ away \in BOOLEAN
    /\ touching \in BOOLEAN
    /\ notified \in 0..Cardinality(Mentions)
    /\ skipped \subseteq posted
    /\ noticed \subseteq posted
    /\ mailed \subseteq Mentions
    /\ lateMark \in BOOLEAN

(* The watermark passes no mention that has not been noticed, unless the fetch
   of its channel failed in that poll (getMmPostsSince answers a failure with
   no posts): what is posted while a poll runs is left to the next one. *)
OnlyFailedFetchesSkip == watermark \subseteq noticed \union skipped

(* A mail is sent for news only: some unread mention was not in the last mail,
   unless the employee was seen since, or the count of that mail was lost or put
   too late.  (The count alone is kept, so the mail before the last may have had
   them all.) *)
MailsAreNews ==
    [][SendMail => \/ ~(Unread \subseteq mailed) \/ lateMark]_mentionVars

(* An unread mention reaches an employee who stays away: it is mailed, unless
   it is read or cleared, or the count of an earlier mail was put after they
   had been seen (the mail's answer was awaited meanwhile), which hides as many
   mentions as that mail had. *)
AwayMentionsAreMailed ==
    \A p \in Mentions :
        (away /\ row[p] = "unread" /\ ~lateMark) ~>
            (~away \/ row[p] # "unread" \/ p \in mailed \/ lateMark)

=============================================================================

----------------------------- MODULE FounderTexts -----------------------------
(***************************************************************************)
(* The weekly text to the founders of a startup and their answers to it    *)
(* (apps/startup/workers: routes/scheduled.ts, routes/telnyx.ts,           *)
(* lib/resolveChannelLink.ts, lib/telnyx.ts; infra/startup-api).           *)
(*                                                                         *)
(* A cron fires once a week.  It asks startup-api which links are due, of  *)
(* a founder's phone to a startup, the longest waiting first and no more   *)
(* than a limit; texts them one after the other; and marks each.  A phone  *)
(* registered for two startups has two links.  A founder answers STOP or   *)
(* YES.  Everything is a call that may fail, and what fails is logged: the *)
(* confirmation of a STOP is sent whether or not an opt-out was recorded,  *)
(* and a link is marked whether or not the text went out.                  *)
(*                                                                         *)
(* What a reply of 1, 2 or 3 shows is left out: show_candidate takes the   *)
(* candidate at that position now, and changes nothing.  So are START and  *)
(* NO, which the classifier turns into an action that does not exist.      *)
(***************************************************************************)
EXTENDS Naturals, FiniteSets

CONSTANTS Links,       \* rows of startup_channel_links: a startup and a phone
          Phones,
          PhoneOf,     \* the phone of each link; several links may share one
          Limit,       \* how many links a run takes
          Stops,       \* the STOPs that can be in progress at once
          Yeses,       \* and the YESes
          WeekLength,  \* in ticks
          MaxDelay     \* bound: ticks by which the cron fires late

ASSUME WeekAssumption == WeekLength \in Nat \ {0}
ASSUME DelayAssumption == MaxDelay \in Nat /\ MaxDelay < WeekLength
ASSUME LinkAssumption == IsFiniteSet(Links) /\ PhoneOf \in [Links -> Phones]
ASSUME LimitAssumption == Limit \in Nat \ {0}

VARIABLES weekday,     \* ticks since Monday 14:00 UTC
          fired,       \* the cron has fired this week
          run,         \* runWeeklyTouchbase: who is left, and who is texted
          status,      \* of each link
          weekly,      \* links with opt_in_flags.weekly_touchbase
          markAge,     \* ticks since last_touchbase_at, up to LongAgo
          textAge,     \* history: ticks since its last text, up to WeekLength
          webhook,     \* the inbound texts
          told,        \* history: phones told "you're opted out", and no YES since
          late,        \* history: opted out when the run had found it due
          unrecorded,  \* history: a STOP of its phone left no trace on the link
          unmarked,    \* history: texted within a week, and then not marked
          leftOut      \* history: the subscribers whom the last run left out

founderVars == <<weekday, fired, run, status, weekly, markAge, textAge, webhook,
                 told, late, unrecorded, unmarked, leftOut>>

LongAgo == 2 * WeekLength
Nobody  == "nobody"

ASSUME NobodyAssumption == Nobody \notin Links \union Phones

NoRun   == [phase |-> "idle", due |-> {}, marking |-> Nobody]
NoText  == [st |-> "none", from |-> Nobody, link |-> Nobody]

Webhooks == Stops \union Yeses

Subscribers == {l \in weekly : status[l] = "active"}

Active(phone) == {l \in Links : PhoneOf[l] = phone /\ status[l] = "active"}

FounderInit ==
    /\ weekday = 0 /\ fired = FALSE
    /\ run = NoRun
    /\ status = [l \in Links |-> "active"]
    /\ weekly \in SUBSET Links
    /\ markAge = [l \in Links |-> LongAgo]
    /\ textAge = [l \in Links |-> WeekLength]
    /\ webhook = [w \in Webhooks |-> NoText]
    /\ told = {} /\ late = {} /\ unrecorded = {} /\ unmarked = {}
    /\ leftOut = {}

-----------------------------------------------------------------------------
(* The run. *)

(* Mutant: a fortnight. *)
DueAfterTwoWeeks == {l \in Subscribers : markAge[l] >= 2 * WeekLength}

(* Mutant: six days. *)
DueAfterSixDays == {l \in Subscribers : markAge[l] >= WeekLength - 1}

(* last_touchbase_at IS NULL OR < NOW() - INTERVAL '7 days' *)
Due == {l \in Subscribers : markAge[l] > WeekLength}

(* ORDER BY last_touchbase_at ASC NULLS FIRST LIMIT 100 *)
IsBatch(batch) ==
    /\ IF Cardinality(Due) <= Limit THEN batch = Due ELSE Cardinality(batch) = Limit
    /\ \A l \in batch, m \in Due \ batch : markAge[l] >= markAge[m]

FetchDueStartups ==
    /\ run = NoRun /\ ~fired
    /\ fired' = TRUE
    /\ \E batch \in SUBSET Due :
         /\ IsBatch(batch)
         /\ run' = [phase |-> "batch", due |-> batch, marking |-> Nobody]
         /\ leftOut' = Subscribers \ batch
    /\ UNCHANGED <<weekday, status, weekly, markAge, textAge, webhook, told, late,
                   unrecorded, unmarked>>

(* startup-api fails: nobody is texted this week. *)
FetchDueFails ==
    /\ run = NoRun /\ ~fired
    /\ fired' = TRUE
    /\ UNCHANGED <<weekday, run, status, weekly, markAge, textAge, webhook, told,
                   late, unrecorded, unmarked, leftOut>>

(* fetchFreshCandidates throws: the link is left for the next run. *)
CandidatesFail(l) ==
    /\ run.marking = Nobody /\ l \in run.due
    /\ run' = [run EXCEPT !.due = @ \ {l}]
    /\ UNCHANGED <<weekday, fired, status, weekly, markAge, textAge, webhook, told,
                   late, unrecorded, unmarked, leftOut>>

(* The candidates, the cursor and the text; sendSms never throws. *)
SendTouchbase(l) ==
    /\ run.marking = Nobody /\ l \in run.due
    /\ run' = [run EXCEPT !.due = @ \ {l}, !.marking = l]
    /\ \E sent \in BOOLEAN :
         textAge' = IF sent THEN [textAge EXCEPT ![l] = 0] ELSE textAge
    /\ UNCHANGED <<weekday, fired, status, weekly, markAge, webhook, told, late,
                   unrecorded, unmarked, leftOut>>

MarkTouchbaseSent ==
    /\ run.marking # Nobody
    /\ markAge' = [markAge EXCEPT ![run.marking] = 0]
    /\ unmarked' = unmarked \ {run.marking}
    /\ run' = [run EXCEPT !.marking = Nobody]
    /\ UNCHANGED <<weekday, fired, status, weekly, textAge, webhook, told, late,
                   unrecorded, leftOut>>

(* Mutant: the link is not looked up before the failure is noted. *)
MarkFailsUnguarded ==
    /\ run.phase = "batch"
    /\ unmarked' = unmarked \union {run.marking}
    /\ run' = [run EXCEPT !.marking = Nobody]
    /\ UNCHANGED <<weekday, fired, status, weekly, markAge, textAge, webhook, told,
                   late, unrecorded, leftOut>>

MarkFails ==
    /\ run.marking # Nobody
    /\ unmarked' = unmarked \union {run.marking}
    /\ run' = [run EXCEPT !.marking = Nobody]
    /\ UNCHANGED <<weekday, fired, status, weekly, markAge, textAge, webhook, told,
                   late, unrecorded, leftOut>>

(* The batch is done, or the worker is evicted in the middle of it. *)
RunEnds ==
    /\ run.phase = "batch"
    /\ run' = NoRun
    /\ late' = {}
    /\ unmarked' = IF run.marking = Nobody THEN unmarked
                   ELSE unmarked \union {run.marking}
    /\ UNCHANGED <<weekday, fired, status, weekly, markAge, textAge, webhook, told,
                   unrecorded, leftOut>>

(* The cron fires at most MaxDelay late, and a run ends within its week. *)
WeekTick ==
    /\ fired \/ weekday < MaxDelay
    /\ weekday = WeekLength - 1 => run = NoRun
    /\ weekday' = IF weekday = WeekLength - 1 THEN 0 ELSE weekday + 1
    /\ fired' = (fired /\ weekday' # 0)
    /\ markAge' = [l \in Links |-> IF markAge[l] < LongAgo THEN markAge[l] + 1
                                      ELSE LongAgo]
    /\ textAge' = [l \in Links |-> IF textAge[l] < WeekLength THEN textAge[l] + 1
                                      ELSE WeekLength]
    /\ unmarked' = {l \in unmarked : textAge'[l] < WeekLength}
    /\ UNCHANGED <<run, status, weekly, webhook, told, late, unrecorded, leftOut>>

-----------------------------------------------------------------------------
(* Inbound texts. *)

(* resolveChannelLink finds one of the active links of the phone (LIMIT 1); or none,
   also when the call fails.  Only that link can be opted out. *)
StopArrives(w, phone) ==
    /\ webhook[w] = NoText
    /\ \/ \E l \in Active(phone) :
            /\ webhook' = [webhook EXCEPT ![w] =
                             [st |-> "record", from |-> phone, link |-> l]]
            /\ UNCHANGED unrecorded
       \/ /\ webhook' = [webhook EXCEPT ![w] =
                           [st |-> "confirm", from |-> phone, link |-> Nobody]]
          /\ unrecorded' = unrecorded \union Active(phone)
    /\ UNCHANGED <<weekday, fired, run, status, weekly, markAge, textAge, told,
                   late, unmarked, leftOut>>

(* The other active links of the phone are left as they are. *)
OthersUnrecorded(w) ==
    unrecorded' = (unrecorded \union Active(webhook[w].from)) \ {webhook[w].link}

ToConfirm(w) ==
    webhook' = [webhook EXCEPT
                  ![w] = [st |-> "confirm", from |-> @.from, link |-> Nobody]]

(* Mutant: the flags are merged and the status is left to the row. *)
OptOutMerges(w) ==
    /\ webhook[w].st = "record"
    /\ OthersUnrecorded(w)
    /\ ToConfirm(w)
    /\ UNCHANGED <<weekday, fired, run, status, weekly, markAge, textAge, told,
                   late, unmarked, leftOut>>

(* POST /v1/channel-links with status opted_out and no flags: the conflict is on
   startup, type and phone. *)
OptOut(w) ==
    /\ webhook[w].st = "record"
    /\ status' = [status EXCEPT ![webhook[w].link] = "opted_out"]
    /\ weekly' = weekly \ {webhook[w].link}
    /\ late' = late \union ({webhook[w].link} \intersect run.due)
    /\ OthersUnrecorded(w)
    /\ ToConfirm(w)
    /\ UNCHANGED <<weekday, fired, run, markAge, textAge, told, unmarked, leftOut>>

OptOutFails(w) ==
    /\ webhook[w].st = "record"
    /\ unrecorded' = unrecorded \union Active(webhook[w].from)
    /\ ToConfirm(w)
    /\ UNCHANGED <<weekday, fired, run, status, weekly, markAge, textAge, told,
                   late, unmarked, leftOut>>

(* "you're opted out" *)
ConfirmStop(w) ==
    /\ webhook[w].st = "confirm"
    /\ told' = told \union {webhook[w].from}
    /\ webhook' = [webhook EXCEPT ![w] = NoText]
    /\ UNCHANGED <<weekday, fired, run, status, weekly, markAge, textAge, late,
                   unrecorded, unmarked, leftOut>>

(* Without an active row YES gets the invitation and changes nothing. *)
YesArrives(w, phone) ==
    /\ webhook[w] = NoText
    /\ \E l \in Active(phone) :
         webhook' = [webhook EXCEPT ![w] = [st |-> "optin", from |-> phone, link |-> l]]
    /\ told' = told \ {phone}
    /\ UNCHANGED <<weekday, fired, run, status, weekly, markAge, textAge, late,
                   unrecorded, unmarked, leftOut>>

(* PATCH .../opt-in-touchbase sets the flag of the row, whatever its status. *)
OptIn(w) ==
    /\ webhook[w].st = "optin"
    /\ \E answered \in BOOLEAN :
         weekly' = IF answered THEN weekly \union {webhook[w].link} ELSE weekly
    /\ webhook' = [webhook EXCEPT ![w] = NoText]
    /\ UNCHANGED <<weekday, fired, run, status, markAge, textAge, told, late,
                   unrecorded, unmarked, leftOut>>

-----------------------------------------------------------------------------
FounderNext ==
    \/ FetchDueStartups \/ FetchDueFails \/ MarkTouchbaseSent \/ MarkFails
    \/ RunEnds \/ WeekTick
    \/ \E l \in Links : CandidatesFail(l) \/ SendTouchbase(l)
    \/ \E w \in Stops : \/ \E p \in Phones : StopArrives(w, p)
                        \/ OptOut(w) \/ OptOutFails(w) \/ ConfirmStop(w)
    \/ \E w \in Yeses : OptIn(w) \/ \E p \in Phones : YesArrives(w, p)

FounderSpec == FounderInit /\ [][FounderNext]_founderVars

-----------------------------------------------------------------------------
FounderTypeOK ==
    /\ weekday \in 0..(WeekLength - 1)
    /\ fired \in BOOLEAN
    /\ run \in [phase : {"idle", "batch"}, due : SUBSET Links,
                marking : Links \union {Nobody}]
    /\ status \in [Links -> {"active", "opted_out"}]
    /\ weekly \subseteq Links
    /\ markAge \in [Links -> 0..LongAgo]
    /\ textAge \in [Links -> 0..WeekLength]
    /\ webhook \in [Webhooks -> [st : {"none", "record", "confirm", "optin"},
                                 from : Phones \union {Nobody},
                                 link : Links \union {Nobody}]]
    /\ told \subseteq Phones /\ late \subseteq Links
    /\ unrecorded \subseteq Links /\ unmarked \subseteq Links
    /\ leftOut \subseteq Links

(* No text goes out on a link that is opted out, to a phone that was told so,
   however STOP and YES cross each other and the run.  The exceptions: the run
   under way had already found the link due; or no STOP was recorded on it, as
   the call failed or as STOP reaches one link of a phone only. *)
StopIsRespected ==
    [][\A l \in Links :
         SendTouchbase(l) /\ PhoneOf[l] \in told => l \in late \union unrecorded]_founderVars

(* Two weekly texts on a link are at least a week apart, unless the mark of the
   first was lost. *)
TextsAreAWeekApart ==
    [][\A l \in Links :
         SendTouchbase(l) => textAge[l] >= WeekLength \/ l \in unmarked]_founderVars

(* Only the limit leaves a subscriber out of two runs in a row: the second takes
   as many links as it may, each marked at least as long ago. *)
OnlyTheLimitSkipsTwice ==
    [][\A l \in leftOut :
         FetchDueStartups /\ l \in leftOut' =>
           /\ Cardinality(run'.due) = Limit
           /\ \A m \in run'.due : markAge[m] >= markAge[l]]_founderVars

(* telnyx.ts:401, the answer to YES: "we'll text you every Monday": no run
   leaves out a subscriber. *)
TextedEveryMonday == leftOut = {}

=============================================================================

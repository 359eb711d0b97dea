---------------------------- MODULE WorkspaceProofs ----------------------------
(* Proofs about the parts that MCWorkspace puts side by side and no other module
   proves about: the weekly texts, for any links, phones, limit, inbound texts, length
   of the week and delay of the cron; the registrations, for any calls and number of
   addresses; the bubble of the Mac bridge, for any timers and answers.  Then
   about all of the parts together. *)
EXTENDS MCWorkspace, MailboxProofs, StaffProofs, TLAPS

-----------------------------------------------------------------------------
(* The weekly texts. *)

(* A text that is being handled is of a phone, and of a link when there is one to
   change; and the link being marked has left the batch. *)
TextsHaveSenders ==
    \A w \in Webhooks :
        /\ webhook[w].st # "none" => webhook[w].from \in Phones
        /\ webhook[w].st \in {"record", "optin"} => webhook[w].link \in Links

MarkedHasLeft == run.marking # Nobody => run.marking \notin run.due

(* A phone that was told of an opt-out, or is about to be, has it recorded on each
   of its links or is known not to; and a link that is texted with an opt-out on
   record had it recorded after the run asked. *)
Recorded(l) == l \in unrecorded \/ status[l] = "opted_out"

PhoneRecorded(phone) == \A l \in Links : PhoneOf[l] = phone => Recorded(l)

OptOutsAreKnown ==
    /\ \A phone \in told : PhoneRecorded(phone)
    /\ \A w \in Webhooks : webhook[w].st = "confirm" => PhoneRecorded(webhook[w].from)
    /\ \A l \in run.due : status[l] = "active" \/ l \in late

(* Within a week of a text the mark is no older than it, but while the mark is
   being written and after it was lost; and a link that is due has an old one. *)
MarkFollowsText ==
    \A l \in Links : \/ l \in unmarked \/ run.marking = l
                     \/ markAge[l] <= textAge[l] \/ textAge[l] >= WeekLength

DueIsOld == \A l \in run.due : markAge[l] > WeekLength

(* A mark that this week's run has not written is older than the week is; and the
   mark of a link that the last run left out was not written after it. *)
MarksOfTheWeek ==
    /\ ~fired => run = NoRun /\ weekday <= MaxDelay
    /\ ~fired => \A l \in Links : markAge[l] >= weekday + 1
    /\ \A l \in leftOut :
          /\ l \notin run.due /\ run.marking # l
          /\ markAge[l] >= weekday + 1
          /\ ~fired => markAge[l] >= WeekLength + weekday + 1

FounderInv ==
    /\ FounderTypeOK
    /\ TextsHaveSenders
    /\ MarkedHasLeft
    /\ OptOutsAreKnown
    /\ MarkFollowsText
    /\ DueIsOld
    /\ MarksOfTheWeek

LEMMA WeekIsNat == /\ WeekLength \in Nat /\ WeekLength >= 1 /\ MaxDelay \in Nat
                   /\ MaxDelay < WeekLength
                   /\ LongAgo = WeekLength + WeekLength /\ LongAgo \in Nat
  BY WeekAssumption, DelayAssumption DEF LongAgo

LEMMA FounderInitInv == FounderInit => FounderInv
<1> SUFFICES ASSUME FounderInit PROVE FounderInv
  OBVIOUS
<1>1. FounderTypeOK
  <2>1. /\ NoRun \in [phase : {"idle", "batch"}, due : SUBSET Links,
                      marking : Links \union {Nobody}]
        /\ NoText \in [st : {"none", "record", "confirm", "optin"},
                       from : Phones \union {Nobody}, link : Links \union {Nobody}]
    BY DEF NoRun, NoText
  <2>2. 0 \in 0..(WeekLength - 1) /\ LongAgo \in 0..LongAgo /\ WeekLength \in 0..WeekLength
    BY WeekIsNat
  <2>3. /\ markAge \in [Links -> 0..LongAgo] /\ textAge \in [Links -> 0..WeekLength]
        /\ leftOut \subseteq Links
    BY <2>2 DEF FounderInit
  <2>4. /\ weekday \in 0..(WeekLength - 1) /\ fired \in BOOLEAN
        /\ status \in [Links -> {"active", "opted_out"}]
        /\ webhook \in [Webhooks -> [st : {"none", "record", "confirm", "optin"},
                                     from : Phones \union {Nobody},
                                     link : Links \union {Nobody}]]
    BY <2>1, <2>2 DEF FounderInit
  <2> QED
    BY <2>1, <2>3, <2>4 DEF FounderInit, FounderTypeOK
<1>2. TextsHaveSenders /\ MarkedHasLeft /\ OptOutsAreKnown
  BY DEF FounderInit, TextsHaveSenders, MarkedHasLeft, OptOutsAreKnown, NoRun, NoText
<1>3. MarkFollowsText /\ DueIsOld
  BY WeekIsNat DEF FounderInit, MarkFollowsText, DueIsOld, NoRun
<1>4. MarksOfTheWeek
  BY WeekIsNat DEF FounderInit, MarksOfTheWeek
<1> QED
  BY <1>1, <1>2, <1>3, <1>4 DEF FounderInv

(* The steps of the run. *)
RunStep == \/ FetchDueStartups \/ FetchDueFails \/ MarkTouchbaseSent \/ MarkFails
           \/ RunEnds
           \/ \E l \in Links : CandidatesFail(l) \/ SendTouchbase(l)

(* The steps of the inbound texts. *)
TextStep == \E w \in Webhooks :
    \/ OptOut(w) \/ OptOutFails(w) \/ ConfirmStop(w) \/ OptIn(w)
    \/ \E p \in Phones : StopArrives(w, p) \/ YesArrives(w, p)

LEMMA FounderSteps == FounderNext => RunStep \/ TextStep \/ WeekTick
  BY DEF FounderNext, RunStep, TextStep, Webhooks

LEMMA RunTypeStep ==
    ASSUME FounderInv, RunStep
    PROVE  FounderTypeOK' /\ TextsHaveSenders' /\ MarkedHasLeft'
<1> USE WeekIsNat, NobodyAssumption
    DEF FounderInv, FounderTypeOK, TextsHaveSenders, MarkedHasLeft
<1>1. CASE FetchDueStartups
  <2>1. PICK batch \in SUBSET Due :
           /\ run' = [phase |-> "batch", due |-> batch, marking |-> Nobody]
           /\ leftOut' = Subscribers \ batch
    BY <1>1 DEF FetchDueStartups
  <2>2. Due \subseteq Links /\ Subscribers \subseteq Links
    BY DEF Due, Subscribers
  <2> QED
    BY <1>1, <2>1, <2>2 DEF FetchDueStartups
<1>2. CASE FetchDueFails
  BY <1>2 DEF FetchDueFails
<1>3. CASE MarkTouchbaseSent
  BY <1>3 DEF MarkTouchbaseSent
<1>4. CASE MarkFails
  BY <1>4 DEF MarkFails
<1>5. CASE RunEnds
  BY <1>5 DEF RunEnds, NoRun
<1>6. ASSUME NEW l \in Links, CandidatesFail(l)
      PROVE  FounderTypeOK' /\ TextsHaveSenders' /\ MarkedHasLeft'
  BY <1>6 DEF CandidatesFail
<1>7. ASSUME NEW l \in Links, SendTouchbase(l)
      PROVE  FounderTypeOK' /\ TextsHaveSenders' /\ MarkedHasLeft'
  <2>1. textAge' \in [Links -> 0..WeekLength]
    BY <1>7 DEF SendTouchbase
  <2>2. run' \in [phase : {"idle", "batch"}, due : SUBSET Links,
                 marking : Links \union {Nobody}]
    BY <1>7 DEF SendTouchbase
  <2>3. MarkedHasLeft'
    BY <1>7 DEF SendTouchbase
  <2> QED
    BY <1>7, <2>1, <2>2, <2>3 DEF SendTouchbase
<1> QED
  BY <1>1, <1>2, <1>3, <1>4, <1>5, <1>6, <1>7 DEF RunStep

LEMMA TextTypeStep ==
    ASSUME FounderInv, TextStep
    PROVE  FounderTypeOK' /\ TextsHaveSenders' /\ MarkedHasLeft'
<1> USE NobodyAssumption DEF FounderInv, FounderTypeOK, TextsHaveSenders, MarkedHasLeft
<1>1. ASSUME NEW w \in Webhooks, NEW p \in Phones, StopArrives(w, p)
      PROVE  FounderTypeOK' /\ TextsHaveSenders' /\ MarkedHasLeft'
  <2>1. Active(p) \subseteq Links
    BY DEF Active
  <2>2. unrecorded' \subseteq Links
    BY <1>1, <2>1 DEF StopArrives
  <2>3. ASSUME NEW l \in Links, webhook' = [webhook EXCEPT ![w] =
                                   [st |-> "record", from |-> p, link |-> l]]
        PROVE  FounderTypeOK' /\ TextsHaveSenders' /\ MarkedHasLeft'
    <3>1. webhook' \in [Webhooks -> [st : {"none", "record", "confirm", "optin"},
                                     from : Phones \union {Nobody},
                                     link : Links \union {Nobody}]]
      BY <2>3
    <3>2. TextsHaveSenders'
      BY <2>3
    <3> QED
      BY <1>1, <2>2, <3>1, <3>2 DEF StopArrives
  <2>4. CASE webhook' = [webhook EXCEPT ![w] =
                           [st |-> "confirm", from |-> p, link |-> Nobody]]
    <3>1. webhook' \in [Webhooks -> [st : {"none", "record", "confirm", "optin"},
                                     from : Phones \union {Nobody},
                                     link : Links \union {Nobody}]]
      BY <2>4
    <3>2. TextsHaveSenders'
      BY <2>4
    <3> QED
      BY <1>1, <2>2, <3>1, <3>2 DEF StopArrives
  <2> QED
    BY <1>1, <2>1, <2>3, <2>4 DEF StopArrives
<1>2. ASSUME NEW w \in Webhooks, NEW p \in Phones, YesArrives(w, p)
      PROVE  FounderTypeOK' /\ TextsHaveSenders' /\ MarkedHasLeft'
  <2>1. PICK l \in Links : webhook' = [webhook EXCEPT ![w] =
                              [st |-> "optin", from |-> p, link |-> l]]
    BY <1>2 DEF YesArrives, Active
  <2>2. webhook' \in [Webhooks -> [st : {"none", "record", "confirm", "optin"},
                                   from : Phones \union {Nobody},
                                   link : Links \union {Nobody}]]
    BY <2>1
  <2>3. TextsHaveSenders'
    BY <2>1
  <2> QED
    BY <1>2, <2>2, <2>3 DEF YesArrives
<1>3. ASSUME NEW w \in Webhooks, OptOut(w) \/ OptOutFails(w)
      PROVE  FounderTypeOK' /\ TextsHaveSenders' /\ MarkedHasLeft'
  <2>1. Active(webhook[w].from) \subseteq Links
    BY DEF Active
  <2>2. webhook' = [webhook EXCEPT
                      ![w] = [st |-> "confirm", from |-> webhook[w].from, link |-> Nobody]]
    BY <1>3 DEF OptOut, OptOutFails, ToConfirm
  <2>3. webhook' \in [Webhooks -> [st : {"none", "record", "confirm", "optin"},
                                   from : Phones \union {Nobody},
                                   link : Links \union {Nobody}]]
    BY <2>2
  <2>4. unrecorded' \subseteq Links /\ weekly' \subseteq Links /\ late' \subseteq Links
        /\ status' \in [Links -> {"active", "opted_out"}]
    BY <1>3, <2>1 DEF OptOut, OptOutFails, OthersUnrecorded
  <2>5. TextsHaveSenders'
    BY <1>3, <2>2 DEF OptOut, OptOutFails
  <2> QED
    BY <1>3, <2>3, <2>4, <2>5 DEF OptOut, OptOutFails
<1>5. ASSUME NEW w \in Webhooks, ConfirmStop(w)
      PROVE  FounderTypeOK' /\ TextsHaveSenders' /\ MarkedHasLeft'
  BY <1>5 DEF ConfirmStop, NoText
<1>6. ASSUME NEW w \in Webhooks, OptIn(w)
      PROVE  FounderTypeOK' /\ TextsHaveSenders' /\ MarkedHasLeft'
  BY <1>6 DEF OptIn, NoText
<1> QED
  BY <1>1, <1>2, <1>3, <1>5, <1>6 DEF TextStep

LEMMA TickTypeStep ==
    ASSUME FounderInv, WeekTick
    PROVE  FounderTypeOK' /\ TextsHaveSenders' /\ MarkedHasLeft'
<1> USE WeekIsNat DEF FounderInv, FounderTypeOK, TextsHaveSenders, MarkedHasLeft
<1>1. weekday' \in 0..(WeekLength - 1) /\ fired' \in BOOLEAN
  BY DEF WeekTick
<1>2. markAge' \in [Links -> 0..LongAgo] /\ textAge' \in [Links -> 0..WeekLength]
  BY DEF WeekTick
<1>3. unmarked' \subseteq Links
  BY DEF WeekTick
<1> QED
  BY <1>1, <1>2, <1>3 DEF WeekTick

LEMMA OptOutStep ==
    ASSUME FounderInv, [FounderNext]_founderVars
    PROVE  OptOutsAreKnown'
<1> USE DEF FounderInv, FounderTypeOK, OptOutsAreKnown, Recorded, PhoneRecorded
<1>1. CASE FetchDueStartups
  <2>1. \A l \in Due : status[l] = "active"
    BY DEF Due, Subscribers
  <2> QED
    BY <1>1, <2>1 DEF FetchDueStartups
<1>2. CASE FetchDueFails \/ MarkTouchbaseSent \/ MarkFails \/ WeekTick
  BY <1>2 DEF FetchDueFails, MarkTouchbaseSent, MarkFails, WeekTick
<1>3. CASE RunEnds
  BY <1>3 DEF RunEnds, NoRun
<1>4. ASSUME NEW l \in Links, CandidatesFail(l) \/ SendTouchbase(l)
      PROVE  OptOutsAreKnown'
  <2>1. run'.due \subseteq run.due
    BY <1>4 DEF CandidatesFail, SendTouchbase
  <2>2. UNCHANGED <<status, webhook, told, late, unrecorded>>
    BY <1>4 DEF CandidatesFail, SendTouchbase
  <2> QED
    BY <2>1, <2>2
<1>5. ASSUME NEW w \in Webhooks, NEW p \in Phones, StopArrives(w, p)
      PROVE  OptOutsAreKnown'
  <2>1. unrecorded \subseteq unrecorded' /\ UNCHANGED <<run, status, late, told>>
    BY <1>5 DEF StopArrives
  <2>2. \A l \in Links : Recorded(l) => Recorded(l)'
    BY <2>1
  <2>3. webhook'[w].st = "confirm" => webhook'[w].from = p /\ PhoneRecorded(p)'
    BY <1>5 DEF StopArrives, Active
  <2>4. \A v \in Webhooks : v # w => webhook'[v] = webhook[v]
    BY <1>5 DEF StopArrives
  <2>5. \A v \in Webhooks : (webhook[v].st = "confirm" => PhoneRecorded(webhook[v].from))'
    <3>1. ASSUME NEW v \in Webhooks, v # w, webhook'[v].st = "confirm",
                 NEW l \in Links, PhoneOf[l] = webhook'[v].from
          PROVE  Recorded(l)'
      BY <2>2, <2>4, <3>1
    <3> QED
      BY <2>3, <3>1
  <2>6. \A q \in told' : PhoneRecorded(q)'
    BY <2>1, <2>2
  <2>7. \A l \in run'.due : status'[l] = "active" \/ l \in late'
    BY <2>1
  <2> QED
    BY <2>5, <2>6, <2>7
<1>6. ASSUME NEW w \in Webhooks, NEW p \in Phones, YesArrives(w, p)
      PROVE  OptOutsAreKnown'
  <2>1. \A v \in Webhooks : webhook'[v].st = "confirm" => webhook'[v] = webhook[v]
    BY <1>6 DEF YesArrives
  <2>2. told' \subseteq told /\ UNCHANGED <<run, status, late, unrecorded>>
    BY <1>6 DEF YesArrives
  <2> QED
    BY <2>1, <2>2
<1>7. ASSUME NEW w \in Webhooks, OptOut(w) \/ OptOutFails(w)
      PROVE  OptOutsAreKnown'
  <2>1. PhoneRecorded(webhook[w].from)'
    BY <1>7 DEF OptOut, OptOutFails, OthersUnrecorded, Active, ToConfirm
  <2>2. \A l \in Links : Recorded(l) => Recorded(l)'
    BY <1>7 DEF OptOut, OptOutFails, OthersUnrecorded
  <2>3. \A v \in Webhooks : /\ webhook'[v].from = webhook[v].from
                            /\ v # w => webhook'[v].st = webhook[v].st
    BY <1>7 DEF OptOut, OptOutFails, ToConfirm
  <2>4. told' = told /\ \A l \in run'.due : status'[l] = "active" \/ l \in late'
    BY <1>7 DEF OptOut, OptOutFails
  <2>5. \A v \in Webhooks : (webhook[v].st = "confirm" => PhoneRecorded(webhook[v].from))'
    <3>1. ASSUME NEW v \in Webhooks, v # w, webhook'[v].st = "confirm",
                 NEW l \in Links, PhoneOf[l] = webhook'[v].from
          PROVE  Recorded(l)'
      BY <2>2, <2>3, <3>1
    <3>2. ASSUME webhook'[w].st = "confirm", NEW l \in Links, PhoneOf[l] = webhook'[w].from
          PROVE  Recorded(l)'
      BY <2>1, <3>2
    <3> QED
      BY <3>1, <3>2
  <2>6. \A q \in told' : PhoneRecorded(q)'
    BY <2>2, <2>4
  <2> QED
    BY <2>4, <2>5, <2>6
<1>8. ASSUME NEW w \in Webhooks, ConfirmStop(w) \/ OptIn(w)
      PROVE  OptOutsAreKnown'
  BY <1>8 DEF ConfirmStop, OptIn, NoText
<1>9. CASE UNCHANGED founderVars
  BY <1>9 DEF founderVars
<1> QED
  BY <1>1, <1>2, <1>3, <1>4, <1>5, <1>6, <1>7, <1>8, <1>9, FounderSteps
     DEF RunStep, TextStep

LEMMA MarkStep ==
    ASSUME FounderInv, [FounderNext]_founderVars
    PROVE  MarkFollowsText' /\ DueIsOld'
<1> USE WeekIsNat, NobodyAssumption
    DEF FounderInv, FounderTypeOK, MarkFollowsText, DueIsOld
<1>1. CASE FetchDueStartups
  BY <1>1 DEF FetchDueStartups, Due, NoRun
<1>2. CASE FetchDueFails
  BY <1>2 DEF FetchDueFails
<1>3. CASE MarkTouchbaseSent
  BY <1>3 DEF MarkTouchbaseSent, MarkedHasLeft
<1>4. CASE MarkFails
  BY <1>4 DEF MarkFails
<1>5. CASE RunEnds
  BY <1>5 DEF RunEnds, NoRun
<1>6. ASSUME NEW l \in Links, CandidatesFail(l)
      PROVE  MarkFollowsText' /\ DueIsOld'
  BY <1>6 DEF CandidatesFail
<1>7. ASSUME NEW l \in Links, SendTouchbase(l)
      PROVE  MarkFollowsText' /\ DueIsOld'
  <2>1. MarkFollowsText'
    BY <1>7 DEF SendTouchbase
  <2>2. DueIsOld'
    BY <1>7 DEF SendTouchbase
  <2> QED
    BY <2>1, <2>2
<1>8. CASE WeekTick
  <2>1. ASSUME NEW l \in Links
        PROVE  \/ l \in unmarked' \/ run'.marking = l
               \/ markAge'[l] <= textAge'[l] \/ textAge'[l] >= WeekLength
    <3>1. /\ markAge[l] \in 0..LongAgo /\ textAge[l] \in 0..WeekLength
          /\ markAge'[l] = IF markAge[l] < LongAgo THEN markAge[l] + 1 ELSE LongAgo
          /\ textAge'[l] = IF textAge[l] < WeekLength THEN textAge[l] + 1 ELSE WeekLength
          /\ run' = run /\ unmarked' = {m \in unmarked : textAge'[m] < WeekLength}
      BY <1>8 DEF WeekTick
    <3>2. CASE l \in unmarked
      BY <3>1, <3>2
    <3>3. CASE run.marking = l
      BY <3>1, <3>3
    <3>4. CASE markAge[l] <= textAge[l] \/ textAge[l] >= WeekLength
      BY <3>1, <3>4
    <3> QED
      BY <3>2, <3>3, <3>4
  <2>2. DueIsOld'
    BY <1>8 DEF WeekTick
  <2> QED
    BY <2>1, <2>2
<1>9. CASE TextStep
  <2>1. UNCHANGED <<run, markAge, textAge, unmarked>>
    BY <1>9 DEF TextStep, StopArrives, YesArrives, OptOut, OptOutFails, ConfirmStop, OptIn
  <2> QED
    BY <2>1
<1>10. CASE UNCHANGED founderVars
  BY <1>10 DEF founderVars
<1> QED
  BY <1>1, <1>2, <1>3, <1>4, <1>5, <1>6, <1>7, <1>8, <1>9, <1>10, FounderSteps
     DEF RunStep

LEMMA WeekStep ==
    ASSUME FounderInv, [FounderNext]_founderVars
    PROVE  MarksOfTheWeek'
<1> USE WeekIsNat, NobodyAssumption
    DEF FounderInv, FounderTypeOK, MarksOfTheWeek
<1>1. CASE FetchDueStartups
  <2>1. PICK batch \in SUBSET Due :
           /\ run' = [phase |-> "batch", due |-> batch, marking |-> Nobody]
           /\ leftOut' = Subscribers \ batch
    BY <1>1 DEF FetchDueStartups
  <2>2. fired' /\ ~fired /\ UNCHANGED <<weekday, markAge>>
    BY <1>1 DEF FetchDueStartups
  <2>3. \A l \in leftOut' : l \in Links /\ l \notin run'.due /\ run'.marking # l
    BY <2>1 DEF Subscribers
  <2> QED
    BY <2>2, <2>3
<1>2. CASE FetchDueFails
  BY <1>2 DEF FetchDueFails
<1>3. CASE MarkTouchbaseSent
  <2>1. fired
    BY <1>3 DEF MarkTouchbaseSent, NoRun
  <2> QED
    BY <1>3, <2>1 DEF MarkTouchbaseSent
<1>4. CASE MarkFails
  <2>1. fired
    BY <1>4 DEF MarkFails, NoRun
  <2> QED
    BY <1>4, <2>1 DEF MarkFails
<1>5. CASE RunEnds
  BY <1>5 DEF RunEnds, NoRun
<1>6. ASSUME NEW l \in Links, CandidatesFail(l) \/ SendTouchbase(l)
      PROVE  MarksOfTheWeek'
  <2>1. fired
    BY <1>6 DEF CandidatesFail, SendTouchbase, NoRun
  <2>2. CASE CandidatesFail(l)
    BY <2>1, <2>2 DEF CandidatesFail
  <2>3. CASE SendTouchbase(l)
    <3>1. /\ l \in run.due /\ run' = [run EXCEPT !.due = @ \ {l}, !.marking = l]
          /\ UNCHANGED <<weekday, fired, markAge, leftOut>>
      BY <2>3 DEF SendTouchbase
    <3>2. run'.due \subseteq run.due /\ run'.marking = l
      BY <3>1
    <3> QED
      BY <2>1, <3>1, <3>2
  <2> QED
    BY <1>6, <2>2, <2>3
<1>7. CASE WeekTick
  <2>1. UNCHANGED <<run, leftOut>>
    BY <1>7 DEF WeekTick
  <2>2. CASE weekday = WeekLength - 1
    <3>1. fired /\ run = NoRun /\ weekday' = 0
      BY <1>7, <2>2 DEF WeekTick
    <3>4. ~fired'
      BY <1>7, <3>1 DEF WeekTick
    <3>2. \A l \in Links : markAge'[l] >= 1
      BY <1>7 DEF WeekTick
    <3>3. \A l \in leftOut : markAge'[l] >= WeekLength + 1
      BY <1>7, <2>2 DEF WeekTick
    <3> QED
      BY <2>1, <3>1, <3>2, <3>3, <3>4 DEF NoRun
  <2>3. CASE weekday # WeekLength - 1
    <3>1. weekday' = weekday + 1 /\ (fired' <=> fired) /\ (~fired => weekday < MaxDelay)
      BY <1>7, <2>3 DEF WeekTick
    <3>2. \A l \in Links : markAge'[l] = IF markAge[l] < LongAgo THEN markAge[l] + 1
                                         ELSE LongAgo
      BY <1>7 DEF WeekTick
    <3>3. ASSUME NEW l \in Links
          PROVE  /\ markAge[l] >= weekday + 1 => markAge'[l] >= weekday' + 1
                 /\ markAge[l] >= WeekLength + weekday + 1
                      => markAge'[l] >= WeekLength + weekday' + 1
      <4>1. /\ weekday \in Nat /\ weekday + 2 <= WeekLength /\ weekday' = weekday + 1
            /\ markAge[l] \in 0..LongAgo
        BY <2>3, <3>1
      <4>2. CASE markAge[l] < LongAgo
        BY <3>2, <4>1, <4>2
      <4>3. CASE markAge[l] >= LongAgo
        <5>1. markAge'[l] = WeekLength + WeekLength
          BY <3>2, <4>1, <4>3
        <5> QED
          BY <4>1, <5>1
      <4> QED
        BY <4>1, <4>2, <4>3
    <3> QED
      BY <2>1, <3>1, <3>3
  <2> QED
    BY <2>2, <2>3
<1>8. CASE TextStep
  <2>1. UNCHANGED <<weekday, fired, run, markAge, leftOut>>
    BY <1>8 DEF TextStep, StopArrives, YesArrives, OptOut, OptOutFails, ConfirmStop, OptIn
  <2> QED
    BY <2>1
<1>9. CASE UNCHANGED founderVars
  BY <1>9 DEF founderVars
<1> QED
  BY <1>1, <1>2, <1>3, <1>4, <1>5, <1>6, <1>7, <1>8, <1>9, FounderSteps DEF RunStep

LEMMA FounderInvStep == FounderInv /\ [FounderNext]_founderVars => FounderInv'
<1> SUFFICES ASSUME FounderInv, [FounderNext]_founderVars PROVE FounderInv'
  OBVIOUS
<1>1. FounderTypeOK' /\ TextsHaveSenders' /\ MarkedHasLeft'
  <2>1. CASE UNCHANGED founderVars
    BY <2>1 DEF founderVars, FounderInv, FounderTypeOK, TextsHaveSenders, MarkedHasLeft
  <2> QED
    BY <2>1, RunTypeStep, TextTypeStep, TickTypeStep, FounderSteps
<1> QED
  BY <1>1, OptOutStep, MarkStep, WeekStep DEF FounderInv

(* The inductive invariant of the weekly texts, of which FounderTypeOK is a
   part. *)
THEOREM FounderInvIsInvariant == FounderSpec => []FounderInv
<1> QED
  BY FounderInitInv, FounderInvStep, PTL DEF FounderSpec

(* routes/scheduled.ts, startup-api due-startups: only the limit of a run leaves a
   subscriber out of two runs in a row, for any number of links, limit, length of
   the week and delay of the cron. *)
THEOREM OnlyTheLimitSkipsAnybodyTwice == FounderSpec => OnlyTheLimitSkipsTwice
<1>1. FounderInv /\ [FounderNext]_founderVars
        => [\A l \in leftOut :
              FetchDueStartups /\ l \in leftOut' =>
                /\ Cardinality(run'.due) = Limit
                /\ \A m \in run'.due : markAge[m] >= markAge[l]]_founderVars
  <2> SUFFICES ASSUME FounderInv, NEW l \in leftOut, FetchDueStartups, l \in leftOut'
               PROVE  /\ Cardinality(run'.due) = Limit
                      /\ \A m \in run'.due : markAge[m] >= markAge[l]
    OBVIOUS
  <2>1. PICK batch \in SUBSET Due :
           /\ IsBatch(batch)
           /\ run' = [phase |-> "batch", due |-> batch, marking |-> Nobody]
           /\ leftOut' = Subscribers \ batch
    BY DEF FetchDueStartups
  <2>2. l \in Links /\ markAge[l] \in 0..LongAgo /\ weekday \in 0..(WeekLength - 1)
    BY DEF FounderInv, FounderTypeOK
  <2>3. markAge[l] >= WeekLength + weekday + 1
    BY DEF FounderInv, MarksOfTheWeek, FetchDueStartups
  <2>4. l \in Due \ batch
    BY <2>1, <2>2, <2>3, WeekIsNat DEF Due
  <2>5. Cardinality(batch) = Limit
    BY <2>1, <2>4 DEF IsBatch
  <2>6. \A m \in batch : markAge[m] >= markAge[l]
    BY <2>1, <2>4 DEF IsBatch
  <2> QED
    BY <2>1, <2>5, <2>6
<1> QED
  BY <1>1, FounderInvIsInvariant, PTL DEF FounderSpec, OnlyTheLimitSkipsTwice

(* routes/telnyx.ts STOP: a link of a phone that was told so gets no weekly text,
   but where no opt-out was recorded on it or one was after the run asked. *)
THEOREM StopIsAlwaysRespected == FounderSpec => StopIsRespected
<1>1. FounderInv /\ [FounderNext]_founderVars
        => [\A l \in Links : SendTouchbase(l) /\ PhoneOf[l] \in told
              => l \in late \union unrecorded]_founderVars
  BY DEF FounderInv, OptOutsAreKnown, PhoneRecorded, Recorded, SendTouchbase
<1> QED
  BY <1>1, FounderInvIsInvariant, PTL DEF FounderSpec, StopIsRespected

(* routes/scheduled.ts: two weekly texts on a link are a week apart, but where the
   mark was lost. *)
THEOREM NoTextWithinAWeek == FounderSpec => TextsAreAWeekApart
<1>1. FounderInv /\ [FounderNext]_founderVars
        => [\A l \in Links :
              SendTouchbase(l) => textAge[l] >= WeekLength \/ l \in unmarked]_founderVars
  <2> SUFFICES ASSUME FounderInv, NEW l \in Links, SendTouchbase(l), l \notin unmarked
               PROVE  textAge[l] >= WeekLength
    OBVIOUS
  <2>1. (markAge[l] <= textAge[l] \/ textAge[l] >= WeekLength) /\ markAge[l] > WeekLength
    BY NobodyAssumption DEF FounderInv, MarkFollowsText, DueIsOld, SendTouchbase
  <2> QED
    BY <2>1, WeekIsNat DEF FounderInv, FounderTypeOK
<1> QED
  BY <1>1, FounderInvIsInvariant, PTL DEF FounderSpec, TextsAreAWeekApart

-----------------------------------------------------------------------------
(* Registering.  A call that came as far as the link has the address it asked
   for; no two startups have one; and a link is of an address that was taken. *)
PastThePatch == {"link", "ready", "done"}

AddressesAreTaken ==
    /\ \A c \in Calls : call[c] \in {"probe", "patch"} \union PastThePatch => c \in startups
    /\ \A c \in Calls : call[c] \in PastThePatch => address[c] = candidate[c]
    /\ \A c \in Calls : call[c] \in {"new", "insert", "probe", "patch"}
                          => /\ address[c] = NoAddress
                             /\ \A n \in Nat : <<c, n>> \notin links

AddressesAreUnique ==
    \A c, d \in startups : address[c] = address[d] /\ address[c] # NoAddress => c = d

LinksAreOfAddresses ==
    \A l \in links : l[1] \in startups /\ address[l[1]] = l[2] /\ l[2] # NoAddress

LinkedWhenReady ==
    /\ \A c \in Calls : call[c] \in {"ready", "done"} => <<c, candidate[c]>> \in links
    /\ \A c \in welcomed : call[c] = "done"

OnboardInv == /\ OnboardTypeOK
              /\ AddressesAreTaken
              /\ AddressesAreUnique
              /\ LinksAreOfAddresses
              /\ LinkedWhenReady

LEMMA OnboardInitInv == OnboardInit => OnboardInv
  BY DEF OnboardInit, OnboardInv, OnboardTypeOK, AddressesAreTaken, PastThePatch,
         AddressesAreUnique, LinksAreOfAddresses, LinkedWhenReady

LEMMA OnboardInvStep == OnboardInv /\ [OnboardNext]_onboardVars => OnboardInv'
<1> SUFFICES ASSUME OnboardInv, [OnboardNext]_onboardVars PROVE OnboardInv'
  OBVIOUS
<1> USE AddressAssumption
    DEF OnboardInv, OnboardTypeOK, AddressesAreTaken, PastThePatch,
        AddressesAreUnique, LinksAreOfAddresses, LinkedWhenReady, Proceed
<1>1. ASSUME NEW c \in Calls, LookForFounder(c) \/ LookupFails(c)
      PROVE  OnboardInv'
  BY <1>1 DEF LookForFounder, LookupFails
<1>2. ASSUME NEW c \in Calls, InsertStartup(c)
      PROVE  OnboardInv'
  BY <1>2 DEF InsertStartup
<1>3. ASSUME NEW c \in Calls, CheckSlug(c)
      PROVE  OnboardInv'
  BY <1>3 DEF CheckSlug
<1>4. ASSUME NEW c \in Calls, PatchAgentEmail(c)
      PROVE  OnboardInv'
  <2>1. \A s \in startups : address[s] = candidate[c] => s = c
    BY <1>4 DEF PatchAgentEmail, MayHold, Holders
  <2>2. /\ call[c] = "patch" /\ c \in startups
        /\ address' = [address EXCEPT ![c] = candidate[c]]
        /\ UNCHANGED <<candidate, startups, links, welcomed>>
        /\ call' = [call EXCEPT ![c] = "link"] \/ call' = [call EXCEPT ![c] = "failed"]
    BY <1>4 DEF PatchAgentEmail
  <2>3. OnboardTypeOK' /\ AddressesAreTaken' /\ LinkedWhenReady'
    BY <2>2
  <2>4. AddressesAreUnique'
    BY <2>1, <2>2
  <2>5. LinksAreOfAddresses'
    <3>1. \A l \in links : l = <<l[1], l[2]>> /\ l[2] \in Nat
      OBVIOUS
    <3>2. \A l \in links : l[1] # c
      BY <2>2, <3>1
    <3> QED
      BY <2>2, <3>2
  <2> QED
    BY <2>3, <2>4, <2>5
<1>5. ASSUME NEW c \in Calls, InsertLink(c)
      PROVE  OnboardInv'
  <2>1. /\ call[c] = "link" /\ c \in startups /\ address[c] = candidate[c]
        /\ candidate[c] \in Nat
        /\ links' = links \union {<<c, candidate[c]>>}
        /\ UNCHANGED <<candidate, startups, address, welcomed>>
        /\ call' = [call EXCEPT ![c] = "ready"] \/ call' = [call EXCEPT ![c] = "failed"]
    BY <1>5 DEF InsertLink
  <2>2. OnboardTypeOK' /\ AddressesAreUnique' /\ LinksAreOfAddresses' /\ LinkedWhenReady'
    BY <2>1
  <2>3. AddressesAreTaken'
    BY <2>1
  <2> QED
    BY <2>2, <2>3
<1>6. ASSUME NEW c \in Calls, CallFails(c) \/ SendWelcomeStartupEmail(c)
      PROVE  OnboardInv'
  BY <1>6 DEF CallFails, SendWelcomeStartupEmail
<1>7. CASE UNCHANGED onboardVars
  BY <1>7 DEF onboardVars
<1> QED
  BY <1>1, <1>2, <1>3, <1>4, <1>5, <1>6, <1>7 DEF OnboardNext

(* The inductive invariant of the registrations, of which OnboardTypeOK is a
   part. *)
THEOREM OnboardInvIsInvariant == OnboardSpec => []OnboardInv
<1> QED
  BY OnboardInitInv, OnboardInvStep, PTL DEF OnboardSpec

(* routes/admin.ts provisionAgentEmail: a welcomed founder's agent is reached at
   the address the welcome mail names, and nobody else is. *)
THEOREM TheWelcomedAreReachable == OnboardSpec => []WelcomedMeansReachable
<1>1. OnboardInv => WelcomedMeansReachable
  <2> SUFFICES ASSUME OnboardInv, NEW s \in welcomed
               PROVE  /\ Resolves(candidate[s], s)
                      /\ \A other \in Calls \ {s} : ~Resolves(candidate[s], other)
    BY DEF WelcomedMeansReachable
  <2> USE DEF OnboardInv, OnboardTypeOK, Resolves
  <2>1. <<s, candidate[s]>> \in links /\ s \in Calls
    BY DEF LinkedWhenReady
  <2>2. s \in startups /\ address[s] = candidate[s] /\ candidate[s] # NoAddress
    BY <2>1 DEF LinksAreOfAddresses
  <2>3. ASSUME NEW other \in Calls \ {s}, <<other, candidate[s]>> \in links
        PROVE  FALSE
    <3>1. other \in startups /\ address[other] = candidate[s]
      BY <2>3 DEF LinksAreOfAddresses
    <3> QED
      BY <2>2, <3>1 DEF AddressesAreUnique
  <2> QED
    BY <2>1, <2>3
<1> QED
  BY <1>1, OnboardInvIsInvariant, PTL

-----------------------------------------------------------------------------
(* The bubble.  But for the timers left without an entry, the entry's is the only
   one; and a waiting send() has read the entry, or it is gone, or it is that of a
   text which came meanwhile. *)
OneTimer ==
    /\ armed \subseteq {entry} \union stray
    /\ \A a \in Answers : Waiting(a) => entry \in {answer[a].pending, NoTimer} \union stray

BridgeInv == BridgeTypeOK /\ BubbleHasATimer /\ OneTimer

LEMMA BridgeInitInv == BridgeInit => BridgeInv
<1> SUFFICES ASSUME BridgeInit PROVE BridgeInv
  OBVIOUS
<1>1. Resting \in [st : {"idle", "waits", "cold"}, pending : Timers \union {NoTimer}]
  BY DEF Resting
<1>2. BridgeTypeOK
  BY <1>1 DEF BridgeInit, BridgeTypeOK
<1> QED
  BY <1>2 DEF BridgeInit, BridgeInv, BubbleHasATimer, OneTimer, Resting, Waiting

LEMMA BridgeInvStep == BridgeInv /\ [BridgeNext]_bridgeVars => BridgeInv'
<1> SUFFICES ASSUME BridgeInv, [BridgeNext]_bridgeVars PROVE BridgeInv'
  OBVIOUS
<1> USE NoTimerAssumption DEF BridgeInv, BridgeTypeOK, BubbleHasATimer, OneTimer, Waiting
<1>1. ASSUME NEW id \in Timers, HandleInbound(id)
      PROVE  BridgeInv'
  BY <1>1 DEF HandleInbound, Fresh, ClearPrior
<1>2. ASSUME NEW id \in Timers, TimerFires(id)
      PROVE  BridgeInv'
  BY <1>2 DEF TimerFires
<1>3. ASSUME NEW a \in Answers, StartSend(a)
      PROVE  BridgeInv'
  BY <1>3 DEF StartSend
<1>4. ASSUME NEW a \in Answers, SendText(a)
      PROVE  BridgeInv'
  BY <1>4 DEF SendText, Resting
<1>5. CASE Restart
  BY <1>5 DEF Restart, Resting
<1>8. CASE SendAtOnce
  BY <1>8 DEF SendAtOnce
<1>9. ASSUME NEW a \in Answers, SendCold(a) \/ ColdSendEnds(a)
      PROVE  BridgeInv'
  <2>1. PICK st \in {"idle", "cold"} :
           answer' = [answer EXCEPT ![a] = [st |-> st, pending |-> NoTimer]]
    BY <1>9 DEF SendCold, ColdSendEnds, Resting
  <2>4. answer' \in [Answers -> [st : {"idle", "waits", "cold"},
                                 pending : Timers \union {NoTimer}]]
    BY <2>1
  <2>5. \A b \in Answers : Waiting(b)' => answer'[b] = answer[b]
    BY <2>1
  <2>2. UNCHANGED <<bubble, entry, armed, stray, orphaned, socket, retry>>
    BY <1>9 DEF SendCold, ColdSendEnds
  <2>3. cached' = cached \/ cached' = TRUE
    BY <1>9 DEF SendCold, ColdSendEnds
  <2> QED
    BY <2>2, <2>3, <2>4, <2>5
<1>6. CASE ImportFails \/ Dial \/ Handshake \/ Kicked \/ Close \/ Reconnect
  <2>1. UNCHANGED <<bubble, cached, entry, armed, answer, stray, orphaned>>
    BY <1>6 DEF ImportFails, Dial, Handshake, Kicked, Close, Reconnect, typingVars
  <2>2. socket' \in {"loading", "reloading", "redialling", "none", "dialled",
                    "joined", "kicked", "closed", "given up"}
    BY <1>6 DEF ImportFails, Dial, Handshake, Kicked, Close, Reconnect
  <2>3. retry' \in BOOLEAN
    BY <1>6, Zenon DEF ImportFails, Dial, Handshake, Kicked, Close, Reconnect
  <2> QED
    BY <2>1, <2>2, <2>3
<1>7. CASE UNCHANGED bridgeVars
  BY <1>7 DEF bridgeVars, typingVars
<1> QED
  BY <1>1, <1>2, <1>3, <1>4, <1>5, <1>6, <1>7, <1>8, <1>9 DEF BridgeNext

(* The inductive invariant of the bridge: in particular a bubble that is on has
   a timer that will take it down, unless a restart left it on. *)
THEOREM BridgeInvIsInvariant == BridgeInit /\ [][BridgeNext]_bridgeVars => []BridgeInv
<1> QED
  BY BridgeInitInv, BridgeInvStep, PTL

(* listener.mjs: a bubble taken down by a timer has had its own time, but for the
   timers whose entry a waiting send() or such a timer took away. *)
THEOREM EveryBubbleHasItsTime ==
    BridgeInit /\ [][BridgeNext]_bridgeVars => BubbleHasItsTime
<1>1. BridgeInv /\ [BridgeNext]_bridgeVars
        => [\A id \in Timers : TimerFires(id) /\ bubble => id = entry \/ id \in stray]_bridgeVars
  BY DEF BridgeInv, OneTimer, TimerFires
<1> QED
  BY <1>1, BridgeInvIsInvariant, PTL DEF BubbleHasItsTime

-----------------------------------------------------------------------------
(* All of the parts.  The invariant is that of every part: the one that runs
   keeps its own, and those that rest keep theirs with their variables. *)
WorkspaceInv ==
    /\ part \in Parts
    /\ MailInv /\ SendInv /\ MentionInv /\ ChatInv
    /\ FounderInv /\ BridgeInv /\ AccessInv /\ OnboardInv

LEMMA WorkspaceInitInv == Init => WorkspaceInv
  BY MailInitInv, SendInitInv, MentionInitInv, ChatInitInv, FounderInitInv, BridgeInitInv,
     AccessInitInv, OnboardInitInv DEF Init, WorkspaceInv

(* A step of one part is a step of it or a stutter of any other. *)
LEMMA EveryPartSteps ==
    [Next]_vars => /\ [MailNext]_mailVars /\ [SendNext]_sendVars
                   /\ [MentionNext]_mentionVars /\ [ChatNext]_chatVars
                   /\ [FounderNext]_founderVars /\ [BridgeNext]_bridgeVars
                   /\ [AccessNext]_accessVars /\ [OnboardNext]_onboardVars
                   /\ part' = part
  BY DEF Next, vars, FoldersSteps, SendingSteps, MentionsSteps, ChatSteps, FoundersSteps,
         BridgeSteps, AccessSteps, OnboardingSteps

LEMMA WorkspaceInvStep == WorkspaceInv /\ [Next]_vars => WorkspaceInv'
<1> SUFFICES ASSUME WorkspaceInv, [Next]_vars PROVE WorkspaceInv'
  OBVIOUS
<1>1. MailInv' /\ SendInv' /\ MentionInv' /\ ChatInv'
  BY EveryPartSteps, MailInvStep, SendInvStep, MentionInvStep, ChatInvStep DEF WorkspaceInv
<1>2. FounderInv' /\ BridgeInv' /\ AccessInv' /\ OnboardInv'
  BY EveryPartSteps, FounderInvStep, BridgeInvStep, AccessInvStep, OnboardInvStep
     DEF WorkspaceInv
<1> QED
  BY <1>1, <1>2, EveryPartSteps DEF WorkspaceInv

(* The inductive invariant of the workspace. *)
THEOREM WorkspaceInvIsInvariant == Spec => []WorkspaceInv
<1> QED
  BY WorkspaceInitInv, WorkspaceInvStep, PTL DEF Spec

(* Type correctness of all of the parts: requests, alarms, sockets, calls and
   timers keep to their states, whatever the constants are. *)
THEOREM WorkspaceTypesAreCorrect == Spec => []WorkspaceTypeOK
<1>1. WorkspaceInv => WorkspaceTypeOK
  BY DEF WorkspaceInv, WorkspaceTypeOK, MailInv, SendInv, MentionInv, ChatInv, FounderInv,
         BridgeInv, AccessInv, OnboardInv
<1> QED
  BY <1>1, WorkspaceInvIsInvariant, PTL

(* The composition adds no behaviour to any part: what is proved of a part holds
   of the workspace. *)
THEOREM WorkspaceImplementsItsParts ==
    Spec => /\ MailInit /\ [][MailNext]_mailVars
            /\ MentionInit /\ [][MentionNext]_mentionVars
            /\ BridgeInit /\ [][BridgeNext]_bridgeVars
            /\ SendSpec /\ ChatSpec /\ FounderSpec /\ AccessSpec /\ OnboardSpec
<1>1. Init => /\ MailInit /\ SendInit /\ MentionInit /\ ChatInit
              /\ FounderInit /\ BridgeInit /\ AccessInit /\ OnboardInit
  BY DEF Init
<1> QED
  BY <1>1, EveryPartSteps, PTL
     DEF Spec, SendSpec, ChatSpec, FounderSpec, AccessSpec, OnboardSpec

(* All that the parts promise, of the workspace. *)
THEOREM WorkspaceKeepsItsPromises ==
    Spec => /\ DestroyedWithCause /\ []OverrunIsBounded
            /\ []OnlyFailedFetchesSkip /\ MailsAreNews
            /\ []RowsBelong /\ []UsersAreListed /\ []AccessEnds
            /\ OnlyTheLimitSkipsTwice /\ StopIsRespected /\ TextsAreAWeekApart
            /\ []WelcomedMeansReachable /\ BubbleHasItsTime
<1> QED
  BY WorkspaceImplementsItsParts, NothingIsDestroyedOtherwise, TheOverrunIsBounded,
     TheWatermarkSkipsNothingElse, EveryMailHasNews, EveryRowBelongs, EveryUserIsListed,
     DisabledAccessEnds, OnlyTheLimitSkipsAnybodyTwice, StopIsAlwaysRespected,
     NoTextWithinAWeek, TheWelcomedAreReachable, EveryBubbleHasItsTime

=============================================================================

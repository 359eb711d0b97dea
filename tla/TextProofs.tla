------------------------------- MODULE TextProofs -------------------------------
(* Proofs about students' texts, for any texts, tasks and number of deliveries:
   the invariant of the pipeline behind the webhook, and that it implements
   TextReplies. *)
EXTENDS StudentTexts, TLAPS

-----------------------------------------------------------------------------
(* The pipeline.  From the row of inbox on a text has one task at most, as the
   row is inserted once: that task owns the text, and what is recorded of the
   text is what the owner has done so far. *)
Past == {"screen", "load", "insert", "send", "marksent", "markfailed", "finish"}

Sending == {"insert", "send", "marksent", "markfailed"}

Owns(k, t) == task[k].t = t /\ task[k].at \in Past

PartsOf(todo) == IF todo = Welcome THEN {"congrats", "context"}
                 ELSE IF todo = <<"context">> THEN {"context"}
                 ELSE IF todo = <<"reply">> THEN {"reply"} ELSE {}

(* The parts that the owner has not sent yet. *)
Left(k) == CASE task[k].at \in {"screen", "load"}         -> Parts
             [] task[k].at \in {"insert", "send"}         -> PartsOf(task[k].todo)
             [] task[k].at \in {"marksent", "markfailed"} -> PartsOf(Tail(task[k].todo))
             [] OTHER -> {}

OwnerInv(k, t) ==
    /\ inbox[t] = "pending"
    /\ \A part \in Left(k) : got[t][part] = 0
    /\ task[k].at = "screen" => verdict[t] = "unscreened"
    /\ task[k].at # "screen" => verdict[t] = "passed"
    /\ task[k].at \in {"screen", "load"} => \A part \in Parts : draft[t][part] = "none"
    /\ task[k].at \in Sending =>
         /\ task[k].todo \in {<<"reply">>, <<"context">>, Welcome}
         /\ task[k].todo = Welcome => draft[t]["context"] = "none"
         /\ task[k].todo = <<"context">> => draft[t]["congrats"] \in {"sent", "failed"}
         /\ task[k].todo = <<"reply">> => got[t]["congrats"] = 0 /\ got[t]["context"] = 0
         /\ task[k].todo # <<"reply">> => t \in StartTexts /\ got[t]["reply"] = 0
    /\ task[k].at = "marksent" => got[t][Head(task[k].todo)] > 0 \/ ~live

Settling(k, t, part) == /\ Owns(k, t)
                        /\ task[k].at \in {"send", "marksent", "markfailed"}
                        /\ Head(task[k].todo) = part

(* What the drafts, the verdict and the phone say of each other. *)
RecordsAgree(t) ==
    /\ \A part \in Parts : got[t][part] <= 1
    /\ \A part \in Parts : draft[t][part] # "none" => verdict[t] = "passed"
    /\ \A part \in Parts : draft[t][part] = "sent" => got[t][part] > 0 \/ ~live
    /\ draft[t]["context"] # "none" => draft[t]["congrats"] \in {"sent", "failed"}

TextInv(t) ==
    /\ inbox[t] = "absent" => /\ \A part \in Parts : draft[t][part] = "none" /\ got[t][part] = 0
                              /\ verdict[t] = "unscreened"
    /\ \A k \in Tasks : Owns(k, t) => OwnerInv(k, t)
    /\ \A k, l \in Tasks : Owns(k, t) /\ Owns(l, t) => k = l
    /\ RecordsAgree(t)
    /\ inbox[t] = "pending" => \/ \E k \in Tasks : Owns(k, t)
                               \/ t \in interrupted \/ verdict[t] = "blocked"
    /\ \A part \in Parts : draft[t][part] = "sending" =>
                             \/ \E k \in Tasks : Settling(k, t, part)
                             \/ t \in interrupted

(* A task that is not idle has a text, and one that claims a START text. *)
TasksHaveTexts ==
    \A k \in Tasks : /\ task[k].at # "idle" => task[k].t \in Texts
                     /\ task[k].at = "idle" => task[k].t = None
                     /\ task[k].at = "claim" => task[k].t \in StartTexts

TextsInv == TypeOK /\ TasksHaveTexts /\ \A t \in Texts : TextInv(t)

LEMMA TodoFacts ==
    /\ Head(<<"reply">>) = "reply" /\ Tail(<<"reply">>) = <<>>
    /\ Head(<<"context">>) = "context" /\ Tail(<<"context">>) = <<>>
    /\ Head(Welcome) = "congrats" /\ Tail(Welcome) = <<"context">>
    /\ <<"reply">> # <<"context">> /\ <<"reply">> # Welcome /\ <<"context">> # Welcome
    /\ <<>> # <<"reply">> /\ <<>> # <<"context">> /\ <<>> # Welcome
<1>1. /\ Head(<<"reply">>) = "reply" /\ Tail(<<"reply">>) = <<>>
      /\ Head(<<"context">>) = "context" /\ Tail(<<"context">>) = <<>>
      /\ Head(Welcome) = "congrats" /\ Tail(Welcome) = <<"context">>
  BY DEF Welcome
<1>2. /\ Len(<<"reply">>) = 1 /\ Len(<<"context">>) = 1 /\ Len(Welcome) = 2 /\ Len(<<>>) = 0
      /\ <<"reply">>[1] = "reply" /\ <<"context">>[1] = "context"
  BY DEF Welcome
<1> QED
  BY <1>1, <1>2

LEMMA PartsFacts ==
    /\ PartsOf(<<"reply">>) = {"reply"} /\ PartsOf(<<"context">>) = {"context"}
    /\ PartsOf(Welcome) = {"congrats", "context"} /\ PartsOf(<<>>) = {}
    /\ Parts = {"reply", "congrats", "context"}
  BY TodoFacts DEF PartsOf, Parts

LEMMA TextsInitInv == Init => TextsInv
<1> SUFFICES ASSUME Init PROVE TextsInv
  OBVIOUS
<1>1. TypeOK
  <2>1. Idle \in [at : Places, t : Texts \union {None},
                  todo : {<<>>, <<"reply">>, <<"context">>, Welcome}]
    BY DEF Idle, Places
  <2>2. 0 \in 0..MaxDeliveries
    BY TextsAssumption
  <2> QED
    BY <2>1, <2>2 DEF Init, TypeOK
<1>2. \A k \in Tasks : task[k].at = "idle" /\ task[k].t = None
  BY DEF Init, Idle
<1>3. \A t \in Texts : TextInv(t)
  <2> SUFFICES ASSUME NEW t \in Texts PROVE TextInv(t)
    OBVIOUS
  <2>1. /\ inbox[t] = "absent" /\ verdict[t] = "unscreened"
        /\ \A part \in Parts : draft[t][part] = "none" /\ got[t][part] = 0
        /\ draft[t]["context"] = "none"
    BY DEF Init, Parts
  <2>2. \A k \in Tasks : ~Owns(k, t)
    BY <1>2 DEF Owns, Past
  <2> QED
    BY <2>1, <2>2 DEF TextInv, RecordsAgree
<1> QED
  BY <1>1, <1>2, <1>3 DEF TextsInv, TasksHaveTexts

-----------------------------------------------------------------------------
(* A step of one task leaves alone what is said of the texts of the others. *)
LEMMA OtherTexts ==
    ASSUME TextsInv, NEW k \in Tasks, NEW t \in Texts, t # task[k].t,
           task'[k].t # t \/ task'[k].at \notin Past,
           \A l \in Tasks : l # k => task'[l] = task[l],
           inbox'[t] = inbox[t], draft'[t] = draft[t], verdict'[t] = verdict[t],
           got'[t] = got[t], interrupted \subseteq interrupted', live' = live
    PROVE  TextInv(t)'
<1>1. \A l \in Tasks : /\ Owns(l, t)' <=> Owns(l, t)
                       /\ Owns(l, t) => task'[l] = task[l]
  BY DEF Owns
<1>2. \A l \in Tasks : Owns(l, t) => OwnerInv(l, t)'
  BY <1>1 DEF TextsInv, TextInv, OwnerInv, Left
<1>3. \A l \in Tasks, part \in Parts : Settling(l, t, part) => Settling(l, t, part)'
  BY <1>1 DEF Settling
<1> QED
  BY <1>1, <1>2, <1>3 DEF TextsInv, TextInv, RecordsAgree

(* A step of a task that owns nothing, before and after it. *)
LEMMA NoOwnerMoves ==
    ASSUME TextsInv, NEW k \in Tasks, task[k].at \notin Past, task'[k].at \notin Past,
           \A l \in Tasks : l # k => task'[l] = task[l],
           UNCHANGED <<inbox, draft, verdict, got, live>>, interrupted \subseteq interrupted'
    PROVE  \A t \in Texts : TextInv(t)'
<1> SUFFICES ASSUME NEW t \in Texts PROVE TextInv(t)'
  OBVIOUS
<1>1. \A l \in Tasks : /\ Owns(l, t)' <=> Owns(l, t)
                       /\ Owns(l, t) => task'[l] = task[l]
  BY DEF Owns
<1>2. \A l \in Tasks : Owns(l, t) => OwnerInv(l, t)'
  BY <1>1 DEF TextsInv, TextInv, OwnerInv, Left
<1>3. \A l \in Tasks, part \in Parts : Settling(l, t, part) => Settling(l, t, part)'
  BY <1>1 DEF Settling
<1> QED
  BY <1>1, <1>2, <1>3 DEF TextsInv, TextInv, RecordsAgree

(* An owner is alone. *)
LEMMA OwnerIsAlone ==
    ASSUME TextsInv, NEW k \in Tasks, task[k].at \in Past
    PROVE  /\ task[k].t \in Texts /\ OwnerInv(k, task[k].t)
           /\ \A l \in Tasks : Owns(l, task[k].t) => l = k
  BY DEF TextsInv, TextInv, TasksHaveTexts, Owns, Past

(* The owner goes on and its text's records with it; or it leaves. *)
LEMMA OwnerGoesOn ==
    ASSUME TextsInv, NEW k \in Tasks, NEW t \in Texts, t = task[k].t, task[k].at \in Past,
           \A l \in Tasks : l # k => task'[l] = task[l],
           OwnerInv(k, t)', RecordsAgree(t)', Owns(k, t)',
           \A part \in Parts : draft'[t][part] = "sending" =>
                                 Settling(k, t, part)' \/ t \in interrupted'
    PROVE  TextInv(t)'
<1>1. \A l \in Tasks : Owns(l, t)' => l = k
  BY OwnerIsAlone DEF Owns
<1>2. inbox'[t] = "pending"
  BY DEF OwnerInv
<1> QED
  BY <1>1, <1>2 DEF TextInv

LEMMA OwnerLeaves ==
    ASSUME TextsInv, NEW k \in Tasks, NEW t \in Texts, t = task[k].t, task[k].at \in Past,
           \A l \in Tasks : l # k => task'[l] = task[l],
           task'[k].at = "idle", RecordsAgree(t)',
           inbox'[t] # "absent",
           inbox'[t] = "pending" => t \in interrupted' \/ verdict'[t] = "blocked",
           \A part \in Parts : draft'[t][part] = "sending" => t \in interrupted'
    PROVE  TextInv(t)'
<1>1. \A l \in Tasks : ~Owns(l, t)'
  BY OwnerIsAlone DEF Owns, Past
<1> QED
  BY <1>1 DEF TextInv

(* An owner has no draft under way but the one it settles. *)
LEMMA SendingIsSettling ==
    ASSUME TextsInv, NEW k \in Tasks, NEW t \in Texts, t = task[k].t, task[k].at \in Past,
           NEW part \in Parts, draft[t][part] = "sending"
    PROVE  Settling(k, t, part) \/ t \in interrupted
  BY OwnerIsAlone DEF TextsInv, TextInv, Settling

-----------------------------------------------------------------------------
(* What moving a task to a place, or ending it, does to the tasks. *)
Job == [at : Places, t : Texts \union {None},
        todo : {<<>>, <<"reply">>, <<"context">>, Welcome}]

LEMMA GoMoves ==
    ASSUME TextsInv, NEW k \in Tasks, NEW place \in Places, Go(k, place)
    PROVE  /\ task' \in [Tasks -> Job]
           /\ task'[k].at = place /\ task'[k].t = task[k].t /\ task'[k].todo = task[k].todo
           /\ \A l \in Tasks : l # k => task'[l] = task[l]
<1>1. task \in [Tasks -> Job]
  BY DEF TextsInv, TypeOK, Job
<1>2. [task[k] EXCEPT !.at = place] \in Job
  BY <1>1 DEF Job
<1> QED
  BY <1>1, <1>2 DEF Go, Job

LEMMA EndMoves ==
    ASSUME TextsInv, NEW k \in Tasks, End(k)
    PROVE  /\ task' \in [Tasks -> Job]
           /\ task'[k].at = "idle" /\ task'[k].t = None
           /\ \A l \in Tasks : l # k => task'[l] = task[l]
<1>1. task \in [Tasks -> Job] /\ Idle \in Job
  BY DEF TextsInv, TypeOK, Job, Idle, Places
<1> QED
  BY <1>1 DEF End, Idle

RecordsTypeOK ==
    /\ waitlist \in BOOLEAN /\ live \in BOOLEAN
    /\ codelike \subseteq Texts \ StartTexts
    /\ claimedBy \in StartTexts \union {None} /\ expired \in BOOLEAN
    /\ events \in [Texts -> EventTypes \union {"none"}]
    /\ inbox \in [Texts -> {"absent", "pending", "processed"}]
    /\ draft \in [Texts -> [Parts -> {"none", "sending", "sent", "failed"}]]
    /\ verdict \in [Texts -> {"unscreened", "passed", "blocked"}]
    /\ got \in [Texts -> [Parts -> 0..MaxDeliveries]]
    /\ deliveries \in [Texts -> 0..MaxDeliveries]
    /\ interrupted \subseteq Texts

LEMMA TypeIsBoth == TypeOK <=> RecordsTypeOK /\ task \in [Tasks -> Job]
  BY DEF TypeOK, RecordsTypeOK, Job

LEMMA PlacesAre == \A place \in {"idle", "claim", "startevent", "pairing_expired",
           "pairing_rejected", "confirm", "dedup", "record", "unknown", "inbox", "screen",
           "load", "insert", "send", "marksent", "markfailed", "finish"} : place \in Places
  BY DEF Places, RejectedTypes

Refused(k) == \E type \in RejectedTypes : ClaimRefused(k, type)

(* Where a step of a task takes it. *)
MovesOn(k) ==
    /\ task' \in [Tasks -> Job] /\ task[k].at # "idle"
    /\ \A l \in Tasks : l # k => task'[l] = task[l]
    /\ \/ task'[k].at \notin {"idle", "claim"} /\ task'[k].t = task[k].t
       \/ task'[k].at = "idle" /\ task'[k].t = None

LEMMA StepMoves ==
    ASSUME TextsInv, NEW k \in Tasks, Step(k) \/ Interrupt(k)
    PROVE  MovesOn(k)
<1>1. ASSUME NEW place \in Places, Go(k, place), place \notin {"idle", "claim"},
             task[k].at # "idle"
      PROVE  MovesOn(k)
  BY <1>1, GoMoves DEF MovesOn
<1>2. ASSUME End(k), task[k].at # "idle"
      PROVE  MovesOn(k)
  BY <1>2, EndMoves DEF MovesOn
<1> USE PlacesAre
<1>3. CASE \/ Claim(k) \/ Refused(k) \/ StartEvent(k) \/ RejectEvent(k) \/ ConfirmCode(k)
           \/ ReplyUnknown(k)
  BY <1>1, <1>2, <1>3 DEF Claim, Refused, ClaimRefused, RejectedTypes, StartEvent, RejectEvent,
                         ConfirmCode, ReplyUnknown
<1>4. CASE Deduplicate(k) \/ Record(k) \/ WriteInbox(k)
  BY <1>1, <1>2, <1>4 DEF Deduplicate, Record, WriteInbox
<1>5. CASE \E result \in {"clean", "flagged", "unavailable"} : Screen(k, result)
  BY <1>1, <1>2, <1>5 DEF Screen
<1>6. CASE \E arrives, acked \in BOOLEAN : Send(k, arrives, acked)
  BY <1>1, <1>6 DEF Send
<1>7. CASE InsertDraft(k) \/ \E updated \in BOOLEAN : MarkSentThrows(k, updated)
  BY <1>1, <1>7 DEF InsertDraft, MarkSentThrows
<1>8. CASE Finish(k) \/ Interrupt(k)
  BY <1>2, <1>8 DEF Finish, Interrupt
<1>9. ASSUME NEW roleFound \in BOOLEAN, Load(k, roleFound)
      PROVE  MovesOn(k)
  <2> DEFINE todo == Replies(task[k].t, roleFound)
  <2>1. todo \in {<<>>, <<"reply">>, <<"context">>, Welcome}
    BY DEF Replies
  <2>2. CASE inbox[task[k].t] = "processed"
    BY <1>2, <1>9, <2>2 DEF Load
  <2>3. CASE inbox[task[k].t] # "processed"
    <3> HIDE DEF todo
    <3>1. PICK place \in {"finish", "insert"} :
            task' = [task EXCEPT ![k].todo = todo, ![k].at = place]
      BY <1>9, <2>3 DEF Load, todo
    <3>2. task \in [Tasks -> Job] /\ task[k].at # "idle"
      BY <1>9 DEF TextsInv, TypeOK, Job, Load
    <3> QED
      BY <2>1, <3>1, <3>2 DEF MovesOn, Job
  <2> QED
    BY <2>2, <2>3
<1>10. ASSUME NEW status \in {"sent", "failed"}, Settle(k, status), task[k].at \in Sending
       PROVE  MovesOn(k)
  <2>1. task \in [Tasks -> Job] /\ task[k].at # "idle"
    BY <1>10 DEF TextsInv, TypeOK, Job, Sending
  <2>2. Tail(task[k].todo) \in {<<>>, <<"reply">>, <<"context">>, Welcome}
    BY <1>10, OwnerIsAlone, TodoFacts DEF Sending, Past, OwnerInv
  <2>3. PICK place \in {"finish", "insert"} :
          task' = [task EXCEPT ![k].todo = Tail(task[k].todo), ![k].at = place]
    BY <1>10 DEF Settle
  <2> QED
    BY <2>1, <2>2, <2>3 DEF MovesOn, Job
<1>11. CASE MarkSent(k) \/ MarkFailed(k)
  BY <1>10, <1>11 DEF MarkSent, MarkFailed, Sending
<1> QED
  BY <1>3, <1>4, <1>5, <1>6, <1>7, <1>8, <1>9, <1>11 DEF Step, Refused

LEMMA MovesHaveTexts ==
    ASSUME TextsInv, NEW k \in Tasks, MovesOn(k)
    PROVE  task' \in [Tasks -> Job] /\ TasksHaveTexts'
  BY DEF TextsInv, TasksHaveTexts, MovesOn

LEMMA RecordsTypeStep ==
    ASSUME TextsInv, NEW k \in Tasks, Step(k) \/ Interrupt(k)
    PROVE  RecordsTypeOK'
<1>0. RecordsTypeOK /\ (task[k].at # "idle" => task[k].t \in Texts)
      /\ (task[k].at = "claim" => task[k].t \in StartTexts)
  BY TypeIsBoth DEF TextsInv, TasksHaveTexts
<1> USE <1>0 DEF RecordsTypeOK, code, fixed
<1>1. CASE \/ Claim(k) \/ Refused(k) \/ ConfirmCode(k) \/ Deduplicate(k) \/ ReplyUnknown(k)
           \/ Interrupt(k)
  BY <1>1 DEF Claim, Refused, ClaimRefused, ConfirmCode, Deduplicate, ReplyUnknown, Interrupt, db
<1>2. CASE StartEvent(k) \/ RejectEvent(k) \/ Record(k)
  BY <1>2 DEF StartEvent, RejectEvent, Record, RecordEvent, EventTypes, RejectedTypes
<1>3. CASE WriteInbox(k) \/ Finish(k)
  BY <1>3 DEF WriteInbox, Finish
<1>4. CASE \/ \E result \in {"clean", "flagged", "unavailable"} : Screen(k, result)
           \/ \E roleFound \in BOOLEAN : Load(k, roleFound)
  BY <1>4 DEF Screen, Load, db
<1>5. ASSUME NEW arrives \in BOOLEAN, NEW acked \in BOOLEAN, Send(k, arrives, acked)
      PROVE  RecordsTypeOK'
  <2> DEFINE t == task[k].t
             part == Head(task[k].todo)
  <2>1. t \in Texts /\ part \in Parts /\ got[t][part] = 0
    <3>1. task[k].at = "send" /\ t \in Texts /\ OwnerInv(k, t)
      BY <1>5, OwnerIsAlone DEF Send, Past
    <3>2. task[k].todo \in {<<"reply">>, <<"context">>, Welcome}
      BY <3>1 DEF Sending, OwnerInv
    <3>3. part \in Parts /\ part \in PartsOf(task[k].todo)
      BY <3>2, TodoFacts, PartsFacts
    <3> QED
      BY <3>1, <3>3 DEF OwnerInv, Left
  <2>2. (IF arrives THEN got[t][part] + 1 ELSE got[t][part]) \in 0..MaxDeliveries
    BY <2>1, TextsAssumption
  <2>3. got' \in [Texts -> [Parts -> 0..MaxDeliveries]]
    BY <1>5, <2>1, <2>2 DEF Send
  <2> QED
    BY <1>5, <2>3 DEF Send, db
<1>6. CASE \/ InsertDraft(k) \/ MarkSent(k) \/ MarkFailed(k)
           \/ \E updated \in BOOLEAN : MarkSentThrows(k, updated)
  <2>1. task[k].t \in Texts /\ Head(task[k].todo) \in Parts
    BY <1>6, OwnerIsAlone, TodoFacts, PartsFacts
       DEF InsertDraft, MarkSent, MarkFailed, MarkSentThrows, Past, Sending, OwnerInv
  <2>2. \/ draft' = draft
        \/ \E status \in {"sending", "sent", "failed"} :
             draft' = [draft EXCEPT ![task[k].t][Head(task[k].todo)] = status]
    BY <1>6 DEF InsertDraft, MarkSent, MarkFailed, MarkSentThrows, Settle
  <2>3. draft' \in [Texts -> [Parts -> {"none", "sending", "sent", "failed"}]]
    <3>1. ASSUME NEW status \in {"sending", "sent", "failed"}
          PROVE  [draft EXCEPT ![task[k].t][Head(task[k].todo)] = status]
                   \in [Texts -> [Parts -> {"none", "sending", "sent", "failed"}]]
      BY <2>1
    <3>2. CASE draft' = draft
      BY <3>2
    <3>3. ASSUME NEW status \in {"sending", "sent", "failed"},
                 draft' = [draft EXCEPT ![task[k].t][Head(task[k].todo)] = status]
          PROVE  draft' \in [Texts -> [Parts -> {"none", "sending", "sent", "failed"}]]
      BY <3>1, <3>3
    <3> QED
      BY <2>2, <3>2, <3>3
  <2> QED
    BY <1>6, <2>3 DEF InsertDraft, MarkSent, MarkFailed, MarkSentThrows, Settle
<1> QED
  BY <1>1, <1>2, <1>3, <1>4, <1>5, <1>6 DEF Step, Refused

-----------------------------------------------------------------------------
(* The owner's steps.  Each has the text's records and its own place agree. *)
LEMMA WriteInboxKeeps ==
    ASSUME TextsInv, NEW k \in Tasks, NEW t \in Texts, t = task[k].t,
           WriteInbox(k)
    PROVE  \A u \in Texts : TextInv(u)'
<1>1. t \in Texts /\ task[k].at = "inbox"
  BY DEF TextsInv, TasksHaveTexts, WriteInbox
<1>2. CASE inbox[t] # "absent"
  <2>1. End(k) /\ UNCHANGED <<inbox, draft, verdict, got, live, interrupted>>
    BY <1>2 DEF WriteInbox, fixed
  <2> QED
    BY <1>1, <2>1, EndMoves, NoOwnerMoves DEF Past
<1>3. CASE inbox[t] = "absent"
  <2>1. /\ inbox' = [inbox EXCEPT ![t] = "pending"] /\ Go(k, "screen")
        /\ UNCHANGED <<draft, verdict, got, live, interrupted>>
    BY <1>3 DEF WriteInbox, fixed
  <2>2. /\ task'[k].at = "screen" /\ task'[k].t = t
        /\ \A l \in Tasks : l # k => task'[l] = task[l]
    BY <2>1, PlacesAre, GoMoves
  <2>3. inbox'[t] = "pending" /\ \A u \in Texts : u # t => inbox'[u] = inbox[u]
    BY <1>1, <2>1 DEF TextsInv, TypeOK
  <2>4. \A u \in Texts \ {t} : TextInv(u)'
    BY <2>1, <2>2, <2>3, OtherTexts
  <2>5. \A l \in Tasks : ~Owns(l, t)
    BY <1>1, <1>3 DEF TextsInv, TextInv, OwnerInv
  <2>6. \A l \in Tasks : Owns(l, t)' <=> l = k
    BY <2>2, <2>5 DEF Owns, Past
  <2>7. /\ \A part \in Parts : draft[t][part] = "none" /\ got[t][part] = 0
        /\ verdict[t] = "unscreened"
    BY <1>1, <1>3 DEF TextsInv, TextInv
  <2>8. OwnerInv(k, t)'
    BY <2>1, <2>2, <2>3, <2>7 DEF OwnerInv, Left, Sending
  <2>9. RecordsAgree(t)'
    BY <2>1, <2>7 DEF RecordsAgree, Parts
  <2>10. TextInv(t)'
    BY <2>1, <2>3, <2>6, <2>7, <2>8, <2>9 DEF TextInv
  <2> QED
    BY <2>4, <2>10
<1> QED
  BY <1>2, <1>3

LEMMA ScreenKeeps ==
    ASSUME TextsInv, NEW k \in Tasks, NEW t \in Texts, t = task[k].t,
           NEW result \in {"clean", "flagged", "unavailable"},
           Screen(k, result)
    PROVE  \A u \in Texts : TextInv(u)'
<1>1. /\ task[k].at = "screen" /\ task[k].at \in Past /\ t \in Texts
      /\ UNCHANGED <<inbox, draft, got, live, interrupted>>
  BY DEF Screen, Past, TextsInv, TasksHaveTexts, db, fixed
<1>2. /\ OwnerInv(k, t) /\ RecordsAgree(t) /\ inbox[t] = "pending"
      /\ \A part \in Parts : draft[t][part] = "none" /\ got[t][part] = 0
  BY <1>1, OwnerIsAlone DEF OwnerInv, Left, TextsInv, TextInv
<1>3. /\ verdict'[t] = IF result = "flagged" THEN "blocked" ELSE "passed"
      /\ \A u \in Texts : u # t => verdict'[u] = verdict[u]
  BY <1>1 DEF Screen, TextsInv, TypeOK
<1>4. RecordsAgree(t)'
  BY <1>1, <1>2 DEF RecordsAgree, Parts
<1>5. CASE result = "flagged"
  <2>1. task'[k].at = "idle" /\ task'[k].t = None
        /\ \A l \in Tasks : l # k => task'[l] = task[l]
    BY <1>5, EndMoves DEF Screen
  <2>2. \A u \in Texts \ {t} : TextInv(u)'
    BY <1>1, <1>3, <2>1, OtherTexts, TextsAssumption
  <2>3. TextInv(t)'
    BY <1>1, <1>2, <1>3, <1>4, <1>5, <2>1, OwnerLeaves
  <2> QED
    BY <2>2, <2>3
<1>6. CASE result # "flagged"
  <2>1. /\ task'[k].at = "load" /\ task'[k].t = t
        /\ \A l \in Tasks : l # k => task'[l] = task[l]
    BY <1>6, PlacesAre, GoMoves DEF Screen
  <2>2. \A u \in Texts \ {t} : TextInv(u)'
    BY <1>1, <1>3, <2>1, OtherTexts
  <2>3. OwnerInv(k, t)' /\ Owns(k, t)'
    BY <1>1, <1>2, <1>3, <1>6, <2>1 DEF OwnerInv, Left, Sending, Owns, Past
  <2>4. TextInv(t)'
    BY <1>1, <1>2, <1>4, <2>1, <2>3, OwnerGoesOn
  <2> QED
    BY <2>2, <2>4
<1> QED
  BY <1>5, <1>6

LEMMA LoadKeeps ==
    ASSUME TextsInv, NEW k \in Tasks, NEW t \in Texts, t = task[k].t,
           NEW roleFound \in BOOLEAN, Load(k, roleFound)
    PROVE  \A u \in Texts : TextInv(u)'
<1> DEFINE todo == Replies(t, roleFound)
<1>1. /\ task[k].at = "load" /\ task[k].at \in Past /\ t \in Texts
      /\ UNCHANGED <<inbox, draft, verdict, got, live, interrupted>>
  BY DEF Load, Past, TextsInv, TasksHaveTexts, db, fixed
<1>2. /\ OwnerInv(k, t) /\ RecordsAgree(t) /\ inbox[t] = "pending"
      /\ verdict[t] = "passed"
      /\ \A part \in Parts : draft[t][part] = "none" /\ got[t][part] = 0
  BY <1>1, OwnerIsAlone DEF OwnerInv, Left, TextsInv, TextInv
<1>3. todo \in {<<>>, <<"reply">>, Welcome} /\ (todo = Welcome => t \in StartTexts)
  BY TodoFacts DEF Replies
<1> HIDE DEF todo
<1>4. /\ task'[k].t = t /\ task'[k].todo = todo
      /\ task'[k].at = IF todo = <<>> THEN "finish" ELSE "insert"
      /\ \A l \in Tasks : l # k => task'[l] = task[l]
  BY <1>2 DEF Load, TextsInv, TypeOK, todo
<1>5. \A u \in Texts \ {t} : TextInv(u)'
  BY <1>1, <1>4, OtherTexts
<1>6. Left(k)' \subseteq Parts
  BY <1>3, <1>4, PartsFacts DEF Left
<1>7. OwnerInv(k, t)' /\ Owns(k, t)'
  BY <1>1, <1>2, <1>3, <1>4, <1>6, TodoFacts DEF OwnerInv, Sending, Owns, Past, Parts
<1>8. RecordsAgree(t)'
  BY <1>1, <1>2 DEF RecordsAgree
<1>9. TextInv(t)'
  BY <1>1, <1>2, <1>4, <1>7, <1>8, OwnerGoesOn
<1> QED
  BY <1>5, <1>9

LEMMA SendKeeps ==
    ASSUME TextsInv, NEW k \in Tasks, NEW t \in Texts, t = task[k].t,
           NEW arrives \in BOOLEAN, NEW acked \in BOOLEAN,
           Send(k, arrives, acked)
    PROVE  \A u \in Texts : TextInv(u)'
<1> DEFINE part == Head(task[k].todo)
<1>1. /\ task[k].at = "send" /\ task[k].at \in Past /\ t \in Texts
      /\ UNCHANGED <<inbox, draft, verdict, live, interrupted>>
  BY DEF Send, Past, TextsInv, TasksHaveTexts, db, fixed
<1>2. OwnerInv(k, t) /\ RecordsAgree(t)
  BY <1>1, OwnerIsAlone DEF TextsInv, TextInv
<1>3. /\ task[k].todo \in {<<"reply">>, <<"context">>, Welcome} /\ part \in Parts
      /\ PartsOf(Tail(task[k].todo)) \subseteq PartsOf(task[k].todo) \ {part}
      /\ got[t][part] = 0
      /\ \A p \in PartsOf(task[k].todo) : got[t][p] = 0
  BY <1>1, <1>2, TodoFacts, PartsFacts DEF OwnerInv, Left, Sending
<1>4. /\ \A u \in Texts : u # t => got'[u] = got[u]
      /\ got'[t][part] = IF arrives THEN 1 ELSE 0
      /\ \A p \in Parts : p # part => got'[t][p] = got[t][p]
  BY <1>1, <1>3 DEF Send, TextsInv, TypeOK
<1>5. /\ task'[k].t = t /\ task'[k].todo = task[k].todo
      /\ task'[k].at = IF acked \/ ~live THEN "marksent" ELSE "markfailed"
      /\ \A l \in Tasks : l # k => task'[l] = task[l]
  BY PlacesAre, GoMoves DEF Send
<1>6. \A u \in Texts \ {t} : TextInv(u)'
  BY <1>1, <1>4, <1>5, OtherTexts
<1>7. \A p \in Left(k)' : got'[t][p] = 0
  <2>1. PartsOf(task[k].todo) \subseteq Parts
    BY <1>3, PartsFacts
  <2>2. Left(k)' = PartsOf(Tail(task[k].todo))
    BY <1>5 DEF Left
  <2> QED
    BY <1>3, <1>4, <2>1, <2>2
<1>8. acked \/ ~live => got'[t][part] > 0 \/ ~live
  BY <1>4 DEF Send
<1>9. OwnerInv(k, t)' /\ Owns(k, t)'
  <2>1. /\ task[k].todo = <<"reply">> => got'[t]["congrats"] = 0 /\ got'[t]["context"] = 0
        /\ task[k].todo # <<"reply">> => t \in StartTexts /\ got'[t]["reply"] = 0
    BY <1>1, <1>2, <1>3, <1>4, TodoFacts, PartsFacts DEF OwnerInv, Sending
  <2> QED
    BY <1>1, <1>2, <1>3, <1>5, <1>7, <1>8, <2>1 DEF OwnerInv, Sending, Owns, Past
<1>10. RecordsAgree(t)'
  <2>1. \A p \in Parts : draft[t][p] = "sent" => p # part \/ ~live
    BY <1>2, <1>3 DEF RecordsAgree
  <2>2. \A p \in Parts : got'[t][p] <= 1
    BY <1>2, <1>4 DEF RecordsAgree
  <2> QED
    BY <1>1, <1>2, <1>4, <2>1, <2>2 DEF RecordsAgree
<1>11. \A p \in Parts : draft'[t][p] = "sending" => Settling(k, t, p)' \/ t \in interrupted'
  BY <1>1, <1>5, <1>9, SendingIsSettling DEF Settling
<1>12. TextInv(t)'
  BY <1>1, <1>5, <1>9, <1>10, <1>11, OwnerGoesOn
<1> QED
  BY <1>6, <1>12

LEMMA InsertDraftKeeps ==
    ASSUME TextsInv, NEW k \in Tasks, NEW t \in Texts, t = task[k].t,
           InsertDraft(k)
    PROVE  \A u \in Texts : TextInv(u)'
<1> DEFINE part == Head(task[k].todo)
<1>1. /\ task[k].at = "insert" /\ task[k].at \in Past
      /\ UNCHANGED <<inbox, verdict, got, live, interrupted>>
  BY DEF InsertDraft, Past, fixed
<1>2. OwnerInv(k, t) /\ RecordsAgree(t) /\ verdict[t] = "passed"
  BY <1>1, OwnerIsAlone DEF TextsInv, TextInv, OwnerInv
<1>3. /\ task[k].todo \in {<<"reply">>, <<"context">>, Welcome} /\ part \in Parts
      /\ part = "reply" <=> task[k].todo = <<"reply">>
      /\ part = "context" <=> task[k].todo = <<"context">>
      /\ part = "congrats" <=> task[k].todo = Welcome
  BY <1>1, <1>2, TodoFacts, PartsFacts DEF OwnerInv, Sending
<1>4. /\ \A u \in Texts : u # t => draft'[u] = draft[u]
      /\ draft'[t][part] = "sending"
      /\ \A p \in Parts : p # part => draft'[t][p] = draft[t][p]
  BY <1>3 DEF InsertDraft, TextsInv, TypeOK
<1>5. /\ task'[k].t = t /\ task'[k].todo = task[k].todo /\ task'[k].at = "send"
      /\ \A l \in Tasks : l # k => task'[l] = task[l]
  BY PlacesAre, GoMoves DEF InsertDraft
<1>6. \A u \in Texts \ {t} : TextInv(u)'
  BY <1>1, <1>4, <1>5, OtherTexts
<1>7. \A p \in Left(k)' : got'[t][p] = 0
  BY <1>1, <1>2, <1>5 DEF OwnerInv, Left
<1>8. /\ task[k].todo = Welcome => draft'[t]["context"] = "none"
      /\ task[k].todo = <<"context">> => draft'[t]["congrats"] \in {"sent", "failed"}
  BY <1>1, <1>2, <1>3, <1>4, TodoFacts DEF OwnerInv, Sending, Parts
<1>9. OwnerInv(k, t)' /\ Owns(k, t)'
  BY <1>1, <1>2, <1>3, <1>5, <1>7, <1>8 DEF OwnerInv, Sending, Owns, Past
<1>10. RecordsAgree(t)'
  <2>1. draft'[t]["context"] # "none" => draft'[t]["congrats"] \in {"sent", "failed"}
    BY <1>2, <1>3, <1>4, <1>8 DEF RecordsAgree, Parts
  <2> QED
    BY <1>1, <1>2, <1>4, <2>1 DEF RecordsAgree
<1>11. \A p \in Parts : draft'[t][p] = "sending" => Settling(k, t, p)' \/ t \in interrupted'
  BY <1>1, <1>4, <1>5, <1>9, SendingIsSettling DEF Settling
<1>12. TextInv(t)'
  BY <1>1, <1>5, <1>9, <1>10, <1>11, OwnerGoesOn
<1> QED
  BY <1>6, <1>12

LEMMA SettleKeeps ==
    ASSUME TextsInv, NEW k \in Tasks, NEW t \in Texts, t = task[k].t,
           NEW status \in {"sent", "failed"}, Settle(k, status),
           \/ task[k].at = "marksent"
           \/ task[k].at = "markfailed" /\ status = "failed"
    PROVE  \A u \in Texts : TextInv(u)'
<1> DEFINE part == Head(task[k].todo)
           rest == Tail(task[k].todo)
<1>1. /\ task[k].at \in Sending /\ task[k].at \in Past
      /\ UNCHANGED <<inbox, verdict, got, live, interrupted>>
  BY DEF Settle, Past, Sending, fixed
<1>2. OwnerInv(k, t) /\ RecordsAgree(t) /\ verdict[t] = "passed"
  BY <1>1, OwnerIsAlone DEF TextsInv, TextInv, OwnerInv, Sending
<1>3. /\ task[k].todo \in {<<"reply">>, <<"context">>, Welcome} /\ part \in Parts
      /\ part = "reply" <=> task[k].todo = <<"reply">>
      /\ part = "context" <=> task[k].todo = <<"context">>
      /\ part = "congrats" <=> task[k].todo = Welcome
      /\ rest = IF task[k].todo = Welcome THEN <<"context">> ELSE <<>>
  BY <1>1, <1>2, TodoFacts, PartsFacts DEF OwnerInv
<1> HIDE DEF part, rest
<1>4. /\ \A u \in Texts : u # t => draft'[u] = draft[u]
      /\ draft'[t][part] = status
      /\ \A p \in Parts : p # part => draft'[t][p] = draft[t][p]
  BY <1>3 DEF Settle, TextsInv, TypeOK, part
<1>5. /\ task'[k].t = t /\ task'[k].todo = rest
      /\ task'[k].at = IF rest = <<>> THEN "finish" ELSE "insert"
      /\ \A l \in Tasks : l # k => task'[l] = task[l]
  BY DEF Settle, TextsInv, TypeOK, rest
<1>6. \A u \in Texts \ {t} : TextInv(u)'
  BY <1>1, <1>4, <1>5, OtherTexts
<1>7. \A p \in Left(k)' : got'[t][p] = 0
  <2>1. Left(k)' \subseteq PartsOf(rest)
    BY <1>3, <1>5, PartsFacts DEF Left
  <2>2. \A p \in PartsOf(rest) : got[t][p] = 0
    BY <1>1, <1>2 DEF OwnerInv, Left, Sending, rest
  <2> QED
    BY <1>1, <2>1, <2>2
<1>8. status = "sent" => got[t][part] > 0 \/ ~live
  BY <1>2 DEF OwnerInv, part
<1>9. OwnerInv(k, t)' /\ Owns(k, t)'
  <2>1. CASE task[k].todo = Welcome
    BY <1>1, <1>2, <1>3, <1>4, <1>5, <1>7, <2>1, TodoFacts
       DEF OwnerInv, Sending, Owns, Past, Parts
  <2>2. CASE task[k].todo # Welcome
    BY <1>1, <1>2, <1>3, <1>4, <1>5, <1>7, <2>2, TodoFacts
       DEF OwnerInv, Sending, Owns, Past
  <2> QED
    BY <2>1, <2>2
<1>10. RecordsAgree(t)'
  <2>1. draft'[t]["context"] # "none" => draft'[t]["congrats"] \in {"sent", "failed"}
    BY <1>1, <1>2, <1>3, <1>4 DEF RecordsAgree, OwnerInv, Parts
  <2> QED
    BY <1>1, <1>2, <1>3, <1>4, <1>8, <2>1 DEF RecordsAgree
<1>11. \A p \in Parts : draft'[t][p] = "sending" => Settling(k, t, p)' \/ t \in interrupted'
  BY <1>1, <1>4, SendingIsSettling DEF Settling, part
<1>12. TextInv(t)'
  BY <1>1, <1>5, <1>9, <1>10, <1>11, OwnerGoesOn
<1> QED
  BY <1>6, <1>12

LEMMA MarkSentThrowsKeeps ==
    ASSUME TextsInv, NEW k \in Tasks, NEW t \in Texts, t = task[k].t,
           NEW updated \in BOOLEAN, MarkSentThrows(k, updated)
    PROVE  \A u \in Texts : TextInv(u)'
<1> DEFINE part == Head(task[k].todo)
<1>1. /\ task[k].at = "marksent" /\ task[k].at \in Past
      /\ UNCHANGED <<inbox, verdict, got, live, interrupted>>
      /\ updated => part = "reply"
  BY DEF MarkSentThrows, Past, fixed
<1>2. /\ OwnerInv(k, t) /\ RecordsAgree(t) /\ verdict[t] = "passed"
      /\ got[t][part] > 0 \/ ~live
  BY <1>1, OwnerIsAlone DEF TextsInv, TextInv, OwnerInv
<1>3. task[k].todo \in {<<"reply">>, <<"context">>, Welcome} /\ part \in Parts
  BY <1>1, <1>2, TodoFacts, PartsFacts DEF OwnerInv, Sending
<1>4. /\ \A u \in Texts : u # t => draft'[u] = draft[u]
      /\ \A p \in Parts : \/ draft'[t][p] = draft[t][p]
                          \/ p = "reply" /\ p = part /\ draft'[t][p] = "sent"
  BY <1>1, <1>3 DEF MarkSentThrows, TextsInv, TypeOK
<1>5. /\ task'[k].t = t /\ task'[k].todo = task[k].todo /\ task'[k].at = "markfailed"
      /\ \A l \in Tasks : l # k => task'[l] = task[l]
  BY PlacesAre, GoMoves DEF MarkSentThrows
<1>6. \A u \in Texts \ {t} : TextInv(u)'
  BY <1>1, <1>4, <1>5, OtherTexts
<1>7. \A p \in Left(k)' : got'[t][p] = 0
  BY <1>1, <1>2, <1>5 DEF OwnerInv, Left
<1>8. draft'[t]["context"] = draft[t]["context"] /\ draft'[t]["congrats"] = draft[t]["congrats"]
  BY <1>4 DEF Parts
<1>9. OwnerInv(k, t)' /\ Owns(k, t)'
  BY <1>1, <1>2, <1>3, <1>5, <1>7, <1>8 DEF OwnerInv, Sending, Owns, Past
<1>10. RecordsAgree(t)'
  BY <1>1, <1>2, <1>4, <1>8 DEF RecordsAgree
<1>11. \A p \in Parts : draft'[t][p] = "sending" => Settling(k, t, p)' \/ t \in interrupted'
  BY <1>1, <1>4, <1>5, <1>9, SendingIsSettling DEF Settling
<1>12. TextInv(t)'
  BY <1>1, <1>5, <1>9, <1>10, <1>11, OwnerGoesOn
<1> QED
  BY <1>6, <1>12

(* The owner finishes or is interrupted. *)
LEMMA LeavingKeeps ==
    ASSUME TextsInv, NEW k \in Tasks, NEW t \in Texts, t = task[k].t,
           Finish(k) \/ (Interrupt(k) /\ task[k].at \in Past)
    PROVE  \A u \in Texts : TextInv(u)'
<1>1. /\ task[k].at \in Past /\ End(k)
      /\ UNCHANGED <<draft, verdict, got, live>> /\ interrupted \subseteq interrupted'
      /\ t \in interrupted' \/ task[k].at = "finish"
      /\ inbox' = inbox \/ inbox' = [inbox EXCEPT ![t] = "processed"]
      /\ inbox'[t] = "processed" \/ t \in interrupted'
  BY DEF Finish, Interrupt, Past, db, fixed, TextsInv, TypeOK
<1>2. /\ task'[k].at = "idle" /\ task'[k].t = None
      /\ \A l \in Tasks : l # k => task'[l] = task[l]
  BY <1>1, EndMoves
<1>3. inbox[t] = "pending" /\ RecordsAgree(t)
  BY <1>1, OwnerIsAlone DEF OwnerInv, TextsInv, TextInv
<1>4. inbox'[t] # "absent" /\ \A u \in Texts : u # t => inbox'[u] = inbox[u]
  BY <1>1, <1>3 DEF TextsInv, TypeOK
<1>5. \A u \in Texts \ {t} : TextInv(u)'
  BY <1>1, <1>2, <1>4, OtherTexts, TextsAssumption
<1>6. RecordsAgree(t)'
  BY <1>1, <1>3 DEF RecordsAgree
<1>7. \A p \in Parts : draft'[t][p] = "sending" => t \in interrupted'
  BY <1>1, SendingIsSettling DEF Settling
<1>8. TextInv(t)'
  BY <1>1, <1>2, <1>4, <1>6, <1>7, OwnerLeaves
<1> QED
  BY <1>5, <1>8

-----------------------------------------------------------------------------
LEMMA TextsInvStep == TextsInv /\ [Next]_vars => TextsInv'
<1> SUFFICES ASSUME TextsInv, [Next]_vars PROVE TextsInv'
  OBVIOUS
<1>1. ASSUME NEW k \in Tasks, NEW t \in Texts, Deliver(k, t)
      PROVE  TextsInv'
  <2>1. /\ task[k].at = "idle" /\ task'[k].t = t
        /\ task'[k].at = Branch(t)
        /\ task'[k].todo = <<>>
        /\ \A l \in Tasks : l # k => task'[l] = task[l]
        /\ UNCHANGED <<db, fixed, verdict, got, interrupted>>
    BY <1>1 DEF Deliver, Idle, TextsInv, TypeOK
  <2>2. task' \in [Tasks -> Job]
    <3>1. [Idle EXCEPT !.t = t, !.at = Branch(t)] \in Job
      BY PlacesAre DEF Idle, Job, Branch
    <3> QED
      BY <1>1, <3>1, TypeIsBoth DEF Deliver, TextsInv
  <2>3. RecordsTypeOK'
    <3>1. deliveries[t] + 1 \in 0..MaxDeliveries /\ RecordsTypeOK
      BY <1>1, TypeIsBoth, TextsAssumption DEF Deliver, TextsInv, RecordsTypeOK
    <3>2. deliveries' \in [Texts -> 0..MaxDeliveries]
      BY <1>1, <3>1 DEF Deliver, RecordsTypeOK
    <3> QED
      BY <2>1, <3>1, <3>2 DEF RecordsTypeOK, db, code, fixed
  <2>4. TasksHaveTexts'
    BY <2>1 DEF TextsInv, TasksHaveTexts, Branch
  <2>5. \A u \in Texts : TextInv(u)'
    BY <2>1, NoOwnerMoves DEF db, fixed, Past, Branch
  <2> QED
    BY <2>2, <2>3, <2>4, <2>5 DEF TextsInv, TypeOK, RecordsTypeOK, Job
<1>2. ASSUME NEW k \in Tasks, Step(k) \/ Interrupt(k)
      PROVE  TextsInv'
  <2>1. TypeOK' /\ TasksHaveTexts'
    BY <1>2, StepMoves, MovesHaveTexts, RecordsTypeStep DEF TypeOK, RecordsTypeOK, Job
  <2>2. MovesOn(k)
    BY <1>2, StepMoves
  <2>3. PICK t \in Texts : t = task[k].t
    BY <2>2 DEF MovesOn, TextsInv, TasksHaveTexts
  <2>4. ASSUME \/ Claim(k) \/ Refused(k) \/ StartEvent(k) \/ RejectEvent(k)
               \/ ConfirmCode(k) \/ Deduplicate(k) \/ Record(k) \/ ReplyUnknown(k)
               \/ Interrupt(k) /\ task[k].at \notin Past
        PROVE  \A u \in Texts : TextInv(u)'
    <3>1. /\ task[k].at \notin Past /\ UNCHANGED <<inbox, draft, verdict, got, live>>
          /\ interrupted \subseteq interrupted'
      BY <2>4 DEF Claim, Refused, ClaimRefused, StartEvent, RejectEvent, ConfirmCode,
                  Deduplicate, Record, ReplyUnknown, Interrupt, db, fixed, Past, RejectedTypes
    <3>2. task'[k].at \notin Past
      <4>1. ASSUME NEW place \in {"startevent", "pairing_expired", "pairing_rejected",
                                 "inbox", "record", "unknown"},
                   Go(k, place)
            PROVE  task'[k].at \notin Past
        BY <4>1, PlacesAre, GoMoves DEF Past
      <4>2. ASSUME End(k)
            PROVE  task'[k].at \notin Past
        BY <4>2, EndMoves DEF Past
      <4> QED
        BY <2>4, <4>1, <4>2
           DEF Claim, Refused, ClaimRefused, RejectedTypes, StartEvent, RejectEvent,
               ConfirmCode, Deduplicate, Record, ReplyUnknown, Interrupt
    <3> QED
      BY <2>2, <3>1, <3>2, NoOwnerMoves DEF MovesOn
  <2>5. ASSUME WriteInbox(k)
        PROVE  \A u \in Texts : TextInv(u)'
    BY <2>3, <2>5, WriteInboxKeeps
  <2>6. ASSUME \E result \in {"clean", "flagged", "unavailable"} : Screen(k, result)
        PROVE  \A u \in Texts : TextInv(u)'
    BY <2>3, <2>6, ScreenKeeps
  <2>7. ASSUME \E roleFound \in BOOLEAN : Load(k, roleFound)
        PROVE  \A u \in Texts : TextInv(u)'
    BY <2>3, <2>7, LoadKeeps
  <2>8. ASSUME InsertDraft(k)
        PROVE  \A u \in Texts : TextInv(u)'
    BY <2>3, <2>8, InsertDraftKeeps
  <2>9. ASSUME \E arrives, acked \in BOOLEAN : Send(k, arrives, acked)
        PROVE  \A u \in Texts : TextInv(u)'
    BY <2>3, <2>9, SendKeeps
  <2>10. ASSUME MarkSent(k) \/ MarkFailed(k)
         PROVE  \A u \in Texts : TextInv(u)'
    BY <2>3, <2>10, SettleKeeps DEF MarkSent, MarkFailed
  <2>11. ASSUME \E updated \in BOOLEAN : MarkSentThrows(k, updated)
         PROVE  \A u \in Texts : TextInv(u)'
    BY <2>3, <2>11, MarkSentThrowsKeeps
  <2>12. ASSUME Finish(k) \/ (Interrupt(k) /\ task[k].at \in Past)
         PROVE  \A u \in Texts : TextInv(u)'
    BY <2>3, <2>12, LeavingKeeps
  <2>13. \A u \in Texts : TextInv(u)'
    BY <1>2, <2>4, <2>5, <2>6, <2>7, <2>8, <2>9, <2>10, <2>11, <2>12
       DEF Step, Refused
  <2> QED
    BY <2>1, <2>13 DEF TextsInv
<1>3. CASE UNCHANGED vars
  BY <1>3 DEF vars, db, code, fixed, TextsInv, TypeOK, TasksHaveTexts, TextInv, RecordsAgree, Owns,
              OwnerInv, Left, Settling
<1> QED
  BY <1>1, <1>2, <1>3 DEF Next

(* The inductive invariant of the pipeline. *)
THEOREM TextsInvIsInvariant == Spec => []TextsInv
<1> QED
  BY TextsInitInv, TextsInvStep, PTL DEF Spec

(* TypeOK is a part of it. *)
THEOREM TextsTypeCorrect == Spec => []TypeOK
<1>1. TextsInv => TypeOK
  BY DEF TextsInv
<1> QED
  BY <1>1, TextsInvIsInvariant, PTL

(* server.mjs, student-inbound.mjs: no part of a reply reaches the student twice,
   however often a text is delivered and however the deliveries overlap. *)
THEOREM EveryTextIsRepliedAtMostOnce == Spec => []RepliedAtMostOnce
<1>1. TextsInv => RepliedAtMostOnce
  BY DEF TextsInv, TextInv, RecordsAgree, RepliedAtMostOnce
<1> QED
  BY <1>1, TextsInvIsInvariant, PTL

(* student-inbound.mjs: the agent drafts nothing for a text that the screen has
   not passed. *)
THEOREM TheScreenComesFirst == Spec => []OnlyScreenedTextsAreDrafted
<1>1. TextsInv => OnlyScreenedTextsAreDrafted
  BY DEF TextsInv, TextInv, RecordsAgree, OnlyScreenedTextsAreDrafted
<1> QED
  BY <1>1, TextsInvIsInvariant, PTL

(* outbound.mjs: where sends are tried 'sent' means delivered, and the welcome
   texts go in order. *)
THEOREM DraftsAlwaysTellTheTruth == Spec => []DraftsTellTheTruth
<1>1. TextsInv => DraftsTellTheTruth
  BY DEF TextsInv, TextInv, RecordsAgree, DraftsTellTheTruth
<1> QED
  BY <1>1, TextsInvIsInvariant, PTL

(* student-inbound.mjs: a row that is stuck was blocked or interrupted. *)
THEOREM EveryStuckRowIsExplained == Spec => []StuckRowsAreExplained
<1>1. TextsInv => StuckRowsAreExplained
  BY DEF TextsInv, TextInv, Owns, Settling, StuckRowsAreExplained
<1> QED
  BY <1>1, TextsInvIsInvariant, PTL

-----------------------------------------------------------------------------
(* The refinement: reached is got, so that the abstract step is the screen's
   decision or the arrival of a part, and every other step is a stutter. *)
LEMMA TextsInitRefines == Init => Promised!Init
  BY DEF Init, Promised!Init, Parts, Promised!Parts

LEMMA ScreenRefines ==
    ASSUME TextsInv, NEW k \in Tasks,
           NEW result \in {"clean", "flagged", "unavailable"}, Screen(k, result)
    PROVE  Promised!Next
<1>1. task[k].t \in Texts /\ verdict[task[k].t] = "unscreened"
  BY OwnerIsAlone DEF Screen, Past, OwnerInv
<1>2. PICK decision \in {"passed", "blocked"} :
        verdict' = [verdict EXCEPT ![task[k].t] = decision]
  BY DEF Screen
<1>3. Promised!Judge(task[k].t, decision)
  BY <1>1, <1>2 DEF Screen, Promised!Judge
<1> QED
  BY <1>1, <1>3 DEF Promised!Next

LEMMA SendRefines ==
    ASSUME TextsInv, NEW k \in Tasks, NEW arrives \in BOOLEAN, NEW acked \in BOOLEAN,
           Send(k, arrives, acked)
    PROVE  [Promised!Next]_(Promised!vars)
<1>1. CASE ~arrives
  <2>1. got' = got
    BY <1>1 DEF Send, TextsInv, TypeOK
  <2> QED
    BY <2>1 DEF Send, Promised!vars
<1>2. CASE arrives
  <2>1. PICK t \in Texts : t = task[k].t
    BY OwnerIsAlone DEF Send, Past
  <2>2. PICK part : part = Head(task[k].todo)
    OBVIOUS
  <2>3. task[k].at = "send" /\ OwnerInv(k, t) /\ verdict[t] = "passed"
    BY <2>1, OwnerIsAlone DEF Send, Past, OwnerInv
  <2>4. /\ task[k].todo \in {<<"reply">>, <<"context">>, Welcome} /\ part \in Parts
        /\ part = "reply" <=> task[k].todo = <<"reply">>
        /\ part = "context" <=> task[k].todo = <<"context">>
        /\ part = "congrats" <=> task[k].todo = Welcome
    BY <2>2, <2>3, TodoFacts, PartsFacts DEF OwnerInv, Sending
  <2>5. \A p \in PartsOf(task[k].todo) : got[t][p] = 0
    BY <2>3 DEF OwnerInv, Left
  <2>6. part = "reply" \/ t \in StartTexts
    BY <2>3, <2>4 DEF OwnerInv, Sending
  <2>7. \A other \in Promised!Parts \ Promised!Before(part) : got[t][other] = 0
    <3>1. CASE part = "reply"
      BY <2>3, <2>4, <2>5, <3>1, PartsFacts DEF OwnerInv, Sending, Promised!Parts
    <3>2. CASE part = "congrats"
      BY <2>3, <2>4, <2>5, <3>2, TodoFacts, PartsFacts DEF OwnerInv, Sending, Promised!Parts
    <3>3. CASE part = "context"
      BY <2>3, <2>4, <2>5, <3>3, TodoFacts, PartsFacts
         DEF OwnerInv, Sending, Promised!Parts, Promised!Before
    <3> QED
      BY <2>4, <3>1, <3>2, <3>3, PartsFacts
  <2>8. got' = [got EXCEPT ![t][part] = @ + 1] /\ verdict' = verdict
    BY <1>2, <2>1, <2>2 DEF Send
  <2>9. Promised!Answer(t, part)
    BY <2>3, <2>6, <2>7, <2>8 DEF Promised!Answer
  <2>10. part \in Promised!Parts
    BY <2>4, PartsFacts DEF Promised!Parts
  <2> QED
    BY <2>9, <2>10 DEF Promised!Next
<1> QED
  BY <1>1, <1>2

LEMMA TextsStepRefines ==
    TextsInv /\ [Next]_vars => [Promised!Next]_(Promised!vars)
<1> SUFFICES ASSUME TextsInv, [Next]_vars PROVE [Promised!Next]_(Promised!vars)
  OBVIOUS
<1>1. ASSUME NEW k \in Tasks, Step(k)
      PROVE  [Promised!Next]_(Promised!vars)
  <2>1. CASE \E result \in {"clean", "flagged", "unavailable"} : Screen(k, result)
    BY <2>1, ScreenRefines
  <2>2. CASE \E arrives, acked \in BOOLEAN : Send(k, arrives, acked)
    BY <2>2, SendRefines
  <2>3. ASSUME \/ Claim(k) \/ Refused(k) \/ StartEvent(k) \/ RejectEvent(k)
               \/ ConfirmCode(k) \/ Deduplicate(k) \/ Record(k) \/ ReplyUnknown(k) \/ WriteInbox(k)
        PROVE  verdict' = verdict /\ got' = got
    BY <2>3 DEF Claim, Refused, ClaimRefused, StartEvent, RejectEvent, ConfirmCode,
                Deduplicate, Record, ReplyUnknown, WriteInbox
  <2>4. ASSUME \/ \E roleFound \in BOOLEAN : Load(k, roleFound)
               \/ InsertDraft(k) \/ MarkSent(k) \/ MarkFailed(k) \/ Finish(k)
               \/ \E updated \in BOOLEAN : MarkSentThrows(k, updated)
        PROVE  verdict' = verdict /\ got' = got
    BY <2>4 DEF Load, InsertDraft, MarkSent, MarkFailed, MarkSentThrows, Finish, Settle
  <2> QED
    BY <1>1, <2>1, <2>2, <2>3, <2>4 DEF Step, Refused, Promised!vars
<1>2. CASE \/ \E k \in Tasks, t \in Texts : Deliver(k, t)
           \/ \E k \in Tasks : Interrupt(k)
           \/ UNCHANGED vars
  BY <1>2 DEF Deliver, Interrupt, vars, Promised!vars
<1> QED
  BY <1>1, <1>2 DEF Next

(* server.mjs, student-inbound.mjs, outbound.mjs: whatever is delivered again,
   overlaps or breaks off, the student sees TextReplies: texts judged once, and
   the answers of those that pass in order, each part at most once. *)
THEOREM TextsImplementTextReplies == Spec => ImplementsTextReplies
<1> QED
  BY TextsInitRefines, TextsStepRefines, TextsInvIsInvariant, PTL
     DEF Spec, Promised!Spec, ImplementsTextReplies

-----------------------------------------------------------------------------
(* The text that claimed the code.  ClaimingTextIsNotExpired fails; this is how far.
   Two tasks at work on a text, or one at work on a text already filed as expired,
   are two deliveries of it. *)
Claiming == {"claim"} \union RejectedTypes

SecondDelivery(t) ==
    \/ \E k, l \in Tasks : k # l /\ task[k].t = t /\ task[l].t = t
    \/ events[t] = "pairing_expired" /\ \E k \in Tasks : task[k].t = t
    \/ claimedBy = t /\ \E k \in Tasks : task[k].t = t /\ task[k].at \in Claiming
    \/ claimedBy = t /\ events[t] = "pairing_expired"

Delivered(t) == \/ \E k \in Tasks : task[k].t = t
                \/ claimedBy = t \/ events[t] # "none"

GoingOn(t) == \E k \in Tasks : task[k].t = t /\ task[k].at \in {"startevent", "inbox"}

ClaimInv ==
    \A t \in Texts :
        /\ Delivered(t) => deliveries[t] > 0
        /\ SecondDelivery(t) => deliveries[t] > 1
        /\ claimedBy = t /\ inbox[t] = "absent" => GoingOn(t) \/ t \in interrupted

(* "providerEventId from the bridge is reused so dedup still works on a retry"
   (server.mjs): the text that claimed the code is filed as expired only where it
   was delivered again, and goes unanswered only where a delivery was cut short. *)
MisfiledTextIsExplained ==
    \A t \in Texts : claimedBy = t =>
        /\ events[t] = "pairing_expired" => deliveries[t] > 1
        /\ inbox[t] = "absent" => GoingOn(t) \/ t \in interrupted

LEMMA ClaimInitInv == Init => ClaimInv
<1> SUFFICES ASSUME Init PROVE ClaimInv
  OBVIOUS
<1>1. \A k \in Tasks, t \in Texts : task[k].t # t
  BY TextsAssumption DEF Init, Idle
<1>2. \A t \in Texts : claimedBy # t /\ events[t] = "none"
  BY TextsAssumption DEF Init
<1> QED
  BY <1>1, <1>2 DEF ClaimInv, Delivered, SecondDelivery

(* A new delivery of a text that has had one is the second. *)
LEMMA DeliverKeepsClaimInv ==
    ASSUME TextsInv, ClaimInv, NEW k \in Tasks, NEW t \in Texts, Deliver(k, t)
    PROVE  ClaimInv'
<1>1. /\ task[k].at = "idle" /\ task[k].t = None /\ task'[k].t = t
      /\ task'[k].at \in {"claim", "confirm", "dedup"}
      /\ \A l \in Tasks : l # k => task'[l] = task[l]
      /\ UNCHANGED <<claimedBy, events, inbox, interrupted>>
  BY DEF Deliver, db, code, Branch, TextsInv, TypeOK, TasksHaveTexts, Idle
<1>2. /\ deliveries'[t] = deliveries[t] + 1 /\ deliveries[t] \in Nat
      /\ \A u \in Texts : u # t => deliveries'[u] = deliveries[u]
  BY DEF Deliver, TextsInv, TypeOK
<1>3. ASSUME NEW u \in Texts, u # t
      PROVE  /\ Delivered(u)' => Delivered(u)
             /\ SecondDelivery(u)' => SecondDelivery(u)
  BY <1>1, <1>3 DEF Delivered, SecondDelivery
<1>4. SecondDelivery(t)' => Delivered(t)
  BY <1>1 DEF Delivered, SecondDelivery
<1>5. \A u \in Texts : GoingOn(u) => GoingOn(u)'
  BY <1>1 DEF GoingOn
<1>6. ASSUME NEW u \in Texts
      PROVE  /\ Delivered(u)' => deliveries'[u] > 0
             /\ SecondDelivery(u)' => deliveries'[u] > 1
  BY <1>2, <1>3, <1>4 DEF ClaimInv
<1> QED
  BY <1>1, <1>5, <1>6 DEF ClaimInv

(* What a task records of its text, and where it was when it did. *)
LEMMA TaskRecords ==
    ASSUME TextsInv, NEW k \in Tasks, NEW t \in Texts, t = task[k].t, Step(k) \/ Interrupt(k)
    PROVE  /\ UNCHANGED deliveries
           /\ claimedBy' # claimedBy => /\ task[k].at = "claim" /\ claimedBy' = t
                                        /\ task'[k].at = "startevent" /\ events' = events
           /\ \A u \in Texts : u # t => events'[u] = events[u] /\ inbox'[u] = inbox[u]
           /\ events'[t] = "pairing_expired" =>
                \/ events[t] = "pairing_expired"
                \/ task[k].at \in Claiming /\ task'[k].t = None
           /\ task'[k].at \in Claiming => task[k].at = "claim"
           /\ task[k].at \in {"startevent", "inbox"} =>
                \/ task'[k].at \in {"startevent", "inbox"} /\ task'[k].t = t
                \/ inbox'[t] # "absent" \/ t \in interrupted'
           /\ interrupted \subseteq interrupted'
           /\ inbox'[t] = "absent" => inbox[t] = "absent"
<1> USE PlacesAre DEF code, Claiming, RejectedTypes
<1>0. /\ events \in [Texts -> EventTypes \union {"none"}]
      /\ inbox \in [Texts -> {"absent", "pending", "processed"}]
  BY DEF TextsInv, TypeOK
<1>1. ASSUME NEW place \in Places, Go(k, place)
      PROVE  task'[k].at = place /\ task'[k].t = t
  BY <1>1, GoMoves
<1>2. ASSUME End(k)
      PROVE  task'[k].at = "idle" /\ task'[k].t = None
  BY <1>2, EndMoves
<1>3. CASE Claim(k) \/ Refused(k) \/ ConfirmCode(k) \/ Interrupt(k)
  BY <1>1, <1>2, <1>3 DEF Claim, Refused, ClaimRefused, ConfirmCode, Interrupt, db
<1>4. CASE StartEvent(k) \/ RejectEvent(k)
  BY <1>0, <1>1, <1>2, <1>4 DEF StartEvent, RejectEvent, RecordEvent
<1>5. CASE Record(k)
  BY <1>0, <1>1, <1>5 DEF Record, RecordEvent
<1>6. CASE Deduplicate(k) \/ ReplyUnknown(k)
  BY <1>1, <1>2, <1>6 DEF Deduplicate, ReplyUnknown, db
<1>7. CASE WriteInbox(k) \/ Finish(k)
  BY <1>0, <1>1, <1>2, <1>7 DEF WriteInbox, Finish
<1>8. CASE \E result \in {"clean", "flagged", "unavailable"} : Screen(k, result)
  BY <1>1, <1>2, <1>8 DEF Screen, db
<1>9. CASE \E arrives, acked \in BOOLEAN : Send(k, arrives, acked)
  BY <1>1, <1>9 DEF Send, db
<1>10. CASE InsertDraft(k) \/ \E updated \in BOOLEAN : MarkSentThrows(k, updated)
  BY <1>1, <1>10 DEF InsertDraft, MarkSentThrows
<1>11. CASE MarkSent(k) \/ MarkFailed(k) \/ \E roleFound \in BOOLEAN : Load(k, roleFound)
  <2>1. /\ UNCHANGED <<claimedBy, events, inbox, deliveries, interrupted>>
        /\ task[k].at \in {"marksent", "markfailed", "load"}
    BY <1>11 DEF MarkSent, MarkFailed, Settle, Load, db
  <2>2. task'[k].at \in {"idle", "insert", "finish"}
    <3>1. CASE MarkSent(k) \/ MarkFailed(k)
      BY <3>1 DEF MarkSent, MarkFailed, Settle, TextsInv, TypeOK
    <3>2. CASE \E roleFound \in BOOLEAN : Load(k, roleFound)
      BY <1>2, <3>2 DEF Load, TextsInv, TypeOK
    <3> QED
      BY <1>11, <3>1, <3>2
  <2> QED
    BY <2>1, <2>2
<1> QED
  BY <1>3, <1>4, <1>5, <1>6, <1>7, <1>8, <1>9, <1>10, <1>11
     DEF Step, Refused

LEMMA ClaimInvStep == TextsInv /\ ClaimInv /\ [Next]_vars => ClaimInv'
<1> SUFFICES ASSUME TextsInv, ClaimInv, [Next]_vars PROVE ClaimInv'
  OBVIOUS
<1>1. ASSUME NEW k \in Tasks, Step(k) \/ Interrupt(k)
      PROVE  ClaimInv'
  <2>1. MovesOn(k)
    BY <1>1, StepMoves
  <2>2. PICK t \in Texts : t = task[k].t
    BY <2>1 DEF MovesOn, TextsInv, TasksHaveTexts
  <2>3. /\ \A l \in Tasks : l # k => task'[l] = task[l]
        /\ \/ task'[k].t = t
           \/ task'[k].at = "idle" /\ task'[k].t = None
        /\ None \notin Texts
    BY <2>1, <2>2, TextsAssumption DEF MovesOn
  <2>4. /\ Delivered(t) /\ \A u \in Texts : Delivered(u)' => Delivered(u)
    <3>1. Delivered(t)
      BY <2>2 DEF Delivered
    <3>2. ASSUME NEW u \in Texts, u # t, Delivered(u)'
          PROVE  Delivered(u)
      <4>1. events'[u] = events[u] /\ (claimedBy' = u => claimedBy = u)
        BY <1>1, <2>2, <3>2, TaskRecords
      <4>2. \A l \in Tasks : task'[l].t = u => task[l].t = u
        BY <2>3, <3>2
      <4> QED
        BY <3>2, <4>1, <4>2 DEF Delivered
    <3> QED
      BY <3>1, <3>2
  <2>5. ASSUME NEW u \in Texts, u # t, SecondDelivery(u)'
        PROVE  SecondDelivery(u)
    BY <1>1, <2>2, <2>3, <2>5, TaskRecords DEF SecondDelivery
  <2>6. ASSUME SecondDelivery(t)'
        PROVE  SecondDelivery(t)
    <3>1. ASSUME NEW l \in Tasks, NEW m \in Tasks, l # m, task'[l].t = t, task'[m].t = t
          PROVE  SecondDelivery(t)
      BY <2>2, <2>3, <3>1 DEF SecondDelivery
    <3>2. ASSUME events'[t] = "pairing_expired", NEW l \in Tasks, task'[l].t = t
          PROVE  SecondDelivery(t)
      BY <1>1, <2>2, <2>3, <3>2, TaskRecords DEF SecondDelivery
    <3>3. ASSUME claimedBy' = t, NEW l \in Tasks, task'[l].t = t,
                 task'[l].at \in Claiming
          PROVE  SecondDelivery(t)
      <4>1. CASE l = k
        BY <1>1, <2>2, <3>3, <4>1, TaskRecords DEF SecondDelivery, Claiming, RejectedTypes
      <4>2. CASE l # k
        BY <1>1, <2>2, <2>3, <3>3, <4>2, TaskRecords DEF SecondDelivery
      <4> QED
        BY <4>1, <4>2
    <3>4. ASSUME claimedBy' = t, events'[t] = "pairing_expired"
          PROVE  SecondDelivery(t)
      BY <1>1, <2>2, <2>3, <3>4, TaskRecords DEF SecondDelivery
    <3> QED
      BY <2>6, <3>1, <3>2, <3>3, <3>4 DEF SecondDelivery
  <2>7. ASSUME NEW u \in Texts, claimedBy' = u, inbox'[u] = "absent"
        PROVE  GoingOn(u)' \/ u \in interrupted'
    <3>1. CASE claimedBy' = claimedBy
      <4>1. inbox[u] = "absent"
        BY <1>1, <2>2, <2>7, TaskRecords
      <4>2. \/ u \in interrupted
            \/ \E l \in Tasks : task[l].t = u /\ task[l].at \in {"startevent", "inbox"}
        BY <2>7, <3>1, <4>1 DEF ClaimInv, GoingOn
      <4>3. CASE u \in interrupted
        BY <1>1, <2>2, <4>3, TaskRecords
      <4>4. ASSUME NEW l \in Tasks, l # k,
                   task[l].t = u, task[l].at \in {"startevent", "inbox"}
            PROVE  GoingOn(u)'
        BY <2>3, <4>4 DEF GoingOn
      <4>5. ASSUME task[k].t = u, task[k].at \in {"startevent", "inbox"}
            PROVE  GoingOn(u)' \/ u \in interrupted'
        <5>1. u = t
          BY <2>2, <4>5
        <5>2. \/ task'[k].at \in {"startevent", "inbox"} /\ task'[k].t = t
              \/ t \in interrupted'
          BY <1>1, <2>2, <2>7, <4>5, <5>1, TaskRecords
        <5> QED
          BY <5>1, <5>2 DEF GoingOn
      <4> QED
        BY <4>2, <4>3, <4>4, <4>5
    <3>2. CASE claimedBy' # claimedBy
      BY <1>1, <2>2, <2>3, <2>7, <3>2, TaskRecords DEF GoingOn
    <3> QED
      BY <3>1, <3>2
  <2> QED
    BY <1>1, <2>2, <2>4, <2>5, <2>6, <2>7, TaskRecords DEF ClaimInv
<1>2. CASE \E k \in Tasks, t \in Texts : Deliver(k, t)
  BY <1>2, DeliverKeepsClaimInv
<1>3. CASE UNCHANGED vars
  BY <1>3 DEF vars, db, code, ClaimInv, Delivered, SecondDelivery, GoingOn
<1> QED
  BY <1>1, <1>2, <1>3 DEF Next

(* It is inductive beside TextsInv. *)
THEOREM EveryMisfiledTextIsExplained == Spec => []MisfiledTextIsExplained
<1>1. TextsInv /\ ClaimInv => MisfiledTextIsExplained
  BY DEF ClaimInv, SecondDelivery, MisfiledTextIsExplained
<1> QED
  BY <1>1, ClaimInitInv, ClaimInvStep, TextsInvIsInvariant, PTL DEF Spec

=============================================================================

----------------------------- MODULE OutgoingMail -----------------------------
(***************************************************************************)
(* Sending from a Parrot mailbox: compose, reply and forward               *)
(* (apps/parrot/workers: routes/reply-forward.ts, durableObject/index.ts,  *)
(* lib/attachments.ts, lib/email-sender.ts).                               *)
(*                                                                         *)
(* Each handler asks the durable object whether the mailbox is below its   *)
(* limits, uploads the attachments, stores the mail in Sent, answers 202   *)
(* and leaves the delivery to waitUntil.  The check and the row that it    *)
(* counts are two calls, so handlers that run at once pass it together.    *)
(*                                                                         *)
(* Time is counted in units of which HourLength make an hour and DayLength *)
(* a day (of UTC); both limits are counted by checkSendRateLimit.          *)
(***************************************************************************)
EXTENDS Integers, FiniteSets

CONSTANTS Sends,       \* the requests: a compose, a reply or a forward each
          HourLimit, DayLimit,     \* 20 and 100
          HourLength, DayLength,
          MaxAtOnce,   \* bound: handlers at work at once
          LastTick     \* bound: the last unit of time

ASSUME SendsAssumption == IsFiniteSet(Sends)
ASSUME LimitsAssumption == HourLimit \in Nat \ {0} /\ DayLimit \in Nat
ASSUME LengthsAssumption == HourLength \in Nat /\ DayLength \in Nat \ {0}
ASSUME AtOnceAssumption == MaxAtOnce \in Nat \ {0}
ASSUME LastTickAssumption == LastTick \in Nat

VARIABLES clock,
          send,      \* what each handler has done
          sentAt,    \* emails.date of the mail it stored
          moved      \* stored mails the employee took out of Sent

sendVars == <<clock, send, sentAt, moved>>

AtWork  == {s \in Sends : send[s] \in {"approved", "uploaded"}}
Stored  == {s \in Sends : send[s] \in {"stored", "delivered", "undelivered"}}
InSent  == Stored \ moved
SentWithin(length) == {s \in InSent : sentAt[s] >= clock - length}

(* date >= datetime('now', '-1 hour') compares two texts, 'YYYY-MM-DDTHH:MM'
   and 'YYYY-MM-DD HH:MM': on the day of the cutoff 'T' is after ' ', so every
   mail of that day counts. *)
Counted(length) ==
    {s \in InSent : sentAt[s] \div DayLength >= (clock - length) \div DayLength}

SendInit == /\ clock = 0
            /\ send = [s \in Sends |-> "new"]
            /\ sentAt = [s \in Sends |-> 0]
            /\ moved = {}

-----------------------------------------------------------------------------
(* Mutant: one mail more than the limit. *)
WithinLimitsOffByOne == /\ Cardinality(Counted(HourLength)) <= HourLimit
                        /\ Cardinality(Counted(DayLength)) <= DayLimit

WithinLimits == /\ Cardinality(Counted(HourLength)) < HourLimit
                /\ Cardinality(Counted(DayLength)) < DayLimit

(* checkSendRateLimit, once the body and the sender have been found valid.  Any
   mail moved into Sent, one taken out before too, counts as well, so a mailbox
   within its limits may be refused. *)
CheckSendRateLimit(s) ==
    /\ send[s] = "new"
    /\ Cardinality(AtWork) < MaxAtOnce
    /\ \/ WithinLimits /\ send' = [send EXCEPT ![s] = "approved"]
       \/ send' = [send EXCEPT ![s] = "refused"]
    /\ UNCHANGED <<clock, sentAt, moved>>

StoreAttachments(s) ==
    /\ send[s] = "approved"
    /\ send' = [send EXCEPT ![s] = "uploaded"]
    /\ UNCHANGED <<clock, sentAt, moved>>

CreateSent(s) ==
    /\ send[s] = "uploaded"
    /\ send' = [send EXCEPT ![s] = "stored"]
    /\ sentAt' = [sentAt EXCEPT ![s] = clock]
    /\ UNCHANGED <<clock, moved>>

(* R2 or the durable object throws: 500, and the handler has ended. *)
HandlerFails(s) ==
    /\ send[s] \in {"approved", "uploaded"}
    /\ send' = [send EXCEPT ![s] = "failed"]
    /\ UNCHANGED <<clock, sentAt, moved>>

(* waitUntil(sendEmail(...)): a failure is only logged, the mail stays in
   Sent. *)
Deliver(s) ==
    /\ send[s] = "stored"
    /\ \E result \in {"delivered", "undelivered"} :
         send' = [send EXCEPT ![s] = result]
    /\ UNCHANGED <<clock, sentAt, moved>>

(* moveEmail, or a first deletion: what is no longer in Sent does not count. *)
LeaveSent(s) ==
    /\ s \in InSent
    /\ moved' = moved \union {s}
    /\ UNCHANGED <<clock, send, sentAt>>

SendTick ==
    /\ clock < LastTick
    /\ clock' = clock + 1
    /\ UNCHANGED <<send, sentAt, moved>>

SendNext ==
    \/ \E s \in Sends : \/ CheckSendRateLimit(s) \/ StoreAttachments(s)
                        \/ CreateSent(s) \/ HandlerFails(s) \/ Deliver(s)
                        \/ LeaveSent(s)
    \/ SendTick

SendSpec == SendInit /\ [][SendNext]_sendVars

-----------------------------------------------------------------------------
SendTypeOK ==
    /\ clock \in 0..LastTick
    /\ send \in [Sends -> {"new", "approved", "uploaded", "stored", "delivered",
                           "undelivered", "refused", "failed"}]
    /\ sentAt \in [Sends -> 0..LastTick]
    /\ moved \subseteq Sends

(* The mails of so much time in Sent, with those about to be stored, are at most
   MaxAtOnce - 1 more than the limit. *)
StaysWithin(length, limit) ==
    Cardinality(SentWithin(length)) + Cardinality(AtWork) <= limit - 1 + MaxAtOnce

(* The check and the store are two calls, so a limit can be passed, but only by
   the handlers that were at work together, and only by one less than these: in
   any hour, and in any day.  Mails that have left Sent are not meant: an
   employee who moves sent mail away may send as much again. *)
OverrunIsBounded == StaysWithin(HourLength, HourLimit) /\ StaysWithin(DayLength, DayLimit)

(* What OverrunIsBounded rests on. *)
AtMostMaxAtOnce == Cardinality(AtWork) <= MaxAtOnce

=============================================================================

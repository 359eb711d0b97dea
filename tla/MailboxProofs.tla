----------------------------- MODULE MailboxProofs -----------------------------
(* Proofs about the mailbox of an employee: the folders, for any mails and tabs,
   sending, for any limits and lengths of time, and the mentions, for any posts
   and channels. *)
EXTENDS MailFolders, OutgoingMail, OfflineMentions, FiniteSetTheorems, TLAPS

-----------------------------------------------------------------------------
(* Folders.  A mail has a folder only once it is stored, and only a stored mail
   can have crossed a request; the sweep lists nothing that is not aged. *)
StoredFirst ==
    \A m \in Letters : folder[m] # "absent" \/ m \in crossed => intake[m] = "stored"

SweepListsTheAged == sweep.old \subseteq aged

MailInv == MailTypeOK /\ StoredFirst /\ SweepListsTheAged /\ DoomedIsInTrash

LEMMA MailInitInv == MailInit => MailInv
<1> SUFFICES ASSUME MailInit PROVE MailInv
  OBVIOUS
<1>1. \A m \in Letters : ~Doomed(m)
  BY DEF MailInit, Doomed, Free
<1>2. MailTypeOK
  BY DEF MailInit, MailTypeOK
<1> QED
  BY <1>1, <1>2 DEF MailInit, MailInv, StoredFirst, SweepListsTheAged, DoomedIsInTrash

LEMMA MailTypeStep ==
    ASSUME MailTypeOK, [MailNext]_mailVars
    PROVE  MailTypeOK'
<1> USE DEF MailTypeOK
<1>1. ASSUME NEW m \in Letters,
             \/ CheckTrust(m) \/ Screen(m) \/ CreateEmail(m) \/ IntakeFails(m)
             \/ Ages(m)
      PROVE  MailTypeOK'
  BY <1>1 DEF CheckTrust, Screen, CreateEmail, IntakeFails, Ages, Folders
<1>2. ASSUME NEW m \in Letters, NEW f \in Folders, MoveRoute(m, f)
      PROVE  MailTypeOK'
  BY <1>2 DEF MoveRoute, MoveEmail
<1>3. ASSUME NEW t \in Tabs, MoveToTrash(t) \/ DeleteEmail(t)
      PROVE  MailTypeOK'
  <2>1. tab[t].mail \in Letters
    BY <1>3 DEF MoveToTrash, DeleteEmail, Job, Free
  <2> QED
    BY <1>3, <2>1 DEF MoveToTrash, DeleteEmail, MoveEmail, Folders
<1>4. ASSUME NEW t \in Tabs, TrustSender(t)
      PROVE  MailTypeOK'
  <2>1. tab[t] \in [op : {"trust", "trusted"}, mail : Letters]
    BY <1>4 DEF TrustSender, Job, Free
  <2>2. [tab[t] EXCEPT !.op = "trusted"] \in [op : {"trust", "trusted"}, mail : Letters]
    BY <2>1
  <2> QED
    BY <1>4, <2>2 DEF TrustSender, Job
<1>5. ASSUME NEW t \in Tabs, MoveTrusted(t)
      PROVE  MailTypeOK'
  <2>1. tab[t].mail \in Letters
    BY <1>5 DEF MoveTrusted, Job, Free
  <2> QED
    BY <1>5, <2>1 DEF MoveTrusted, MoveEmail, Folders
<1>6. ASSUME NEW t \in Tabs, NEW m \in Letters, ReadForDelete(t, m) \/ ReadForTrust(t, m)
      PROVE  MailTypeOK'
  <2>1. /\ [op |-> "delete", mail |-> m, sawTrash |-> folder[m] = "trash"] \in Job
        /\ [op |-> "trust", mail |-> m] \in Job
    BY DEF Job
  <2> QED
    BY <1>6, <2>1 DEF ReadForDelete, ReadForTrust
<1>7. ASSUME \/ StartSweep \/ ListEmployeesFails \/ PurgeExpiredSpam \/ PurgeFails
             \/ RecordSweep \/ DayPasses \/ UNCHANGED mailVars
      PROVE  MailTypeOK'
  BY <1>7 DEF StartSweep, ListEmployeesFails, PurgeExpiredSpam, PurgeFails,
              RecordSweep, DayPasses, mailVars
<1> QED
  BY <1>1, <1>2, <1>3, <1>4, <1>5, <1>6, <1>7 DEF MailNext

(* A move keeps what is said of a doomed mail: taken out of Trash, it has
   crossed the request. *)
LEMMA MoveKeepsTheDoomed ==
    ASSUME MailInv, NEW m \in Letters, NEW f \in Folders, MoveEmail(m, f),
           \A x \in Letters : Doomed(x)' => Doomed(x),
           UNCHANGED <<intake, aged, sweep>>
    PROVE  StoredFirst' /\ SweepListsTheAged' /\ DoomedIsInTrash'
  BY DEF MailInv, MailTypeOK, MoveEmail, Present, Folders, StoredFirst,
         SweepListsTheAged, DoomedIsInTrash

LEMMA MailInvStep ==
    ASSUME MailInv, [MailNext]_mailVars
    PROVE  MailInv'
<1> USE DEF MailInv
<1>0. MailTypeOK'
  BY MailTypeStep
<1>1. ASSUME NEW m \in Letters,
             \/ CheckTrust(m) \/ Screen(m) \/ CreateEmail(m) \/ IntakeFails(m)
             \/ Ages(m)
      PROVE  MailInv'
  <2>1. \A x \in Letters : Doomed(x)' <=> Doomed(x)
    BY <1>1 DEF CheckTrust, Screen, CreateEmail, IntakeFails, Ages, Doomed
  <2> QED
    BY <1>0, <1>1, <2>1
       DEF CheckTrust, Screen, CreateEmail, IntakeFails, Ages, MailTypeOK,
           StoredFirst, SweepListsTheAged, DoomedIsInTrash
<1>2. ASSUME NEW m \in Letters, NEW f \in Folders, MoveRoute(m, f)
      PROVE  MailInv'
  BY <1>0, <1>2, MoveKeepsTheDoomed DEF MoveRoute, Doomed
<1>3. ASSUME NEW t \in Tabs, MoveToTrash(t)
      PROVE  MailInv'
  <2>1. tab[t].mail \in Letters /\ "trash" \in Folders
    BY <1>3 DEF MoveToTrash, MailTypeOK, Job, Free, Folders
  <2>2. \A x \in Letters : Doomed(x)' => Doomed(x)
    BY <1>3 DEF MoveToTrash, Doomed, Free, MailTypeOK
  <2> QED
    BY <1>0, <1>3, <2>1, <2>2, MoveKeepsTheDoomed DEF MoveToTrash
<1>4. ASSUME NEW t \in Tabs, DeleteEmail(t)
      PROVE  MailInv'
  <2>1. tab[t].mail \in Letters /\ Doomed(tab[t].mail)
    BY <1>4 DEF DeleteEmail, MailTypeOK, Job, Free, Doomed
  <2>2. \A x \in Letters : Doomed(x)' => Doomed(x)
    BY <1>4 DEF DeleteEmail, Doomed, Free, MailTypeOK
  <2> QED
    BY <1>0, <1>4, <2>1, <2>2
       DEF DeleteEmail, MailTypeOK, StoredFirst, SweepListsTheAged, DoomedIsInTrash
<1>5. ASSUME NEW t \in Tabs, MoveTrusted(t)
      PROVE  MailInv'
  <2>1. tab[t].mail \in Letters /\ "inbox" \in Folders
    BY <1>5 DEF MoveTrusted, MailTypeOK, Job, Free, Folders
  <2>2. \A x \in Letters : Doomed(x)' => Doomed(x)
    BY <1>5 DEF MoveTrusted, Doomed, Free, MailTypeOK
  <2> QED
    BY <1>0, <1>5, <2>1, <2>2, MoveKeepsTheDoomed DEF MoveTrusted
<1>6. ASSUME NEW t \in Tabs, NEW m \in Letters, ReadForDelete(t, m)
      PROVE  MailInv'
  <2>1. \A x \in Letters : Doomed(x)' => Doomed(x) \/ (x = m /\ folder[m] = "trash")
    BY <1>6 DEF ReadForDelete, Doomed, MailTypeOK
  <2> QED
    BY <1>0, <1>6, <2>1
       DEF ReadForDelete, StoredFirst, SweepListsTheAged, DoomedIsInTrash
<1>7. ASSUME NEW t \in Tabs,
             TrustSender(t) \/ \E m \in Letters : ReadForTrust(t, m)
      PROVE  MailInv'
  <2>1. \/ tab' = [tab EXCEPT ![t] = [tab[t] EXCEPT !.op = "trusted"]] /\ tab[t].op = "trust"
        \/ \E m \in Letters : tab' = [tab EXCEPT ![t] = [op |-> "trust", mail |-> m]]
    BY <1>7 DEF TrustSender, ReadForTrust
  <2>2. tab[t].op = "trust" => tab[t] \in [op : {"trust", "trusted"}, mail : Letters]
    BY DEF MailTypeOK, Job, Free
  <2>3. tab'[t].op # "delete"
    BY <2>1, <2>2 DEF MailTypeOK
  <2>4. \A u \in Tabs : u # t => tab'[u] = tab[u]
    BY <2>1 DEF MailTypeOK
  <2>5. \A x \in Letters : Doomed(x)' => Doomed(x)
    BY <2>3, <2>4 DEF Doomed
  <2> QED
    BY <1>0, <1>7, <2>5
       DEF TrustSender, ReadForTrust, StoredFirst, SweepListsTheAged, DoomedIsInTrash
<1>8. ASSUME \/ StartSweep \/ ListEmployeesFails \/ PurgeExpiredSpam \/ PurgeFails
             \/ RecordSweep \/ DayPasses \/ UNCHANGED mailVars
      PROVE  MailInv'
  <2>1. \A x \in Letters : Doomed(x)' <=> Doomed(x)
    BY <1>8 DEF StartSweep, ListEmployeesFails, PurgeExpiredSpam, PurgeFails,
                RecordSweep, DayPasses, mailVars, Doomed
  <2> QED
    BY <1>0, <1>8, <2>1
       DEF StartSweep, ListEmployeesFails, PurgeExpiredSpam, PurgeFails, Expired,
           RecordSweep, DayPasses, mailVars, MailTypeOK, StoredFirst,
           SweepListsTheAged, DoomedIsInTrash
<1> QED
  BY <1>1, <1>2, <1>3, <1>4, <1>5, <1>6, <1>7, <1>8 DEF MailNext

(* The inductive invariant of the folders; as in all that follows, the fairness of
   MailSpec has no part in it. *)
THEOREM MailInvIsInvariant == MailInit /\ [][MailNext]_mailVars => []MailInv
  BY MailInitInv, MailInvStep, PTL

(* A mail that a request is about to destroy is in Trash, or was taken out of it
   while the request was under way. *)
THEOREM TheDoomedAreInTrash ==
    MailInit /\ [][MailNext]_mailVars => []DoomedIsInTrash
  BY MailInvIsInvariant, PTL DEF MailInv

(* What a step destroys. *)
LEMMA DestroyedStep ==
    ASSUME MailInv, [MailNext]_mailVars, NEW m \in Letters, Destroyed(m)
    PROVE  folder[m] = "trash" \/ (folder[m] = "spam" /\ m \in aged) \/ m \in crossed
<1> USE DEF MailInv, Destroyed
<1>1. \/ \E t \in Tabs : DeleteEmail(t)
      \/ PurgeExpiredSpam
  BY DEF MailNext, mailVars, MailTypeOK, CheckTrust, Screen, CreateEmail, IntakeFails,
         Ages, MoveRoute, MoveEmail, Folders, MoveToTrash, TrustSender, MoveTrusted,
         ReadForDelete, ReadForTrust, StartSweep, ListEmployeesFails, PurgeFails,
         RecordSweep, DayPasses
<1>2. ASSUME NEW t \in Tabs, DeleteEmail(t)
      PROVE  folder[m] = "trash" \/ m \in crossed
  BY <1>2 DEF DeleteEmail, Doomed, DoomedIsInTrash, MailTypeOK
<1>3. ASSUME PurgeExpiredSpam
      PROVE  folder[m] = "spam" /\ m \in aged
  BY <1>3 DEF PurgeExpiredSpam, Expired, SweepListsTheAged
<1> QED
  BY <1>1, <1>2, <1>3

(* A mail is destroyed from Trash, or from Spam past its retention, or because it
   was put back while the request that destroys it was under way. *)
THEOREM NothingIsDestroyedOtherwise ==
    MailInit /\ [][MailNext]_mailVars => DestroyedWithCause
<1>1. MailInv /\ [MailNext]_mailVars =>
        [\A m \in Letters : Destroyed(m) =>
           \/ folder[m] = "trash"
           \/ folder[m] = "spam" /\ m \in aged
           \/ m \in crossed]_mailVars
  BY DestroyedStep
<1> QED
  BY <1>1, MailInvIsInvariant, PTL DEF DestroyedWithCause

-----------------------------------------------------------------------------
(* Sending.  What was sent within the hour or the day is counted, whatever the
   text compare counts besides. *)
LEMMA QuotientsAreMonotone ==
    ASSUME NEW a \in Int, NEW b \in Int, a >= b, NEW d \in Nat \ {0}
    PROVE  a \div d >= b \div d
  OBVIOUS

LEMMA WhatWasSentIsCounted ==
    ASSUME SendTypeOK, NEW length \in Nat
    PROVE  SentWithin(length) \subseteq Counted(length)
  BY QuotientsAreMonotone, LengthsAssumption, LastTickAssumption
     DEF SentWithin, Counted, InSent, Stored, SendTypeOK

SendInv == SendTypeOK /\ AtMostMaxAtOnce /\ OverrunIsBounded

LEMMA SendsAreFinite ==
    /\ IsFiniteSet(AtWork) /\ Cardinality(AtWork) \in Nat
    /\ \A length : /\ IsFiniteSet(SentWithin(length))
                   /\ Cardinality(SentWithin(length)) \in Nat
                   /\ IsFiniteSet(Counted(length))
                   /\ Cardinality(Counted(length)) \in Nat
  BY SendsAssumption, FS_Subset, FS_CardinalityType
     DEF AtWork, SentWithin, Counted, InSent, Stored

LEMMA SendInitInv == SendInit => SendInv
<1> SUFFICES ASSUME SendInit PROVE SendInv
  OBVIOUS
<1>1. AtWork = {} /\ \A length : SentWithin(length) = {}
  BY DEF SendInit, AtWork, SentWithin, InSent, Stored
<1>2. Cardinality(AtWork) = 0 /\ \A length : Cardinality(SentWithin(length)) = 0
  BY <1>1, FS_EmptySet
<1> QED
  BY <1>2, LimitsAssumption, AtOnceAssumption, LastTickAssumption
     DEF SendInit, SendInv, SendTypeOK, AtMostMaxAtOnce, OverrunIsBounded, StaysWithin

LEMMA SendTypeStep ==
    ASSUME SendTypeOK, [SendNext]_sendVars
    PROVE  SendTypeOK'
  BY LastTickAssumption
     DEF SendTypeOK, SendNext, CheckSendRateLimit, StoreAttachments, CreateSent,
         HandlerFails, Deliver, LeaveSent, SendTick, sendVars, InSent, Stored

LEMMA OneMore ==
    ASSUME NEW S, IsFiniteSet(S), NEW e
    PROVE  /\ IsFiniteSet(S \union {e}) /\ Cardinality(S \union {e}) \in Nat
           /\ Cardinality(S \union {e}) <= Cardinality(S) + 1
<1>1. IsFiniteSet(S \union {e}) /\ Cardinality(S) \in Nat
  BY FS_AddElement, FS_CardinalityType
<1>2. Cardinality(S \union {e}) = Cardinality(S) \/ Cardinality(S \union {e}) = Cardinality(S) + 1
  BY FS_AddElement
<1> QED
  BY <1>1, <1>2, FS_CardinalityType

(* Who is at work after a step. *)
LEMMA AtWorkStep ==
    ASSUME SendInv, [SendNext]_sendVars
    PROVE  AtMostMaxAtOnce'
<1> USE DEF SendInv
<1>1. ASSUME NEW s \in Sends, CheckSendRateLimit(s)
      PROVE  AtMostMaxAtOnce'
  <2>1. AtWork' \subseteq AtWork \union {s} /\ Cardinality(AtWork) < MaxAtOnce
    BY <1>1 DEF CheckSendRateLimit, AtWork, SendTypeOK
  <2>2. /\ IsFiniteSet(AtWork \union {s})
        /\ Cardinality(AtWork \union {s}) <= Cardinality(AtWork) + 1
        /\ Cardinality(AtWork \union {s}) \in Nat
    BY SendsAreFinite, OneMore
  <2>3. Cardinality(AtWork') <= Cardinality(AtWork \union {s}) /\ Cardinality(AtWork') \in Nat
    BY <2>1, <2>2, FS_Subset, FS_CardinalityType
  <2> QED
    BY <2>1, <2>2, <2>3, SendsAreFinite, AtOnceAssumption DEF AtMostMaxAtOnce
<1>2. ASSUME AtWork' \subseteq AtWork
      PROVE  AtMostMaxAtOnce'
  <2>1. Cardinality(AtWork') <= Cardinality(AtWork) /\ Cardinality(AtWork') \in Nat
    BY <1>2, SendsAreFinite, FS_Subset, FS_CardinalityType
  <2> QED
    BY <2>1, SendsAreFinite, AtOnceAssumption DEF AtMostMaxAtOnce
<1>3. ASSUME NEW s \in Sends,
             \/ StoreAttachments(s) \/ CreateSent(s) \/ HandlerFails(s)
             \/ Deliver(s) \/ LeaveSent(s)
      PROVE  AtWork' \subseteq AtWork
  BY <1>3 DEF StoreAttachments, CreateSent, HandlerFails, Deliver, LeaveSent, AtWork, SendTypeOK
<1>4. SendTick \/ UNCHANGED sendVars => AtWork' \subseteq AtWork
  BY DEF SendTick, sendVars, AtWork
<1> QED
  BY <1>1, <1>2, <1>3, <1>4 DEF SendNext

(* Nothing but an approval makes the two counts together larger: a mail that is
   stored is one handler less at work. *)
LEMMA CountsShrink ==
    ASSUME SendTypeOK, NEW length \in Nat, NEW limit \in Nat, StaysWithin(length, limit),
           AtWork' \subseteq AtWork, SentWithin(length)' \subseteq SentWithin(length)
    PROVE  StaysWithin(length, limit)'
<1>1. /\ Cardinality(AtWork') <= Cardinality(AtWork)
      /\ Cardinality(SentWithin(length)') <= Cardinality(SentWithin(length))
      /\ Cardinality(AtWork') \in Nat
      /\ Cardinality(SentWithin(length)') \in Nat
  BY SendsAreFinite, FS_Subset, FS_CardinalityType
<1> QED
  BY <1>1, SendsAreFinite, AtOnceAssumption DEF StaysWithin

(* The hour and the day alike: any span whose mails an approval has counted. *)
LEMMA SpanStep ==
    ASSUME SendInv, [SendNext]_sendVars, NEW length \in Nat, NEW limit \in Nat,
           StaysWithin(length, limit), WithinLimits => Cardinality(Counted(length)) < limit
    PROVE  StaysWithin(length, limit)'
<1> USE DEF SendInv
<1>1. ASSUME NEW s \in Sends, CheckSendRateLimit(s)
      PROVE  StaysWithin(length, limit)'
  <2>1. InSent' = InSent /\ clock' = clock /\ sentAt' = sentAt
    BY <1>1 DEF CheckSendRateLimit, InSent, Stored, SendTypeOK
  <2>2. SentWithin(length)' = SentWithin(length)
    BY <2>1 DEF SentWithin
  <2>3. CASE WithinLimits /\ send' = [send EXCEPT ![s] = "approved"]
    <3>1. AtWork' = AtWork \union {s} /\ s \notin AtWork
      BY <1>1, <2>3 DEF CheckSendRateLimit, AtWork, SendTypeOK
    <3>2. Cardinality(AtWork') = Cardinality(AtWork) + 1
      BY <3>1, SendsAreFinite, FS_AddElement
    <3>3. Cardinality(SentWithin(length)) <= Cardinality(Counted(length))
      BY WhatWasSentIsCounted, SendsAreFinite, FS_Subset
    <3>4. Cardinality(AtWork) < MaxAtOnce /\ Cardinality(Counted(length)) < limit
      BY <1>1, <2>3 DEF CheckSendRateLimit
    <3> QED
      BY <2>2, <3>2, <3>3, <3>4, SendsAreFinite, AtOnceAssumption DEF StaysWithin
  <2>4. CASE send' = [send EXCEPT ![s] = "refused"]
    <3>1. AtWork' = AtWork
      BY <1>1, <2>4 DEF CheckSendRateLimit, AtWork, SendTypeOK
    <3> QED
      BY <2>2, <3>1, CountsShrink
  <2> QED
    BY <1>1, <2>3, <2>4 DEF CheckSendRateLimit
<1>2. ASSUME NEW s \in Sends, CreateSent(s)
      PROVE  StaysWithin(length, limit)'
  <2>1. s \in AtWork /\ AtWork' = AtWork \ {s}
    BY <1>2 DEF CreateSent, AtWork, SendTypeOK
  <2>2. SentWithin(length)' \subseteq SentWithin(length) \union {s}
    BY <1>2 DEF CreateSent, SentWithin, InSent, Stored, SendTypeOK
  <2>3. Cardinality(AtWork') = Cardinality(AtWork) - 1
    BY <2>1, SendsAreFinite, FS_RemoveElement
  <2>4. /\ Cardinality(SentWithin(length) \union {s}) <= Cardinality(SentWithin(length)) + 1
        /\ IsFiniteSet(SentWithin(length) \union {s})
        /\ Cardinality(SentWithin(length) \union {s}) \in Nat
    BY SendsAreFinite, OneMore
  <2>5. /\ Cardinality(SentWithin(length)') <= Cardinality(SentWithin(length) \union {s})
        /\ Cardinality(SentWithin(length)') \in Nat
    BY <2>2, <2>4, FS_Subset, FS_CardinalityType
  <2> QED
    BY <2>3, <2>4, <2>5, SendsAreFinite, AtOnceAssumption DEF StaysWithin
<1>3. ASSUME NEW s \in Sends, StoreAttachments(s) \/ HandlerFails(s) \/ Deliver(s)
      PROVE  StaysWithin(length, limit)'
  <2>1. AtWork' \subseteq AtWork /\ InSent' = InSent
    BY <1>3 DEF StoreAttachments, HandlerFails, Deliver, AtWork, InSent, Stored,
              SendTypeOK
  <2>2. SentWithin(length)' \subseteq SentWithin(length)
    BY <1>3, <2>1 DEF StoreAttachments, HandlerFails, Deliver, SentWithin
  <2> QED
    BY <2>1, <2>2, CountsShrink
<1>4. ASSUME SendTick
      PROVE  StaysWithin(length, limit)'
  <2>1. AtWork' = AtWork /\ InSent' = InSent
    BY <1>4 DEF SendTick, AtWork, InSent, Stored
  <2>2. SentWithin(length)' \subseteq SentWithin(length)
    BY <1>4, <2>1, LastTickAssumption DEF SendTick, SentWithin, InSent, Stored, SendTypeOK
  <2> QED
    BY <2>1, <2>2, CountsShrink
<1>5. ASSUME NEW s \in Sends, LeaveSent(s)
      PROVE  StaysWithin(length, limit)'
  <2>1. AtWork' = AtWork /\ InSent' \subseteq InSent
    BY <1>5 DEF LeaveSent, AtWork, InSent, Stored
  <2>2. SentWithin(length)' \subseteq SentWithin(length)
    BY <1>5, <2>1 DEF LeaveSent, SentWithin
  <2> QED
    BY <2>1, <2>2, CountsShrink
<1>6. ASSUME UNCHANGED sendVars
      PROVE  StaysWithin(length, limit)'
  BY <1>6 DEF sendVars, AtWork, InSent, Stored, SentWithin, StaysWithin
<1> QED
  BY <1>1, <1>2, <1>3, <1>4, <1>5, <1>6 DEF SendNext

LEMMA SendInvStep ==
    ASSUME SendInv, [SendNext]_sendVars
    PROVE  SendInv'
<1>1. StaysWithin(HourLength, HourLimit)'
  BY SpanStep, LengthsAssumption, LimitsAssumption DEF SendInv, OverrunIsBounded, WithinLimits
<1>2. StaysWithin(DayLength, DayLimit)'
  BY SpanStep, LengthsAssumption, LimitsAssumption DEF SendInv, OverrunIsBounded, WithinLimits
<1> QED
  BY <1>1, <1>2, SendTypeStep, AtWorkStep DEF SendInv, OverrunIsBounded

(* The inductive invariant of sending. *)
THEOREM SendInvIsInvariant == SendSpec => []SendInv
  BY SendInitInv, SendInvStep, PTL DEF SendSpec

(* Of the mails sent within any hour, and within any day, Sent holds at most
   MaxAtOnce - 1 more than the limit, for any limits, lengths and requests. *)
THEOREM TheOverrunIsBounded == SendSpec => []OverrunIsBounded
  BY SendInvIsInvariant, PTL DEF SendInv

-----------------------------------------------------------------------------
(* Mentions.  While a poll runs, what it leaves behind in the channels it is done
   with has been noticed, or its fetch failed. *)
PollCovers ==
    alarm.pc = "poll" =>
        /\ alarm.upTo \subseteq posted
        /\ \A p \in alarm.upTo :
             ChannelOf[p] \notin alarm.left => p \in noticed \union skipped \union alarm.missed

(* The count kept is that of the last mail, or it is known not to be. *)
CountIsOfTheLastMail ==
    ~lateMark => IF alarm.pc = "mail" THEN alarm.seen \/ alarm.count = Cardinality(mailed)
                 ELSE notified = Cardinality(mailed)

MentionInv == MentionTypeOK /\ OnlyFailedFetchesSkip /\ PollCovers /\ CountIsOfTheLastMail

LEMMA CountsAreBounded ==
    ASSUME NEW ps \in SUBSET Mentions
    PROVE  IsFiniteSet(ps) /\ Cardinality(ps) \in 0..Cardinality(Mentions)
  BY MentionsAssumption, FS_Subset, FS_CardinalityType

LEMMA MentionInitInv == MentionInit => MentionInv
<1> SUFFICES ASSUME MentionInit PROVE MentionInv
  OBVIOUS
<1>1. MentionTypeOK
  BY CountsAreBounded, FS_EmptySet DEF MentionInit, MentionTypeOK, AlarmStates
<1>2. alarm.pc = "asleep"
  BY DEF MentionInit, Asleep
<1> QED
  BY <1>1, <1>2, FS_EmptySet
     DEF MentionInit, MentionInv, OnlyFailedFetchesSkip, PollCovers, CountIsOfTheLastMail

(* The states of the alarm, one by one. *)
LEMMA AlarmShapes ==
    ASSUME alarm \in AlarmStates
    PROVE  /\ alarm = Asleep => alarm.pc = "asleep"
           /\ alarm.pc = "poll" =>
                alarm \in [pc : {"poll"}, upTo : SUBSET Mentions,
                          left : SUBSET Channels, missed : SUBSET Mentions]
           /\ alarm.pc = "mail" =>
                alarm \in [pc : {"mail"}, count : 0..Cardinality(Mentions), seen : BOOLEAN]
  BY DEF AlarmStates, Asleep

(* The employee's requests and the posts leave the alarm alone. *)
LEMMA RequestsStep ==
    ASSUME MentionInv,
           \/ \E p \in Mentions : Post(p) \/ Notify(p)
           \/ \E ps \in SUBSET Mentions : MarkRead(ps) \/ ClearRows(ps)
           \/ NinetySecondsPass
           \/ UNCHANGED mentionVars
    PROVE  MentionInv'
<1> USE DEF MentionInv
<1>1. /\ UNCHANGED <<watermark, alarm, notified, skipped, mailed, lateMark>>
      /\ posted \subseteq posted' /\ posted' \subseteq Mentions
      /\ noticed \subseteq noticed' /\ noticed' \subseteq posted'
      /\ away' \in BOOLEAN /\ touching' \in BOOLEAN
      /\ row' \in [Mentions -> {"none", "unread", "read"}]
  BY DEF MentionTypeOK, Post, Notify, AddRows, MarkRead, ClearRows, NinetySecondsPass,
         mentionVars
<1>2. MentionTypeOK'
  BY <1>1 DEF MentionTypeOK
<1>3. PollCovers'
  BY <1>1 DEF PollCovers
<1> QED
  BY <1>1, <1>2, <1>3 DEF OnlyFailedFetchesSkip, CountIsOfTheLastMail

LEMMA TouchStep ==
    ASSUME MentionInv, TouchLastSeen
    PROVE  MentionInv'
<1> USE DEF MentionInv
<1>1. Cardinality({}) = 0 /\ 0 \in 0..Cardinality(Mentions)
  BY CountsAreBounded, FS_EmptySet
<1>2. CASE alarm.pc = "mail"
  <2>1. /\ alarm' \in [pc : {"mail"}, count : 0..Cardinality(Mentions), seen : BOOLEAN]
        /\ alarm'.pc = "mail" /\ alarm'.seen
    BY <1>2, AlarmShapes DEF TouchLastSeen, MentionTypeOK
  <2> QED
    BY <1>1, <2>1 DEF TouchLastSeen, MentionTypeOK, AlarmStates, OnlyFailedFetchesSkip,
                      PollCovers, CountIsOfTheLastMail
<1>3. CASE alarm.pc # "mail"
  BY <1>1, <1>3 DEF TouchLastSeen, MentionTypeOK, OnlyFailedFetchesSkip, PollCovers,
                    CountIsOfTheLastMail
<1> QED
  BY <1>2, <1>3

(* The alarm's own steps. *)
LEMMA PollStep ==
    ASSUME MentionInv,
           \/ StartPoll \/ PollReturnsEarly \/ AdvanceWatermark
           \/ \E c \in Channels : FetchPosts(c) \/ FetchFails(c)
    PROVE  MentionInv'
<1> USE DEF MentionInv
<1>1. CASE StartPoll \/ PollReturnsEarly
  <2>1. alarm.pc = "asleep"
    BY <1>1, AlarmShapes DEF StartPoll, PollReturnsEarly, MentionTypeOK
  <2>2. alarm' \in AlarmStates /\ alarm'.pc # "mail"
    BY <1>1 DEF StartPoll, PollReturnsEarly, MentionTypeOK, AlarmStates
  <2>3. alarm'.pc = "poll" => alarm'.upTo = posted /\ alarm'.left = Channels
    BY <1>1 DEF StartPoll, PollReturnsEarly
  <2> QED
    BY <1>1, <2>1, <2>2, <2>3, ChannelOfAssumption
       DEF StartPoll, PollReturnsEarly, MentionTypeOK, OnlyFailedFetchesSkip, PollCovers,
           CountIsOfTheLastMail
<1>2. ASSUME NEW c \in Channels, FetchPosts(c)
      PROVE  MentionInv'
  <2>1. /\ alarm \in [pc : {"poll"}, upTo : SUBSET Mentions, left : SUBSET Channels,
                     missed : SUBSET Mentions]
        /\ alarm' = [alarm EXCEPT !.left = alarm.left \ {c}]
    BY <1>2, AlarmShapes DEF FetchPosts, MentionTypeOK
  <2>2. /\ alarm' \in AlarmStates /\ alarm'.pc = "poll" /\ alarm'.upTo = alarm.upTo
        /\ alarm'.missed = alarm.missed /\ alarm'.left = alarm.left \ {c}
    BY <2>1 DEF AlarmStates
  <2>3. /\ noticed' = noticed \union ((posted \ watermark) \intersect In(c))
        /\ row' \in [Mentions -> {"none", "unread", "read"}]
    BY <1>2 DEF FetchPosts, AddRows, MentionTypeOK
  <2>4. PollCovers'
    BY <1>2, <2>1, <2>2, <2>3
       DEF FetchPosts, MentionTypeOK, PollCovers, OnlyFailedFetchesSkip, In
  <2> QED
    BY <1>2, <2>1, <2>2, <2>3, <2>4
       DEF FetchPosts, MentionTypeOK, OnlyFailedFetchesSkip, CountIsOfTheLastMail, In
<1>3. ASSUME NEW c \in Channels, FetchFails(c)
      PROVE  MentionInv'
  <2>1. /\ alarm \in [pc : {"poll"}, upTo : SUBSET Mentions, left : SUBSET Channels,
                     missed : SUBSET Mentions]
        /\ alarm' = [alarm EXCEPT !.left = alarm.left \ {c},
                                 !.missed = alarm.missed \union (In(c) \ watermark)]
    BY <1>3, AlarmShapes DEF FetchFails, MentionTypeOK
  <2>2. /\ alarm' \in AlarmStates /\ alarm'.pc = "poll" /\ alarm'.upTo = alarm.upTo
        /\ alarm'.missed = alarm.missed \union (In(c) \ watermark)
        /\ alarm'.left = alarm.left \ {c}
    BY <2>1 DEF AlarmStates, In
  <2>3. PollCovers'
    BY <1>3, <2>1, <2>2
       DEF FetchFails, MentionTypeOK, PollCovers, OnlyFailedFetchesSkip, In
  <2> QED
    BY <1>3, <2>1, <2>2, <2>3
       DEF FetchFails, MentionTypeOK, OnlyFailedFetchesSkip, CountIsOfTheLastMail
<1>4. CASE AdvanceWatermark
  <2>1. alarm' \in AlarmStates /\ alarm'.pc = "check" /\ alarm.pc = "poll"
    BY <1>4 DEF AdvanceWatermark, AlarmStates
  <2>2. watermark' = alarm.upTo /\ alarm.upTo \subseteq posted
    BY <1>4 DEF AdvanceWatermark, PollCovers
  <2>3. OnlyFailedFetchesSkip'
    BY <1>4, <2>2
       DEF AdvanceWatermark, PollCovers, OnlyFailedFetchesSkip, MentionTypeOK
  <2>4. MentionTypeOK'
    BY <1>4, <2>1, <2>2 DEF AdvanceWatermark, MentionTypeOK
  <2> QED
    BY <1>4, <2>1, <2>3, <2>4 DEF AdvanceWatermark, PollCovers, CountIsOfTheLastMail
<1> QED
  BY <1>1, <1>2, <1>3, <1>4

LEMMA CheckStep ==
    ASSUME MentionInv, SendMail \/ NoMail \/ PutCount \/ AlarmIsLost
    PROVE  MentionInv'
<1> USE DEF MentionInv
<1>1. CASE SendMail
  <2>1. Unread \subseteq Mentions /\ Cardinality(Unread) \in 0..Cardinality(Mentions)
    BY CountsAreBounded DEF Unread
  <2>2. /\ alarm' \in AlarmStates /\ alarm'.pc = "mail"
        /\ alarm'.count = Cardinality(Unread) /\ mailed' = Unread
    BY <1>1, <2>1 DEF SendMail, AlarmStates
  <2> QED
    BY <1>1, <2>1, <2>2 DEF SendMail, MentionTypeOK, OnlyFailedFetchesSkip, PollCovers,
                            CountIsOfTheLastMail
<1>2. CASE NoMail \/ AlarmIsLost
  <2>1. alarm' \in AlarmStates /\ alarm'.pc = "asleep"
    BY <1>2 DEF NoMail, AlarmIsLost, AlarmStates, Asleep
  <2> QED
    BY <1>2, <2>1 DEF NoMail, AlarmIsLost, MentionTypeOK, OnlyFailedFetchesSkip,
                      PollCovers, CountIsOfTheLastMail
<1>3. CASE PutCount
  <2>1. alarm \in [pc : {"mail"}, count : 0..Cardinality(Mentions), seen : BOOLEAN]
    BY <1>3, AlarmShapes DEF PutCount, MentionTypeOK
  <2>2. alarm' \in AlarmStates /\ alarm'.pc = "asleep"
    BY <1>3 DEF PutCount, AlarmStates, Asleep
  <2> QED
    BY <1>3, <2>1, <2>2 DEF PutCount, MentionTypeOK, OnlyFailedFetchesSkip, PollCovers,
                            CountIsOfTheLastMail
<1> QED
  BY <1>1, <1>2, <1>3

LEMMA MentionInvStep ==
    ASSUME MentionInv, [MentionNext]_mentionVars
    PROVE  MentionInv'
  BY RequestsStep, TouchStep, PollStep, CheckStep DEF MentionNext

(* The inductive invariant of the mentions; fairness has no part in it. *)
THEOREM MentionInvIsInvariant == MentionInit /\ [][MentionNext]_mentionVars => []MentionInv
  BY MentionInitInv, MentionInvStep, PTL

(* The watermark passes no mention that was not noticed, unless a fetch of its
   channel failed: for any posts and channels, however the alarm and the requests
   interleave. *)
THEOREM TheWatermarkSkipsNothingElse ==
    MentionInit /\ [][MentionNext]_mentionVars => []OnlyFailedFetchesSkip
  BY MentionInvIsInvariant, PTL DEF MentionInv

LEMMA MailHasNews ==
    ASSUME MentionInv, SendMail, ~lateMark
    PROVE  ~(Unread \subseteq mailed)
<1> USE DEF MentionInv
<1>1. alarm.pc = "check" /\ Cardinality(Unread) > notified
  BY DEF SendMail, HasGrown
<1>2. notified = Cardinality(mailed)
  BY <1>1 DEF CountIsOfTheLastMail
<1>3. IsFiniteSet(mailed) /\ Cardinality(mailed) \in 0..Cardinality(Mentions)
  BY CountsAreBounded DEF MentionTypeOK
<1>4. ASSUME Unread \subseteq mailed
      PROVE  Cardinality(Unread) <= Cardinality(mailed)
  BY <1>3, <1>4, FS_Subset
<1>5. Cardinality(Unread) \in 0..Cardinality(Mentions)
  BY CountsAreBounded DEF Unread
<1> QED
  BY <1>1, <1>2, <1>3, <1>4, <1>5, CountsAreBounded

(* Every mail has news: comparing counts is enough, although the count is put
   after the mail has been awaited, as long as it is put at all and the employee
   was not seen in between. *)
THEOREM EveryMailHasNews ==
    MentionInit /\ [][MentionNext]_mentionVars => MailsAreNews
<1>1. MentionInv /\ [MentionNext]_mentionVars =>
        [SendMail => ~(Unread \subseteq mailed) \/ lateMark]_mentionVars
  BY MailHasNews
<1> QED
  BY <1>1, MentionInvIsInvariant, PTL DEF MailsAreNews

=============================================================================

------------------------------ MODULE StaffProofs ------------------------------
(* Proofs about what the staff of Parrot use: the directory and the sign-in to
   the chat, for any invites, operators, sign-ins and lives of a code and a
   token, and the rows of the chat, for any rooms and posts. *)
EXTENDS StaffAccess, ChatPane, TLAPS

-----------------------------------------------------------------------------
(* Sign-in.  A ticket that the row vouched for was issued while its user was not
   disabled, and no longer ago than its own age: so the time since the user was
   disabled is bounded by the age of the code, and after that by the life of the
   code and the age of the token. *)
Suspect(k) == ticket[k].vouched /\ ticket[k].user = holder /\ disabled

TicketIsYoung(k) ==
    /\ ticket[k].st = "minting" => disabledFor = 0
    /\ ticket[k].st = "code"    => disabledFor <= ticket[k].age
    /\ ticket[k].st = "buying"  => disabledFor <= CodeTTL
    /\ ticket[k].st = "token"   => disabledFor <= CodeTTL + ticket[k].age

(* A removal under way is of somebody. *)
RemovalsHaveUsers == \A o \in Operators : removal[o].st # "none" => removal[o].user \in Invites

EnabledForNow == ~disabled => disabledFor = 0

AccessInv ==
    /\ AccessTypeOK
    /\ RemovalsHaveUsers
    /\ UsersAreListed
    /\ EnabledForNow
    /\ \A k \in Tickets : Suspect(k) => TicketIsYoung(k)

LEMMA MaxAgeIsNat == MaxAge \in Nat /\ MaxAge > CodeTTL + TokenTTL
  BY TTLAssumption DEF MaxAge

LEMMA AccessInitInv == AccessInit => AccessInv
<1> SUFFICES ASSUME AccessInit PROVE AccessInv
  OBVIOUS
<1>1. AccessTypeOK
  <2>1. 0 \in 0..MaxAge
    BY MaxAgeIsNat
  <2>2. NoTicket \in [st : {"none", "minting", "code", "buying", "token"},
                     user : Invites \union {Vacant}, vouched : BOOLEAN, age : 0..MaxAge]
    BY <2>1 DEF NoTicket
  <2>3. NoRemoval \in [st : {"none", "lock", "write"}, user : Invites \union {Vacant},
                      hard : BOOLEAN]
    BY DEF NoRemoval
  <2> QED
    BY <2>1, <2>2, <2>3 DEF AccessInit, AccessTypeOK
<1> QED
  BY <1>1 DEF AccessInit, AccessInv, RemovalsHaveUsers, NoRemoval, UsersAreListed,
              EnabledForNow, Suspect

LEMMA AccessTypeStep ==
    ASSUME AccessTypeOK, RemovalsHaveUsers, [AccessNext]_accessVars
    PROVE  AccessTypeOK' /\ RemovalsHaveUsers'
<1> USE MaxAgeIsNat DEF AccessTypeOK, RemovalsHaveUsers
<1>1. ASSUME NEW i \in Invites,
             \/ CheckAddress(i) \/ CreateClerkUser(i) \/ CreateUserFails(i)
             \/ CreateEmployee(i) \/ CreateEmployeeFails(i)
      PROVE  AccessTypeOK' /\ RemovalsHaveUsers'
  <2>1. CASE CheckAddress(i) \/ CreateClerkUser(i)
    BY <2>1 DEF CheckAddress, CreateClerkUser
  <2>2. CASE CreateUserFails(i)
    BY <2>2 DEF CreateUserFails
  <2>3. CASE CreateEmployee(i)
    <3>1. 0 \in 0..MaxAge
      OBVIOUS
    <3> QED
      BY <2>3, <3>1 DEF CreateEmployee
  <2>4. CASE CreateEmployeeFails(i)
    BY <2>4 DEF CreateEmployeeFails
  <2> QED
    BY <1>1, <2>1, <2>2, <2>3, <2>4
<1>2. ASSUME NEW o \in Operators,
             \/ \E hard \in BOOLEAN : StartRemoval(o, hard)
             \/ LockUser(o) \/ DisableRow(o) \/ DeleteRow(o)
      PROVE  AccessTypeOK' /\ RemovalsHaveUsers'
  <2>1. CASE \E hard \in BOOLEAN : StartRemoval(o, hard)
    BY <2>1 DEF StartRemoval
  <2>2. CASE LockUser(o)
    BY <2>2 DEF LockUser
  <2>3. NoRemoval \in [st : {"none", "lock", "write"}, user : Invites \union {Vacant},
                      hard : BOOLEAN]
    BY DEF NoRemoval
  <2>4. CASE DisableRow(o)
    BY <2>3, <2>4 DEF DisableRow, NoRemoval
  <2>5. CASE DeleteRow(o)
    <3>1. 0 \in 0..MaxAge /\ removal[o].user \in Invites
      BY <2>5 DEF DeleteRow, RemovalsHaveUsers
    <3> QED
      BY <2>3, <2>5, <3>1 DEF DeleteRow, NoRemoval
  <2> QED
    BY <1>2, <2>1, <2>2, <2>4, <2>5
<1>3. ASSUME NEW k \in Tickets,
             \/ \E u \in Invites : Authorize(k, u)
             \/ CreateAuthCode(k) \/ ConsumeAuthCode(k) \/ CreateAccessToken(k)
      PROVE  AccessTypeOK' /\ RemovalsHaveUsers'
  BY <1>3 DEF Authorize, CreateAuthCode, ConsumeAuthCode, CreateAccessToken
<1>4. ASSUME SweepExpired
      PROVE  AccessTypeOK' /\ RemovalsHaveUsers'
  BY <1>4 DEF SweepExpired, NoTicket
<1>5. ASSUME AccessTick
      PROVE  AccessTypeOK' /\ RemovalsHaveUsers'
  <2>1. disabledFor' \in 0..MaxAge
    BY <1>5 DEF AccessTick
  <2>2. ticket' \in [Tickets -> [st : {"none", "minting", "code", "buying", "token"},
                                 user : Invites \union {Vacant}, vouched : BOOLEAN,
                                 age : 0..MaxAge]]
    BY <1>5 DEF AccessTick
  <2> QED
    BY <1>5, <2>1, <2>2 DEF AccessTick
<1>6. ASSUME UNCHANGED accessVars
      PROVE  AccessTypeOK' /\ RemovalsHaveUsers'
  BY <1>6 DEF accessVars
<1> QED
  BY <1>1, <1>2, <1>3, <1>4, <1>5, <1>6 DEF AccessNext

(* What leaves the tickets and the row alone leaves what is said of them. *)
LEMMA TicketsStay ==
    ASSUME AccessInv, UNCHANGED <<holder, disabled, ticket, disabledFor>>
    PROVE  EnabledForNow' /\ \A k \in Tickets : Suspect(k)' => TicketIsYoung(k)'
  BY DEF AccessInv, EnabledForNow, Suspect, TicketIsYoung

(* A row that is new, or gone, makes nobody suspect. *)
LEMMA NobodySuspect ==
    ASSUME ~disabled', disabledFor' = 0
    PROVE  EnabledForNow' /\ \A k \in Tickets : Suspect(k)' => TicketIsYoung(k)'
  BY DEF EnabledForNow, Suspect

LEMMA AccessInvStep ==
    ASSUME AccessInv, [AccessNext]_accessVars
    PROVE  AccessInv'
<1> USE DEF AccessInv
<1>0. AccessTypeOK' /\ RemovalsHaveUsers'
  BY AccessTypeStep
<1>1. ASSUME NEW i \in Invites,
             \/ CheckAddress(i) \/ CreateClerkUser(i) \/ CreateUserFails(i)
             \/ CreateEmployeeFails(i)
      PROVE  AccessInv'
  <2>1. UsersAreListed'
    BY <1>1 DEF CheckAddress, CreateClerkUser, CreateUserFails, CreateEmployeeFails,
                UsersAreListed, AccessTypeOK
  <2>2. UNCHANGED <<holder, disabled, ticket, disabledFor>>
    BY <1>1 DEF CheckAddress, CreateClerkUser, CreateUserFails, CreateEmployeeFails
  <2> QED
    BY <1>0, <2>1, <2>2, TicketsStay
<1>2. ASSUME NEW i \in Invites, CreateEmployee(i)
      PROVE  AccessInv'
  <2>1. UsersAreListed'
    BY <1>2, VacantAssumption DEF CreateEmployee, UsersAreListed, AccessTypeOK
  <2>2. ~disabled' /\ disabledFor' = 0
    BY <1>2 DEF CreateEmployee
  <2> QED
    BY <1>0, <2>1, <2>2, NobodySuspect
<1>3. ASSUME NEW o \in Operators,
             (\E hard \in BOOLEAN : StartRemoval(o, hard)) \/ LockUser(o)
      PROVE  AccessInv'
  <2>1. UNCHANGED <<invite, users, holder, disabled, ticket, disabledFor, removed>>
    BY <1>3 DEF StartRemoval, LockUser
  <2> QED
    BY <1>0, <2>1, TicketsStay DEF UsersAreListed
<1>4. ASSUME NEW o \in Operators, DisableRow(o)
      PROVE  AccessInv'
  <2>1. UsersAreListed'
    BY <1>4 DEF DisableRow, UsersAreListed
  <2>2. EnabledForNow'
    BY <1>4 DEF DisableRow, EnabledForNow, AccessTypeOK
  <2>3. ASSUME NEW k \in Tickets, Suspect(k)'
        PROVE  TicketIsYoung(k)'
    <3>1. CASE disabled
      BY <1>4, <2>3, <3>1 DEF DisableRow, Suspect, TicketIsYoung
    <3>2. CASE ~disabled
      <4>1. disabledFor' = 0 /\ ticket' = ticket
        BY <1>4, <3>2 DEF DisableRow, EnabledForNow
      <4>2. ticket[k].age \in Nat
        BY MaxAgeIsNat DEF AccessTypeOK
      <4> QED
        BY <4>1, <4>2, TTLAssumption DEF TicketIsYoung
    <3> QED
      BY <3>1, <3>2
  <2> QED
    BY <1>0, <2>1, <2>2, <2>3
<1>5. ASSUME NEW o \in Operators, DeleteRow(o)
      PROVE  AccessInv'
  <2>1. UsersAreListed'
    BY <1>5 DEF DeleteRow, UsersAreListed
  <2>2. CASE holder = removal[o].user
    <3>1. ~disabled' /\ disabledFor' = 0
      BY <1>5, <2>2 DEF DeleteRow
    <3> QED
      BY <1>0, <2>1, <3>1, NobodySuspect
  <2>3. CASE holder # removal[o].user
    <3>1. UNCHANGED <<holder, disabled, ticket, disabledFor>>
      BY <1>5, <2>3 DEF DeleteRow
    <3> QED
      BY <1>0, <2>1, <3>1, TicketsStay
  <2> QED
    BY <2>2, <2>3
<1>6. ASSUME NEW k \in Tickets,
             \/ \E u \in Invites : Authorize(k, u)
             \/ CreateAuthCode(k) \/ ConsumeAuthCode(k) \/ CreateAccessToken(k)
      PROVE  AccessInv'
  <2>1. UsersAreListed' /\ EnabledForNow'
    BY <1>6 DEF Authorize, CreateAuthCode, ConsumeAuthCode, CreateAccessToken,
                UsersAreListed, EnabledForNow
  <2>2. \A l \in Tickets : l # k => ticket'[l] = ticket[l]
    BY <1>6 DEF Authorize, CreateAuthCode, ConsumeAuthCode, CreateAccessToken,
                AccessTypeOK
  <2>3. ASSUME Suspect(k)'
        PROVE  TicketIsYoung(k)'
    <3>1. CASE \E u \in Invites : Authorize(k, u)
      BY <2>3, <3>1, VacantAssumption DEF Authorize, Suspect, AccessTypeOK
    <3>2. CASE CreateAuthCode(k)
      BY <2>3, <3>2, MaxAgeIsNat
         DEF CreateAuthCode, Suspect, TicketIsYoung, AccessTypeOK
    <3>3. CASE ConsumeAuthCode(k)
      BY <2>3, <3>3, MaxAgeIsNat, TTLAssumption
         DEF ConsumeAuthCode, Suspect, TicketIsYoung, AccessTypeOK
    <3>4. CASE CreateAccessToken(k)
      BY <2>3, <3>4, MaxAgeIsNat, TTLAssumption
         DEF CreateAccessToken, Suspect, TicketIsYoung, AccessTypeOK
    <3> QED
      BY <1>6, <3>1, <3>2, <3>3, <3>4
  <2>4. ASSUME NEW l \in Tickets, l # k, Suspect(l)'
        PROVE  TicketIsYoung(l)'
    <3>1. UNCHANGED <<holder, disabled, disabledFor>>
      BY <1>6 DEF Authorize, CreateAuthCode, ConsumeAuthCode, CreateAccessToken
    <3> QED
      BY <2>2, <2>4, <3>1 DEF Suspect, TicketIsYoung
  <2> QED
    BY <1>0, <2>1, <2>3, <2>4
<1>7. ASSUME SweepExpired
      PROVE  AccessInv'
  <2>1. UsersAreListed' /\ EnabledForNow'
    BY <1>7 DEF SweepExpired, UsersAreListed, EnabledForNow
  <2>2. ASSUME NEW k \in Tickets, Suspect(k)'
        PROVE  TicketIsYoung(k)'
    <3>1. ticket'[k] = ticket[k] \/ ticket'[k] = NoTicket
      BY <1>7 DEF SweepExpired
    <3> QED
      BY <1>7, <2>2, <3>1 DEF SweepExpired, Suspect, TicketIsYoung, NoTicket
  <2> QED
    BY <1>0, <2>1, <2>2
<1>8. ASSUME AccessTick
      PROVE  AccessInv'
  <2>1. UsersAreListed' /\ EnabledForNow'
    BY <1>8 DEF AccessTick, UsersAreListed, EnabledForNow
  <2>2. ASSUME NEW k \in Tickets, Suspect(k)'
        PROVE  TicketIsYoung(k)'
    <3>1. /\ ticket[k] \in [st : {"none", "minting", "code", "buying", "token"},
                            user : Invites \union {Vacant}, vouched : BOOLEAN,
                            age : 0..MaxAge]
          /\ disabledFor \in 0..MaxAge
      BY DEF AccessTypeOK
    <3>2. ticket[k].st \in {"none", "code", "token"}
      BY <1>8, <3>1 DEF AccessTick, InRequest
    <3>3. Suspect(k)
      BY <1>8, <2>2, <3>1 DEF AccessTick, Suspect
    <3>4. disabledFor' = IF disabledFor < MaxAge THEN disabledFor + 1 ELSE disabledFor
      BY <1>8, <3>3 DEF AccessTick, Suspect
    <3>5. /\ ticket'[k].st = ticket[k].st
          /\ ticket[k].st \in {"code", "token"} =>
               ticket'[k].age = IF ticket[k].age < MaxAge THEN ticket[k].age + 1
                                ELSE ticket[k].age
      BY <1>8, <3>1 DEF AccessTick
    <3> QED
      BY <3>1, <3>2, <3>3, <3>4, <3>5, MaxAgeIsNat, TTLAssumption DEF TicketIsYoung
  <2> QED
    BY <1>0, <2>1, <2>2
<1>9. ASSUME UNCHANGED accessVars
      PROVE  AccessInv'
  <2>1. UNCHANGED <<holder, disabled, ticket, disabledFor>>
    BY <1>9 DEF accessVars
  <2> QED
    BY <1>0, <1>9, <2>1, TicketsStay DEF accessVars, UsersAreListed
<1> QED
  BY <1>1, <1>2, <1>3, <1>4, <1>5, <1>6, <1>7, <1>8, <1>9 DEF AccessNext

(* The inductive invariant of invitation, removal and sign-in, of which
   AccessTypeOK is a part. *)
THEOREM AccessInvIsInvariant == AccessSpec => []AccessInv
<1> QED
  BY AccessInitInv, AccessInvStep, PTL DEF AccessSpec

(* admin-employees.ts:150: a user at Clerk whose row was written is shown by the
   directory until that row is deleted, however invites and removals cross. *)
THEOREM EveryUserIsListed == AccessSpec => []UsersAreListed
<1>1. AccessInv => UsersAreListed
  BY DEF AccessInv
<1> QED
  BY <1>1, AccessInvIsInvariant, PTL

(* oidc.ts: the sign-ins of a disabled employee are over within the life of a
   code and that of a token. *)
THEOREM DisabledAccessEnds == AccessSpec => []AccessEnds
<1>1. AccessInv => AccessEnds
  <2> SUFFICES ASSUME AccessInv, NEW k \in Tickets, Valid(k), Suspect(k)
               PROVE  disabledFor <= CodeTTL + TokenTTL
    BY DEF AccessEnds, Suspect
  <2>1. TicketIsYoung(k)
    BY DEF AccessInv
  <2> QED
    BY <2>1, TTLAssumption, MaxAgeIsNat
       DEF Valid, TicketIsYoung, AccessInv, AccessTypeOK
<1> QED
  BY <1>1, AccessInvIsInvariant, PTL

-----------------------------------------------------------------------------
(* The chat.  What an entry shows belongs to its room because everything that can
   get into it does: the answers of the fetches, the events on the wire, and the
   post a message became, which stays in the room it was sent to. *)
AnswersBelong == \A c \in Rooms : \A t \in fetch[c].posts : home[t] = c

EventsAreOfPosts == \A t \in wire : home[t] # Nowhere

SentIsInItsRoom ==
    /\ sending.st = "posting" => home[sending.text] = Nowhere
    /\ sending.st = "taken"   => home[sending.text] = sending.to

EmptyUnlessLoaded == \A c \in Rooms : c \notin loaded => shown[c] = {}

ChatInv == /\ ChatTypeOK
           /\ AnswersBelong
           /\ EventsAreOfPosts
           /\ SentIsInItsRoom
           /\ EmptyUnlessLoaded
           /\ RowsBelong

(* Temporary rows are no posts, and each is of one message. *)
LEMMA TempsAreApart ==
    /\ \A t \in Mine : t \in Texts /\ Temp(t) \in Rows /\ Temp(t) \notin Texts
    /\ \A t, u : Temp(t) = Temp(u) => t = u
  BY TextsAssumption DEF Rows, Texts, Temp

LEMMA NoFetchIsEmpty == NoFetch.posts = {} /\ Asked.posts = {}
                        /\ NoFetch \in [st : {"none", "asked", "answered"}, posts : SUBSET Texts]
                        /\ Asked \in [st : {"none", "asked", "answered"}, posts : SUBSET Texts]
  BY DEF NoFetch, Asked

LEMMA ChatInitInv == ChatInit => ChatInv
<1> SUFFICES ASSUME ChatInit PROVE ChatInv
  OBVIOUS
<1>1. ChatTypeOK
  BY NoFetchIsEmpty DEF ChatInit, ChatTypeOK
<1>2. AnswersBelong
  BY NoFetchIsEmpty DEF ChatInit, AnswersBelong
<1> QED
  BY <1>1, <1>2
     DEF ChatInit, ChatInv, EventsAreOfPosts, SentIsInItsRoom, EmptyUnlessLoaded,
         RowsBelong, NotSending

(* A post that is made public was nowhere before, so no answer and no row has
   it. *)
LEMMA PublishKeeps ==
    ASSUME ChatInv, NEW t \in Texts, NEW c \in Rooms, home[t] = Nowhere, Publish(t, c),
           UNCHANGED <<shown, loaded, open, pinning, overtaken>>
    PROVE  /\ home' \in [Texts -> Rooms \union {Nowhere}] /\ home'[t] = c
           /\ wire' \subseteq Texts
           /\ EventsAreOfPosts'
           /\ \A u \in Texts : u # t => home'[u] = home[u]
  BY NowhereAssumption DEF ChatInv, ChatTypeOK, Publish, EventsAreOfPosts

LEMMA ChatTypeStep ==
    ASSUME ChatInv, [ChatNext]_chatVars
    PROVE  ChatTypeOK'
<1> USE NoFetchIsEmpty DEF ChatInv, ChatTypeOK
<1>1. ASSUME NEW t \in Texts, NEW c \in Rooms, TheyPost(t, c)
      PROVE  ChatTypeOK'
  BY <1>1, PublishKeeps DEF TheyPost
<1>2. ASSUME NEW t \in Texts, HandlePosted(t)
      PROVE  ChatTypeOK'
  BY <1>2 DEF HandlePosted, SetRows, Rows
<1>3. ASSUME NEW t \in Texts, Send(t)
      PROVE  ChatTypeOK'
  <2>1. sending' \in [st : {"posting", "taken"}, text : Mine, to : Rooms]
    BY <1>3 DEF Send
  <2> QED
    BY <1>3, <2>1, TempsAreApart DEF Send, SetRows, CancelFetch
<1>4. ASSUME NEW c \in Rooms, OpenRoom(c) \/ FetchArrives(c) \/ PostsFail(c)
      PROVE  ChatTypeOK'
  <2>1. CASE OpenRoom(c)
    BY <2>1 DEF OpenRoom
  <2>2. CASE FetchArrives(c)
    <3>1. fetch[c].posts \in SUBSET Rows
      BY DEF Rows
    <3> QED
      BY <2>2, <3>1 DEF FetchArrives, SetRows
  <2>3. CASE PostsFail(c)
    BY <2>3 DEF PostsFail
  <2> QED
    BY <1>4, <2>1, <2>2, <2>3
<1>5. ASSUME NEW c \in Rooms, ServerAnswers(c)
      PROVE  ChatTypeOK'
  <2>1. InRoom(c) \subseteq Texts
    BY DEF InRoom
  <2> QED
    BY <1>5, <2>1 DEF ServerAnswers
<1>6. ASSUME ServerTakesPost
      PROVE  ChatTypeOK'
  <2>1. /\ sending \in [st : {"posting", "taken"}, text : Mine, to : Rooms]
        /\ sending' \in [st : {"posting", "taken"}, text : Mine, to : Rooms]
    BY <1>6 DEF ServerTakesPost, NotSending
  <2>2. home' \in [Texts -> Rooms \union {Nowhere}] /\ wire' \subseteq Texts
    BY <1>6, <2>1 DEF ServerTakesPost, Publish, Texts
  <2> QED
    BY <1>6, <2>1, <2>2 DEF ServerTakesPost
<1>7. ASSUME SendSucceeds \/ SendFails
      PROVE  ChatTypeOK'
  <2>1. sending \in [st : {"posting", "taken"}, text : Mine, to : Rooms]
    BY <1>7 DEF SendSucceeds, SendFails, NotSending
  <2>2. /\ Swap(open, sending.text) \in SUBSET Rows
        /\ shown[open] \ {Temp(sending.text)} \in SUBSET Rows
    BY <2>1, TempsAreApart DEF Swap, Rows
  <2>3. shown' \in [Rooms -> SUBSET Rows] /\ loaded' \subseteq Rooms
    BY <1>7, <2>2 DEF SendSucceeds, SendFails, Patch, SetRows
  <2> QED
    BY <1>7, <2>3 DEF SendSucceeds, SendFails
<1>8. ASSUME Pin
      PROVE  ChatTypeOK'
  <2>1. pinning' \in [st : {"pinning"}, at : Rooms, previous : SUBSET Rows]
    BY <1>8 DEF Pin
  <2> QED
    BY <1>8, <2>1 DEF Pin, SetRows, CancelFetch
<1>9. ASSUME PinFails
      PROVE  ChatTypeOK'
  <2>1. pinning \in [st : {"pinning"}, at : Rooms, previous : SUBSET Rows]
    BY <1>9 DEF PinFails
  <2> QED
    BY <1>9, <2>1 DEF PinFails, SetRows
<1>10. ASSUME SocketCloses \/ PinSucceeds \/ Invalidate \/ UNCHANGED chatVars
       PROVE  ChatTypeOK'
  BY <1>10 DEF SocketCloses, PinSucceeds, Invalidate, chatVars
<1> QED
  BY <1>1, <1>2, <1>3, <1>4, <1>5, <1>6, <1>7, <1>8, <1>9, <1>10 DEF ChatNext

(* Every step keeps what is said of the answers, the events and the message
   under way. *)
LEMMA ChatPartsStep ==
    ASSUME ChatInv, [ChatNext]_chatVars
    PROVE  AnswersBelong' /\ EventsAreOfPosts' /\ SentIsInItsRoom' /\ EmptyUnlessLoaded'
<1> DEFINE Goal == AnswersBelong /\ EventsAreOfPosts /\ SentIsInItsRoom /\ EmptyUnlessLoaded
<1> SUFFICES Goal'
  OBVIOUS
<1> USE NoFetchIsEmpty DEF ChatInv
<1>1. ASSUME NEW t \in Texts, NEW c \in Rooms, TheyPost(t, c)
      PROVE  Goal'
  <2>1. home[t] = Nowhere /\ Publish(t, c)
        /\ UNCHANGED <<shown, loaded, open, fetch, sending, pinning, overtaken>>
    BY <1>1 DEF TheyPost
  <2>2. /\ EventsAreOfPosts'
        /\ \A u \in Texts : u # t => home'[u] = home[u]
    BY <2>1, PublishKeeps
  <2>3. AnswersBelong'
    BY <2>1, <2>2, NowhereAssumption DEF AnswersBelong, ChatTypeOK
  <2>4. ASSUME sending # NotSending
        PROVE  sending.text \in Mine /\ home'[sending.text] = home[sending.text]
    <3>1. sending.text \in Mine /\ sending.text # t /\ sending.text \in Texts
      BY <1>1, <2>4, TextsAssumption, TempsAreApart DEF TheyPost, ChatTypeOK
    <3> QED
      BY <2>2, <3>1
  <2>5. SentIsInItsRoom'
    BY <2>1, <2>4 DEF SentIsInItsRoom, NotSending
  <2> QED
    BY <2>1, <2>2, <2>3, <2>5 DEF EmptyUnlessLoaded
<1>2. ASSUME NEW t \in Texts, HandlePosted(t)
      PROVE  Goal'
  BY <1>2 DEF HandlePosted, SetRows, AnswersBelong, EventsAreOfPosts, SentIsInItsRoom,
              EmptyUnlessLoaded, ChatTypeOK
<1>3. ASSUME NEW t \in Texts, Send(t)
      PROVE  Goal'
  BY <1>3, TextsAssumption
     DEF Send, SetRows, CancelFetch, AnswersBelong, EventsAreOfPosts,
         SentIsInItsRoom, EmptyUnlessLoaded, ChatTypeOK
<1>4. ASSUME NEW c \in Rooms, OpenRoom(c) \/ FetchArrives(c) \/ PostsFail(c)
      PROVE  Goal'
  BY <1>4 DEF OpenRoom, FetchArrives, PostsFail, SetRows, AnswersBelong,
              EventsAreOfPosts, SentIsInItsRoom, EmptyUnlessLoaded, ChatTypeOK
<1>5. ASSUME NEW c \in Rooms, ServerAnswers(c)
      PROVE  Goal'
  BY <1>5 DEF ServerAnswers, InRoom, AnswersBelong, EventsAreOfPosts,
              SentIsInItsRoom, EmptyUnlessLoaded, ChatTypeOK
<1>6. ASSUME ServerTakesPost
      PROVE  Goal'
  <2>1. /\ sending \in [st : {"posting", "taken"}, text : Mine, to : Rooms]
        /\ sending.text \in Texts
        /\ Publish(sending.text, sending.to)
        /\ UNCHANGED <<shown, loaded, open, fetch, pinning, overtaken>>
    BY <1>6, TempsAreApart DEF ServerTakesPost, NotSending, ChatTypeOK
  <2>2. home[sending.text] = Nowhere
    BY <1>6 DEF ServerTakesPost, SentIsInItsRoom
  <2>3. /\ EventsAreOfPosts' /\ home'[sending.text] = sending.to
        /\ \A u \in Texts : u # sending.text => home'[u] = home[u]
    BY <2>1, <2>2, PublishKeeps
  <2>4. AnswersBelong'
    BY <2>1, <2>2, <2>3, NowhereAssumption DEF AnswersBelong, ChatTypeOK
  <2>5. SentIsInItsRoom'
    BY <1>6, <2>1, <2>3 DEF ServerTakesPost, SentIsInItsRoom
  <2> QED
    BY <2>1, <2>3, <2>4, <2>5 DEF EmptyUnlessLoaded
<1>7. ASSUME SendSucceeds \/ SendFails
      PROVE  Goal'
  BY <1>7 DEF SendSucceeds, SendFails, Patch, SetRows, NotSending, AnswersBelong,
              EventsAreOfPosts, SentIsInItsRoom, EmptyUnlessLoaded, ChatTypeOK
<1>8. ASSUME Pin \/ PinFails
      PROVE  Goal'
  BY <1>8 DEF Pin, PinFails, SetRows, CancelFetch, AnswersBelong, EventsAreOfPosts,
              SentIsInItsRoom, EmptyUnlessLoaded, ChatTypeOK
<1>9. ASSUME SocketCloses \/ PinSucceeds \/ Invalidate \/ UNCHANGED chatVars
       PROVE  Goal'
  BY <1>9 DEF SocketCloses, PinSucceeds, Invalidate, chatVars, AnswersBelong,
              EventsAreOfPosts, SentIsInItsRoom, EmptyUnlessLoaded, ChatTypeOK
<1> QED
  BY <1>1, <1>2, <1>3, <1>4, <1>5, <1>6, <1>7, <1>8, <1>9 DEF ChatNext

(* The rows.  Until a mutation is overtaken, every row that a step adds is of the
   room it is added to, and the row of a message goes with the message. *)
LEMMA ChatRowsStep ==
    ASSUME ChatInv, [ChatNext]_chatVars, ~overtaken'
    PROVE  RowsBelong'
<1>0. ~overtaken
  BY DEF ChatInv, ChatTypeOK, ChatNext, chatVars, TheyPost, HandlePosted, Send,
         OpenRoom, FetchArrives, PostsFail, ServerAnswers, ServerTakesPost,
         SendSucceeds, SendFails, Pin, PinSucceeds, PinFails, Invalidate,
         SocketCloses
<1>1. \A c \in Rooms : \A r \in shown[c] : RowBelongs(r, c)
  BY <1>0 DEF ChatInv, RowsBelong
<1> SUFFICES \A c \in Rooms : \A r \in shown'[c] : RowBelongs(r, c)'
  BY DEF RowsBelong
<1> USE DEF ChatInv
<1>2. ASSUME NEW t \in Texts, NEW c \in Rooms, home[t] = Nowhere, Publish(t, c),
             UNCHANGED <<shown, loaded, open, pinning, overtaken>>,
             sending' # NotSending <=> sending # NotSending,
             sending # NotSending => /\ sending'.text = sending.text
                                     /\ sending'.to = sending.to
      PROVE  \A d \in Rooms : \A r \in shown'[d] : RowBelongs(r, d)'
  <2>1. \A u \in Texts : u # t => home'[u] = home[u]
    BY <1>2, PublishKeeps
  <2>2. \A d \in Rooms : t \notin shown[d]
    BY <1>1, <1>2, NowhereAssumption DEF RowBelongs
  <2> QED
    BY <1>1, <1>2, <2>1, <2>2 DEF RowBelongs
<1>3. ASSUME NEW t \in Texts, NEW c \in Rooms, TheyPost(t, c)
      PROVE  \A d \in Rooms : \A r \in shown'[d] : RowBelongs(r, d)'
  BY <1>2, <1>3 DEF TheyPost
<1>4. ASSUME ServerTakesPost
      PROVE  \A d \in Rooms : \A r \in shown'[d] : RowBelongs(r, d)'
  <2>1. /\ sending \in [st : {"posting", "taken"}, text : Mine, to : Rooms]
        /\ sending' \in [st : {"posting", "taken"}, text : Mine, to : Rooms]
        /\ sending'.text = sending.text /\ sending'.to = sending.to
    BY <1>4 DEF ServerTakesPost, NotSending, ChatTypeOK
  <2>2. sending # NotSending /\ sending' # NotSending
    BY <2>1 DEF NotSending
  <2>3. sending.text \in Texts /\ home[sending.text] = Nowhere
    BY <1>4, <2>1, TempsAreApart DEF ServerTakesPost, SentIsInItsRoom
  <2> QED
    BY <1>2, <1>4, <2>1, <2>2, <2>3 DEF ServerTakesPost
<1>5. ASSUME NEW t \in Texts, HandlePosted(t)
      PROVE  \A d \in Rooms : \A r \in shown'[d] : RowBelongs(r, d)'
  BY <1>1, <1>5 DEF HandlePosted, SetRows, RowBelongs, ChatTypeOK
<1>6. ASSUME NEW c \in Rooms, FetchArrives(c)
      PROVE  \A d \in Rooms : \A r \in shown'[d] : RowBelongs(r, d)'
  <2>1. \A r \in fetch[c].posts : r \in Texts /\ home[r] = c
    BY DEF ChatTypeOK, AnswersBelong
  <2> QED
    BY <1>1, <1>6, <2>1 DEF FetchArrives, SetRows, RowBelongs, ChatTypeOK
<1>7. ASSUME NEW t \in Texts, Send(t)
      PROVE  \A d \in Rooms : \A r \in shown'[d] : RowBelongs(r, d)'
  <2>1. \A d \in Rooms : \A r \in shown[d] : r \in Texts /\ home[r] = d
    BY <1>1, <1>7 DEF Send, RowBelongs
  <2>2. /\ Temp(t) \notin Texts /\ sending' # NotSending
        /\ sending'.text = t /\ sending'.to = open
    BY <1>7, TempsAreApart DEF Send, NotSending
  <2> QED
    BY <1>7, <2>1, <2>2 DEF Send, SetRows, RowBelongs, ChatTypeOK
<1>8. ASSUME SendSucceeds \/ SendFails
      PROVE  \A d \in Rooms : \A r \in shown'[d] : RowBelongs(r, d)'
  <2>1. /\ sending \in [st : {"posting", "taken"}, text : Mine, to : Rooms]
        /\ sending # NotSending
        /\ home' = home
    BY <1>8 DEF SendSucceeds, SendFails, NotSending, ChatTypeOK
  <2>0. sending.to = open
    BY <1>8, Zenon DEF SendSucceeds, SendFails
  <2>2. sending.text \in Texts /\ Temp(sending.text) \notin Texts
    BY <2>1, TempsAreApart
  <2>3. \A d \in Rooms : \A r \in shown[d] :
           (r \in Texts /\ home[r] = d) \/ (d = open /\ r = Temp(sending.text))
    BY <1>1, <2>0, <2>1 DEF RowBelongs
  <2>4. \A d \in Rooms : \A r \in shown'[d] : r \in Texts /\ home[r] = d
    <3>1. CASE SendSucceeds
      <4>1. home[sending.text] = open
        BY <2>0, <3>1 DEF SendSucceeds, SentIsInItsRoom
      <4> QED
        BY <2>2, <2>3, <3>1, <4>1
           DEF SendSucceeds, Patch, SetRows, Swap, EmptyUnlessLoaded, ChatTypeOK
    <3>2. CASE SendFails
      BY <2>2, <2>3, <3>2
         DEF SendFails, Patch, SetRows, EmptyUnlessLoaded, ChatTypeOK
    <3> QED
      BY <1>8, <3>1, <3>2
  <2> QED
    BY <2>1, <2>4 DEF RowBelongs
<1>9. ASSUME Pin \/ PinFails
      PROVE  \A d \in Rooms : \A r \in shown'[d] : RowBelongs(r, d)'
  <2>1. SetRows(open, shown[open]) /\ UNCHANGED <<home, sending>>
    <3>1. CASE Pin
      BY <3>1 DEF Pin
    <3>2. CASE PinFails
      <4>1. shown[open] = pinning.previous
        BY <3>2, Zenon DEF PinFails
      <4> QED
        BY <3>2, <4>1 DEF PinFails
    <3> QED
      BY <1>9, <3>1, <3>2
  <2> QED
    BY <1>1, <2>1 DEF SetRows, RowBelongs, ChatTypeOK
<1>10. ASSUME UNCHANGED <<home, shown, sending>>
       PROVE  \A d \in Rooms : \A r \in shown'[d] : RowBelongs(r, d)'
  BY <1>1, <1>10 DEF RowBelongs
<1>11. ASSUME \/ \E c \in Rooms : OpenRoom(c) \/ PostsFail(c) \/ ServerAnswers(c)
              \/ SocketCloses \/ PinSucceeds \/ Invalidate \/ UNCHANGED chatVars
       PROVE  UNCHANGED <<home, shown, sending>>
  BY <1>11 DEF OpenRoom, PostsFail, ServerAnswers, SocketCloses, PinSucceeds,
               Invalidate, chatVars
<1> QED
  BY <1>3, <1>4, <1>5, <1>6, <1>7, <1>8, <1>9, <1>10, <1>11 DEF ChatNext

LEMMA ChatInvStep == ChatInv /\ [ChatNext]_chatVars => ChatInv'
<1> SUFFICES ASSUME ChatInv, [ChatNext]_chatVars PROVE ChatInv'
  OBVIOUS
<1>1. ChatTypeOK' /\ AnswersBelong' /\ EventsAreOfPosts' /\ SentIsInItsRoom'
      /\ EmptyUnlessLoaded'
  BY ChatTypeStep, ChatPartsStep
<1>2. RowsBelong'
  BY ChatRowsStep DEF RowsBelong
<1> QED
  BY <1>1, <1>2 DEF ChatInv

(* The inductive invariant of the chat, of which ChatTypeOK is a part. *)
THEOREM ChatInvIsInvariant == ChatSpec => []ChatInv
<1> QED
  BY ChatInitInv, ChatInvStep, PTL DEF ChatSpec

(* ChatPane.tsx: no room shows a post of another one, or a temporary row that no
   message is behind, until a mutation is overtaken. *)
THEOREM EveryRowBelongs == ChatSpec => []RowsBelong
<1>1. ChatInv => RowsBelong
  BY DEF ChatInv
<1> QED
  BY <1>1, ChatInvIsInvariant, PTL

=============================================================================

------------------------------ MODULE StaffAccess ------------------------------
(***************************************************************************)
(* Inviting, disabling and removing a Parrot employee, and their sign-in   *)
(* to the chat (apps/parrot/workers: routes/admin-employees.ts,            *)
(* lib/clerk-admin.ts, routes/oidc.ts, durableObject/workspace.ts).        *)
(*                                                                         *)
(* An invite asks the directory whether the workspace address is taken,    *)
(* makes a user at Clerk and then a row of the directory; the steps after  *)
(* it (flags, chat account, routing rule, welcome mail) may all fail and   *)
(* change nothing here.  Disabling locks the user at Clerk, or tries to,   *)
(* and then writes the row.  Signing in to the chat reads the row, mints a *)
(* code, and changes the code for an access token.                         *)
(*                                                                         *)
(* All invites are for one name, hence for one workspace address; each has *)
(* a phone of its own and so makes a user of its own.  Tickets stand for   *)
(* sign-ins.  A request ends within a tick of the clock.                   *)
(***************************************************************************)
EXTENDS Naturals, FiniteSets

CONSTANTS Invites,   \* and the Clerk users they make
          Operators, \* DELETE requests at once
          Tickets,   \* bound: sign-ins to the chat, one code and token each
          CodeTTL, TokenTTL,
          Vacant

ASSUME VacantAssumption == Vacant \notin Invites
ASSUME TTLAssumption == CodeTTL \in Nat /\ TokenTTL \in Nat

VARIABLES invite,      \* how far each invite is
          users,       \* at Clerk
          holder,      \* the user whose row has the workspace address
          disabled,    \* status of that row
          removal,     \* DELETE /:id under way
          ticket,      \* /authorize, the code and the token
          disabledFor, \* history: ticks since the user was disabled
          removed      \* history: users whose row was deleted

accessVars == <<invite, users, holder, disabled, removal, ticket, disabledFor,
                removed>>

NoRemoval == [st |-> "none", user |-> Vacant, hard |-> FALSE]
NoTicket  == [st |-> "none", user |-> Vacant, vouched |-> FALSE, age |-> 0]
MaxAge    == CodeTTL + TokenTTL + 1

AccessInit ==
    /\ invite = [i \in Invites |-> "new"]
    /\ users = {}
    /\ holder = Vacant /\ disabled = FALSE
    /\ removal = [o \in Operators |-> NoRemoval]
    /\ ticket = [k \in Tickets |-> NoTicket]
    /\ disabledFor = 0
    /\ removed = {}

-----------------------------------------------------------------------------
(* POST /api/admin/employees. *)

CheckAddress(i) ==
    /\ invite[i] = "new"
    /\ invite' = [invite EXCEPT ![i] = IF holder = Vacant THEN "checked" ELSE "taken"]
    /\ UNCHANGED <<users, holder, disabled, removal, ticket, disabledFor, removed>>

CreateClerkUser(i) ==
    /\ invite[i] = "checked"
    /\ users' = users \union {i}
    /\ invite' = [invite EXCEPT ![i] = "created"]
    /\ UNCHANGED <<holder, disabled, removal, ticket, disabledFor, removed>>

(* Clerk refuses, or its answer is lost and the user is there all the same. *)
CreateUserFails(i) ==
    /\ invite[i] = "checked"
    /\ \E made \in BOOLEAN :
         users' = IF made THEN users \union {i} ELSE users
    /\ invite' = [invite EXCEPT ![i] = "failed"]
    /\ UNCHANGED <<holder, disabled, removal, ticket, disabledFor, removed>>

(* Mutant: a row with the same address is replaced. *)
CreateEmployeeReplaces(i) ==
    /\ invite[i] = "created"
    /\ holder' = i /\ disabled' = FALSE /\ disabledFor' = 0
    /\ invite' = [invite EXCEPT ![i] = "listed"]
    /\ UNCHANGED <<users, removal, ticket, removed>>

(* The row is written, whether or not the answer of the durable object arrives. *)
CreateEmployee(i) ==
    /\ invite[i] = "created" /\ holder = Vacant
    /\ holder' = i /\ disabled' = FALSE /\ disabledFor' = 0
    /\ invite' = [invite EXCEPT ![i] = "listed"]
    /\ UNCHANGED <<users, removal, ticket, removed>>

(* It is not written, and nothing is undone: the second of two invites meets the
   UNIQUE workspace_email, or the call throws otherwise. *)
CreateEmployeeFails(i) ==
    /\ invite[i] = "created"
    /\ invite' = [invite EXCEPT ![i] = "failed"]
    /\ UNCHANGED <<users, holder, disabled, removal, ticket, disabledFor, removed>>

-----------------------------------------------------------------------------
(* DELETE /api/admin/employees/:id. *)

StartRemoval(o, hard) ==
    /\ removal[o] = NoRemoval /\ holder # Vacant
    /\ hard \/ ~disabled
    /\ removal' = [removal EXCEPT ![o] = [st |-> "lock", user |-> holder, hard |-> hard]]
    /\ UNCHANGED <<invite, users, holder, disabled, ticket, disabledFor, removed>>

(* disableClerkUser locks or not; either way the row comes next. *)
LockUser(o) ==
    /\ removal[o].st = "lock"
    /\ removal' = [removal EXCEPT ![o].st = "write"]
    /\ UNCHANGED <<invite, users, holder, disabled, ticket, disabledFor, removed>>

DisableRow(o) ==
    /\ removal[o].st = "write" /\ ~removal[o].hard
    /\ disabled' = (disabled \/ holder = removal[o].user)
    /\ removal' = [removal EXCEPT ![o] = NoRemoval]
    /\ UNCHANGED <<invite, users, holder, ticket, disabledFor, removed>>

DeleteRow(o) ==
    /\ removal[o].st = "write" /\ removal[o].hard
    /\ IF holder = removal[o].user
       THEN /\ holder' = Vacant /\ disabled' = FALSE /\ disabledFor' = 0
            /\ removed' = removed \union {holder}
       ELSE UNCHANGED <<holder, disabled, disabledFor, removed>>
    /\ removal' = [removal EXCEPT ![o] = NoRemoval]
    /\ UNCHANGED <<invite, users, ticket>>

-----------------------------------------------------------------------------
(* Signing in to the chat. *)

(* verifyClerkSession: a disabled row refuses; no row, or a lookup that failed,
   lets the claims of the session decide. *)
Authorize(k, u) ==
    /\ ticket[k] = NoTicket /\ u \in users
    /\ \E found \in BOOLEAN :
         /\ found => holder = u /\ ~disabled
         /\ ticket' = [ticket EXCEPT ![k] = [st |-> "minting", user |-> u,
                                             vouched |-> found, age |-> 0]]
    /\ UNCHANGED <<invite, users, holder, disabled, removal, disabledFor, removed>>

CreateAuthCode(k) ==
    /\ ticket[k].st = "minting"
    /\ ticket' = [ticket EXCEPT ![k].st = "code"]
    /\ UNCHANGED <<invite, users, holder, disabled, removal, disabledFor, removed>>

(* Mutant: the time the code has left is not asked for. *)
ConsumeAuthCodeAnyAge(k) ==
    /\ ticket[k].st = "code"
    /\ ticket' = [ticket EXCEPT ![k].st = "buying"]
    /\ UNCHANGED <<invite, users, holder, disabled, removal, disabledFor, removed>>

ConsumeAuthCode(k) ==
    /\ ticket[k].st = "code" /\ ticket[k].age <= CodeTTL
    /\ ticket' = [ticket EXCEPT ![k].st = "buying"]
    /\ UNCHANGED <<invite, users, holder, disabled, removal, disabledFor, removed>>

(* The token is stored whether or not the id token can be signed after it. *)
CreateAccessToken(k) ==
    /\ ticket[k].st = "buying"
    /\ ticket' = [ticket EXCEPT ![k].st = "token", ![k].age = 0]
    /\ UNCHANGED <<invite, users, holder, disabled, removal, disabledFor, removed>>

(* sweepExpired: codes that are used up or expired, and expired tokens. *)
SweepExpired ==
    /\ ticket' = [k \in Tickets |->
                    IF \/ ticket[k].st = "code" /\ ticket[k].age > CodeTTL
                       \/ ticket[k].st = "token" /\ ticket[k].age > TokenTTL
                    THEN NoTicket ELSE ticket[k]]
    /\ UNCHANGED <<invite, users, holder, disabled, removal, disabledFor, removed>>

InRequest(k) == ticket[k].st \in {"minting", "buying"}

AccessTick ==
    /\ \A k \in Tickets : ~InRequest(k)
    /\ ticket' = [k \in Tickets |->
                    IF ticket[k].st \in {"code", "token"} /\ ticket[k].age < MaxAge
                    THEN [ticket[k] EXCEPT !.age = @ + 1] ELSE ticket[k]]
    /\ disabledFor' = IF disabled /\ disabledFor < MaxAge THEN disabledFor + 1
                      ELSE disabledFor
    /\ UNCHANGED <<invite, users, holder, disabled, removal, removed>>

-----------------------------------------------------------------------------
AccessNext ==
    \/ \E i \in Invites : \/ CheckAddress(i) \/ CreateClerkUser(i)
                          \/ CreateUserFails(i) \/ CreateEmployee(i)
                          \/ CreateEmployeeFails(i)
    \/ \E o \in Operators : \/ \E hard \in BOOLEAN : StartRemoval(o, hard)
                            \/ LockUser(o) \/ DisableRow(o) \/ DeleteRow(o)
    \/ \E k \in Tickets : \/ \E u \in Invites : Authorize(k, u)
                          \/ CreateAuthCode(k) \/ ConsumeAuthCode(k)
                          \/ CreateAccessToken(k)
    \/ SweepExpired \/ AccessTick

AccessSpec == AccessInit /\ [][AccessNext]_accessVars

-----------------------------------------------------------------------------
AccessTypeOK ==
    /\ invite \in [Invites -> {"new", "checked", "taken", "created", "failed", "listed"}]
    /\ users \subseteq Invites
    /\ holder \in Invites \union {Vacant}
    /\ disabled \in BOOLEAN
    /\ removal \in [Operators -> [st : {"none", "lock", "write"},
                                  user : Invites \union {Vacant}, hard : BOOLEAN]]
    /\ ticket \in [Tickets -> [st : {"none", "minting", "code", "buying", "token"},
                               user : Invites \union {Vacant}, vouched : BOOLEAN,
                               age : 0..MaxAge]]
    /\ disabledFor \in 0..MaxAge
    /\ removed \subseteq Invites

(* admin-employees.ts:150: the row is written at once so that no user is left at
   Clerk whom the directory does not show.  A user whose row was written is shown
   until that row is deleted, whichever invites and removals cross; the others'
   invites are under way, were broken off, or failed before the row. *)
UsersAreListed ==
    \A u \in users : holder = u \/ u \in removed \/ invite[u] \in {"created", "failed"}

(* Once an employee is disabled their sign-ins to the chat run out within the
   life of a code and that of a token, however the requests crossed; those let
   through without the row aside. *)
Valid(k) == \/ ticket[k].st = "code" /\ ticket[k].age <= CodeTTL
            \/ ticket[k].st = "token" /\ ticket[k].age <= TokenTTL

AccessEnds ==
    \A k \in Tickets :
        Valid(k) /\ ticket[k].vouched /\ ticket[k].user = holder /\ disabled
            => disabledFor <= CodeTTL + TokenTTL

=============================================================================

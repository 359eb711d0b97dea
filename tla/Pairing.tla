------------------------------- MODULE Pairing -------------------------------
(***************************************************************************)
(* Pairing a student's phone with the LinkedIn identity they signed in     *)
(* with (apps/app/src/onboarding/pairing.mjs and the student methods of    *)
(* apps/app/src/store.mjs), at the grain of Postgres statements.           *)
(*                                                                         *)
(* A worker is a request the Node process is serving: a page load, which   *)
(* always runs upsertStudentFromAuth; /onboard/start, which then issues a  *)
(* START- code; the POST of a LinkedIn URL, which then runs                *)
(* updateStudentLinkedInProfileUrl; or a text that claims a code.  Workers *)
(* interleave at every await.  Row locks are held from the statement that  *)
(* takes them to the end of the transaction; what a transaction writes is  *)
(* applied at its commit, which is when others can see it.                 *)
(***************************************************************************)
EXTENDS Integers, FiniteSets

CONSTANTS Students, Codes, Urls, Phones, Workers, None

ASSUME NoneAssumption ==
    None \notin Students \union Codes \union Urls \union Phones \union Workers

VARIABLES url,          \* students.linkedin_profile_url, canonical, or None
          phone,        \* students.channel_address once confirmed, or None
          code,         \* the rows of pairing_sessions
          studentLock,  \* the transaction that holds each students row
          codeLock,     \* the transaction that holds each pairing_sessions row
          req           \* what each worker is doing

vars == <<url, phone, code, studentLock, codeLock, req>>

(***************************************************************************)
(* A code is unissued, open (unclaimed and unexpired), expired or claimed. *)
(* issuedFor is a history field: the LinkedIn URL generatePairingCode saw  *)
(* when it judged the student eligible.                                    *)
(***************************************************************************)
CodeRow ==
    [state : {"unissued", "open", "expired", "claimed"},
     student : Students \union {None},
     issuedFor : Urls \union {None},
     phone : Phones \union {None}]

Unissued ==
    [state |-> "unissued", student |-> None, issuedFor |-> None, phone |-> None]

Request ==
    [at : {"idle", "upsert", "expire", "check", "insert",
           "formread", "formupdate", "formexpire", "claim"},
     op : {"none", "page", "start", "form", "text"},
     s : Students \union {None},
     seen : Urls \union {None},     \* the URL read before the write
     to : Urls \union {None},       \* the URL to be written
     c : Codes \union {None},
     p : Phones \union {None}]

Idle ==
    [at |-> "idle", op |-> "none", s |-> None, seen |-> None, to |-> None,
     c |-> None, p |-> None]

TypeOK ==
    /\ url \in [Students -> Urls \union {None}]
    /\ phone \in [Students -> Phones \union {None}]
    /\ code \in [Codes -> CodeRow]
    /\ studentLock \in [Students -> Workers \union {None}]
    /\ codeLock \in [Codes -> Workers \union {None}]
    /\ req \in [Workers -> Request]

Init ==
    /\ url = [s \in Students |-> None]
    /\ phone = [s \in Students |-> None]
    /\ code = [c \in Codes |-> Unissued]
    /\ studentLock = [s \in Students |-> None]
    /\ codeLock = [c \in Codes |-> None]
    /\ req = [w \in Workers |-> Idle]

OpenCodes(s) == {c \in Codes : code[c].state = "open" /\ code[c].student = s}

(* update pairing_sessions set expires_at = least(expires_at, now())
   where student_id = s and claimed_at is null and expires_at > now() *)
Expired(s) ==
    [c \in Codes |-> IF c \in OpenCodes(s)
                        THEN [code[c] EXCEPT !.state = "expired"] ELSE code[c]]

(* That statement waits for every matching row another transaction holds. *)
OpenCodesUnlocked(s) == \A c \in OpenCodes(s) : codeLock[c] = None

(* The transaction of w ends: its connection gives its row locks back. *)
Release(w) ==
    /\ studentLock' = [s \in Students |->
                          IF studentLock[s] = w THEN None ELSE studentLock[s]]
    /\ codeLock' = [c \in Codes |->
                       IF codeLock[c] = w THEN None ELSE codeLock[c]]

Finish(w) == req' = [req EXCEPT ![w] = Idle]

-----------------------------------------------------------------------------
(* upsertStudentFromAuth: three statements, no transaction. *)

(* Bound: as many codes can be issued as the model has. *)
CodesLeft ==
    Cardinality({w \in Workers : req[w].op = "start"})
        < Cardinality({c \in Codes : code[c].state = "unissued"})

(* A signed-in request arrives; the session may or may not carry a LinkedIn
   URL.  The existing row is read before anything is written. *)
Visit(w, s, op, to) ==
    /\ req[w].at = "idle"
    /\ op = "start" => CodesLeft
    /\ req' = [req EXCEPT ![w] = [Idle EXCEPT !.at = "upsert", !.op = op, !.s = s,
                                              !.seen = url[s], !.to = to]]
    /\ UNCHANGED <<url, phone, code, studentLock, codeLock>>

LinkedInChanged(r) == r.seen # None /\ r.to # None /\ r.seen # r.to

(* Where a request goes on once its student row is up to date: /onboard/start
   issues a code unless the row has no LinkedIn URL or a confirmed phone. *)
AfterUpsert(op, u, p) ==
    CASE op = "form" -> "formread"
      [] op = "start" /\ u # None /\ p = None -> "check"
      [] OTHER -> "idle"

(* Request w goes on at the place named, knowing only the URL it wrote. *)
GoOn(w, place, to) ==
    req' = [req EXCEPT ![w] =
        IF place = "idle" THEN Idle
        ELSE [Idle EXCEPT !.at = place, !.op = req[w].op, !.s = req[w].s, !.to = to]]

UpsertStudent(w) ==
    LET r == req[w]
        changed == LinkedInChanged(r)
    IN  /\ r.at = "upsert"
        /\ studentLock[r.s] = None
        /\ url' = [url EXCEPT ![r.s] = IF r.to # None THEN r.to ELSE @]
        /\ phone' = [phone EXCEPT ![r.s] = IF changed THEN None ELSE @]
        /\ LET next == IF changed THEN "expire"
                       ELSE AfterUpsert(r.op, url'[r.s], phone'[r.s])
           IN  GoOn(w, next, IF changed THEN r.to ELSE None)
        /\ UNCHANGED <<code, studentLock, codeLock>>

(* The statement that expires the codes of the old identity.  A request that
   gets here has just written a URL and cleared the phone. *)
ExpireStaleCodes(w) ==
    LET r == req[w]
    IN  /\ r.at = "expire"
        /\ OpenCodesUnlocked(r.s)
        /\ code' = Expired(r.s)
        /\ GoOn(w, AfterUpsert(r.op, r.to, None), None)
        /\ UNCHANGED <<url, phone, studentLock, codeLock>>

-----------------------------------------------------------------------------
(* generatePairingCode: the eligibility SELECT, then the INSERT. *)

CheckEligible(w) ==
    LET r == req[w]
    IN  /\ r.at = "check"
        /\ url[r.s] # None
        /\ req' = [req EXCEPT ![w] = [r EXCEPT !.at = "insert", !.seen = url[r.s]]]
        /\ UNCHANGED <<url, phone, code, studentLock, codeLock>>

InsertCode(w, c) ==
    LET r == req[w]
    IN  /\ r.at = "insert"
        /\ code[c].state = "unissued"
        /\ code' = [code EXCEPT ![c] = [state |-> "open", student |-> r.s,
                                        issuedFor |-> r.seen, phone |-> None]]
        /\ Finish(w)
        /\ UNCHANGED <<url, phone, studentLock, codeLock>>

-----------------------------------------------------------------------------
(* updateStudentLinkedInProfileUrl: a SELECT outside the transaction, then the
   students row, the codes, and the commit. *)

FormRead(w, to) ==
    LET r == req[w]
    IN  /\ r.at = "formread"
        /\ req' = [req EXCEPT ![w] = [r EXCEPT !.at = "formupdate",
                                               !.seen = url[r.s], !.to = to]]
        /\ UNCHANGED <<url, phone, code, studentLock, codeLock>>

(* The URL read before is the one to be saved: one UPDATE and the commit. *)
FormSameUrl(w) ==
    LET r == req[w]
    IN  /\ r.at = "formupdate"
        /\ r.seen = r.to
        /\ studentLock[r.s] = None
        /\ url' = [url EXCEPT ![r.s] = r.to]
        /\ Finish(w)
        /\ UNCHANGED <<phone, code, studentLock, codeLock>>

(* Otherwise the transaction holds the students row while it goes for the
   codes: the opposite order to claimPairingCode's. *)
FormLockStudent(w) ==
    LET r == req[w]
    IN  /\ r.at = "formupdate"
        /\ r.seen # r.to
        /\ studentLock[r.s] = None
        /\ studentLock' = [studentLock EXCEPT ![r.s] = w]
        /\ req' = [req EXCEPT ![w] = [r EXCEPT !.at = "formexpire"]]
        /\ UNCHANGED <<url, phone, code, codeLock>>

FormCommit(w) ==
    LET r == req[w]
    IN  /\ r.at = "formexpire"
        /\ OpenCodesUnlocked(r.s)
        /\ url' = [url EXCEPT ![r.s] = r.to]
        /\ phone' = [phone EXCEPT ![r.s] = IF LinkedInChanged(r) THEN None ELSE @]
        /\ code' = Expired(r.s)
        /\ Release(w)
        /\ Finish(w)

-----------------------------------------------------------------------------
(* claimPairingCode: SELECT ... FOR UPDATE of the code, then of the student.
   A code that is missing, claimed or expired ends the transaction at once and
   changes nothing. *)

(* Slip: the code is read without FOR UPDATE. *)
ClaimReadsCodeUnlocked(w, c, p) ==
    /\ req[w].at = "idle"
    /\ code[c].state = "open"
    /\ codeLock' = [codeLock EXCEPT ![c] = w]
    /\ req' = [req EXCEPT ![w] = [Idle EXCEPT !.at = "claim", !.op = "text",
                                              !.s = code[c].student, !.c = c, !.p = p]]
    /\ UNCHANGED <<url, phone, code, studentLock>>

ClaimLockCode(w, c, p) ==
    /\ req[w].at = "idle"
    /\ code[c].state = "open"
    /\ codeLock[c] = None
    /\ codeLock' = [codeLock EXCEPT ![c] = w]
    /\ req' = [req EXCEPT ![w] = [Idle EXCEPT !.at = "claim", !.op = "text",
                                              !.s = code[c].student, !.c = c, !.p = p]]
    /\ UNCHANGED <<url, phone, code, studentLock>>

HasDifferentConfirmedPhone(s, p) == phone[s] # None /\ phone[s] # p

(* Slip: the early return forgets to end the transaction. *)
ClaimRejectKeepsLocks(w) ==
    LET r == req[w]
    IN  /\ r.at = "claim"
        /\ studentLock[r.s] = None
        /\ HasDifferentConfirmedPhone(r.s, r.p)
        /\ Finish(w)
        /\ UNCHANGED <<url, phone, code, studentLock, codeLock>>

(* phone_already_bound: an audit row and a commit; the code stays open. *)
ClaimReject(w) ==
    LET r == req[w]
    IN  /\ r.at = "claim"
        /\ studentLock[r.s] = None
        /\ HasDifferentConfirmedPhone(r.s, r.p)
        /\ Release(w)
        /\ Finish(w)
        /\ UNCHANGED <<url, phone, code>>

(* Slip: the students row is bound, the pairing_sessions row is not marked. *)
ClaimBindLeavesCodeOpen(w) ==
    LET r == req[w]
    IN  /\ r.at = "claim"
        /\ studentLock[r.s] = None
        /\ ~HasDifferentConfirmedPhone(r.s, r.p)
        /\ phone' = [phone EXCEPT ![r.s] = IF @ = None THEN r.p ELSE @]
        /\ Release(w)
        /\ Finish(w)
        /\ UNCHANGED <<url, code>>

(* Slip: the status word of the older channel_pairing_codes table. *)
ClaimBindOldStatus(w) ==
    LET r == req[w]
    IN  /\ r.at = "claim"
        /\ studentLock[r.s] = None
        /\ ~HasDifferentConfirmedPhone(r.s, r.p)
        /\ code' = [code EXCEPT ![r.c].state = "confirmed", ![r.c].phone = r.p]
        /\ phone' = [phone EXCEPT ![r.s] = IF @ = None THEN r.p ELSE @]
        /\ Release(w)
        /\ Finish(w)
        /\ UNCHANGED url

ClaimBind(w) ==
    LET r == req[w]
    IN  /\ r.at = "claim"
        /\ studentLock[r.s] = None
        /\ ~HasDifferentConfirmedPhone(r.s, r.p)
        /\ code' = [code EXCEPT ![r.c].state = "claimed", ![r.c].phone = r.p]
        /\ phone' = [phone EXCEPT ![r.s] = IF @ = None THEN r.p ELSE @]
        /\ Release(w)
        /\ Finish(w)
        /\ UNCHANGED url

-----------------------------------------------------------------------------
(* Time, failures and the lock manager. *)

(* expires_at passes.  A claim tests the expiry when it locks the row, so the
   clock no longer matters to a row a claim holds. *)
CodeTimesOut(c) ==
    /\ code[c].state = "open"
    /\ codeLock[c] = None
    /\ code' = [code EXCEPT ![c].state = "expired"]
    /\ UNCHANGED <<url, phone, studentLock, codeLock, req>>

(* A request ends where it stands: a statement fails or the process is
   restarted.  Statements already committed stay. *)
Fail(w) ==
    /\ req[w].at # "idle"
    /\ Release(w)
    /\ Finish(w)
    /\ UNCHANGED <<url, phone, code>>

(* A claim waits for the students row v holds; v waits for the code the claim
   holds. *)
Deadlocked(w, v) ==
    /\ req[w].at = "claim"
    /\ studentLock[req[w].s] = v
    /\ req[v].at = "formexpire"
    /\ req[w].c \in OpenCodes(req[v].s)

(* Postgres aborts one of two transactions that wait for each other. *)
AbortDeadlock(w) ==
    /\ \E v \in Workers : Deadlocked(w, v) \/ Deadlocked(v, w)
    /\ Fail(w)

-----------------------------------------------------------------------------
Step(w) ==
    \/ UpsertStudent(w)
    \/ ExpireStaleCodes(w)
    \/ CheckEligible(w)
    \/ \E c \in Codes : InsertCode(w, c)
    \/ \E to \in Urls : FormRead(w, to)
    \/ FormSameUrl(w)
    \/ FormLockStudent(w)
    \/ FormCommit(w)
    \/ ClaimReject(w)
    \/ ClaimBind(w)

Next ==
    \/ \E w \in Workers, s \in Students, op \in {"page", "start", "form"},
          to \in Urls \union {None} : Visit(w, s, op, to)
    \/ \E w \in Workers, c \in Codes, p \in Phones : ClaimLockCode(w, c, p)
    \/ \E w \in Workers : Step(w) \/ Fail(w) \/ AbortDeadlock(w)
    \/ \E c \in Codes : CodeTimesOut(c)

Spec == Init /\ [][Next]_vars

(***************************************************************************)
(* A request keeps running, and Postgres queues those that wait for a row, *)
(* so a step that is enabled again and again is taken.  Arrivals, clock    *)
(* and failures carry no fairness.                                         *)
(***************************************************************************)
Fairness ==
    /\ \A w \in Workers : SF_vars(Step(w))
    /\ WF_vars(\E w \in Workers : AbortDeadlock(w))

FairSpec == Spec /\ Fairness

-----------------------------------------------------------------------------
(***************************************************************************)
(* Row locks belong to the transaction that is using them: a claim holds   *)
(* exactly its code, which nobody else can expire or claim meanwhile, and  *)
(* a form save holds exactly its student.  Nothing else holds a lock, so   *)
(* no early return or failure leaves a row locked.                         *)
(***************************************************************************)
LocksAreOwned ==
    /\ \A c \in Codes : codeLock[c] # None =>
          /\ req[codeLock[c]].at = "claim"
          /\ req[codeLock[c]].c = c
    /\ \A s \in Students : studentLock[s] # None =>
          /\ req[studentLock[s]].at = "formexpire"
          /\ req[studentLock[s]].s = s
    /\ \A w \in Workers : req[w].at = "claim" =>
          /\ req[w].c \in Codes
          /\ req[w].p \in Phones
          /\ req[w].s = code[req[w].c].student
          /\ codeLock[req[w].c] = w
          /\ code[req[w].c].state = "open"
    /\ \A w \in Workers : req[w].at = "formexpire" =>
          /\ req[w].s \in Students
          /\ studentLock[req[w].s] = w

(***************************************************************************)
(* A request past its first statement knows its student, and a code that   *)
(* was issued names one; a claimed code names the phone as well.           *)
(***************************************************************************)
RowsNameTheirStudent ==
    /\ \A w \in Workers : req[w].at # "idle" => req[w].s \in Students
    /\ \A c \in Codes :
          /\ code[c].state # "unissued" => code[c].student \in Students
          /\ code[c].state = "claimed" => code[c].phone \in Phones

(***************************************************************************)
(* A student's phone is one that claimed a code issued to that student:    *)
(* claim and binding are one transaction, whatever fails around them.      *)
(***************************************************************************)
BoundPhoneClaimedACode ==
    \A s \in Students : phone[s] # None =>
        \E c \in Codes : /\ code[c].state = "claimed"
                         /\ code[c].student = s
                         /\ code[c].phone = phone[s]

(***************************************************************************)
(* Claims, LinkedIn changes, retries and failures in any order do no more  *)
(* than redeem unused codes and unbind phones: a code is never claimed     *)
(* twice and a bound phone is never replaced by another.                   *)
(***************************************************************************)
Binding == INSTANCE PhoneBinding
           WITH redeemed <- [c \in Codes |->
                    IF code[c].state = "claimed"
                       THEN {<<code[c].student, code[c].phone>>} ELSE {}]

ImplementsPhoneBinding == Binding!Spec

(***************************************************************************)
(* Every request ends, although claims and form saves lock the same two    *)
(* rows in opposite orders.                                                *)
(***************************************************************************)
RequestsFinish == \A w \in Workers : req[w].at # "idle" ~> req[w].at = "idle"

(***************************************************************************)
(* "The QR code is tied to that exact LinkedIn identity" (server.mjs): a   *)
(* code binds a phone only while the student still has the LinkedIn URL    *)
(* the code was issued for.                                                *)
(***************************************************************************)
CodeTiedToIdentity ==
    [][\A c \in Codes :
          code[c].state # "claimed" /\ code'[c].state = "claimed"
              => url[code[c].student] = code[c].issuedFor]_vars

=============================================================================

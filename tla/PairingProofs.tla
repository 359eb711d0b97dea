---------------------------- MODULE PairingProofs ----------------------------
(***************************************************************************)
(* The inductive invariant of Pairing and what follows from it: the types, *)
(* who holds which lock, that a bound phone claimed a code, and that       *)
(* Pairing implements PhoneBinding; and how a code can come loose from its *)
(* LinkedIn identity.  All for any number of students, codes, URLs, phones *)
(* and concurrent requests.                                                *)
(***************************************************************************)
EXTENDS Pairing, TLAPS

Inv ==
    /\ TypeOK
    /\ RowsNameTheirStudent
    /\ LocksAreOwned
    /\ BoundPhoneClaimedACode

(***************************************************************************)
(* No request is served and nothing is issued at the start.                *)
(***************************************************************************)
LEMMA InitEstablishesInv == Init => Inv
  BY NoneAssumption
     DEF Init, Inv, TypeOK, RowsNameTheirStudent, LocksAreOwned,
         BoundPhoneClaimedACode, CodeRow, Request, Idle, Unissued

(***************************************************************************)
(* Releasing locks, expiring codes and going idle stay within the types.   *)
(***************************************************************************)
LEMMA ReleaseType ==
  ASSUME TypeOK, NEW w \in Workers, Release(w)
  PROVE  /\ studentLock' \in [Students -> Workers \union {None}]
         /\ codeLock' \in [Codes -> Workers \union {None}]
  BY DEF TypeOK, Release

LEMMA ExpiredType ==
  ASSUME TypeOK, NEW s
  PROVE  Expired(s) \in [Codes -> CodeRow]
<1>1. ASSUME NEW c \in Codes
      PROVE  [code[c] EXCEPT !.state = "expired"] \in CodeRow
  BY DEF TypeOK, CodeRow
<1>2. QED
  BY <1>1 DEF TypeOK, Expired

LEMMA IdleType == Idle \in Request
  BY DEF Idle, Request

LEMMA RequestUpdateType ==
  ASSUME TypeOK, NEW w \in Workers, NEW r \in Request,
         req' = [req EXCEPT ![w] = r]
  PROVE  req' \in [Workers -> Request]
  BY DEF TypeOK

LEMMA GoOnType ==
  ASSUME TypeOK, NEW w \in Workers, NEW place, NEW to \in Urls \union {None},
         place \in {"idle", "expire", "check", "formread"}, GoOn(w, place, to)
  PROVE  req' \in [Workers -> Request]
<1> DEFINE r == [Idle EXCEPT !.at = place, !.op = req[w].op, !.s = req[w].s,
                             !.to = to]
<1>1. req[w] \in Request
  BY DEF TypeOK
<1>2. r \in Request
  BY <1>1 DEF Idle, Request
<1>3. req' = [req EXCEPT ![w] = IF place = "idle" THEN Idle ELSE r]
  BY DEF GoOn
<1> HIDE DEF r
<1>4. QED
  BY <1>2, <1>3, IdleType, RequestUpdateType

(***************************************************************************)
(* Every statement of every request, the clock, the failures and the       *)
(* deadlock victims keep the types.                                        *)
(***************************************************************************)
LEMMA StepKeepsTypes ==
  ASSUME Inv, [Next]_vars
  PROVE  TypeOK'
<1>0. TypeOK
  BY DEF Inv
<1>a. \A w \in Workers : req[w] \in Request
  BY <1>0 DEF TypeOK
<1>1. CASE UNCHANGED vars
  BY <1>0, <1>1 DEF vars, TypeOK
<1>2. ASSUME NEW w \in Workers, NEW s \in Students,
             NEW op \in {"page", "start", "form"}, NEW to \in Urls \union {None},
             Visit(w, s, op, to)
      PROVE  TypeOK'
  <2> DEFINE r == [Idle EXCEPT !.at = "upsert", !.op = op, !.s = s,
                               !.seen = url[s], !.to = to]
  <2>1. r \in Request
    BY <1>0 DEF TypeOK, Idle, Request
  <2>2. req' = [req EXCEPT ![w] = r]
    BY <1>2 DEF Visit
  <2> HIDE DEF r
  <2>3. req' \in [Workers -> Request]
    BY <1>0, <2>1, <2>2, RequestUpdateType
  <2>4. QED
    BY <1>0, <1>2, <2>3 DEF Visit, TypeOK
<1>3. ASSUME NEW w \in Workers, NEW c \in Codes, NEW p \in Phones,
             ClaimLockCode(w, c, p)
      PROVE  TypeOK'
  <2> DEFINE r == [Idle EXCEPT !.at = "claim", !.op = "text",
                               !.s = code[c].student, !.c = c, !.p = p]
  <2>1. r \in Request
    BY <1>0 DEF TypeOK, Idle, Request, CodeRow
  <2>2. req' = [req EXCEPT ![w] = r]
    BY <1>3 DEF ClaimLockCode
  <2> HIDE DEF r
  <2>3. req' \in [Workers -> Request]
    BY <1>0, <2>1, <2>2, RequestUpdateType
  <2>4. QED
    BY <1>0, <1>3, <2>3 DEF ClaimLockCode, TypeOK
<1>4. ASSUME NEW w \in Workers, UpsertStudent(w)
      PROVE  TypeOK'
  <2> DEFINE changed == LinkedInChanged(req[w])
             place == IF changed THEN "expire"
                      ELSE AfterUpsert(req[w].op, url'[req[w].s], phone'[req[w].s])
             to == IF changed THEN req[w].to ELSE None
  <2>1. req[w].to \in Urls \union {None}
    BY <1>a DEF Request
  <2>2. url' \in [Students -> Urls \union {None}] /\
        phone' \in [Students -> Phones \union {None}]
    BY <1>0, <1>4, <2>1 DEF UpsertStudent, TypeOK
  <2>3. place \in {"idle", "expire", "check", "formread"} /\ to \in Urls \union {None}
    BY <2>1 DEF AfterUpsert
  <2>4. GoOn(w, place, to)
    BY <1>4 DEF UpsertStudent
  <2> HIDE DEF place, to
  <2>5. req' \in [Workers -> Request]
    BY <1>0, <2>3, <2>4, GoOnType
  <2>6. QED
    BY <1>0, <1>4, <2>2, <2>5 DEF UpsertStudent, TypeOK
<1>5. ASSUME NEW w \in Workers, ExpireStaleCodes(w)
      PROVE  TypeOK'
  <2> DEFINE place == AfterUpsert(req[w].op, req[w].to, None)
  <2>1. place \in {"idle", "expire", "check", "formread"}
    BY DEF AfterUpsert
  <2>2. GoOn(w, place, None)
    BY <1>5 DEF ExpireStaleCodes
  <2> HIDE DEF place
  <2>3. req' \in [Workers -> Request]
    BY <1>0, <2>1, <2>2, GoOnType
  <2>4. QED
    BY <1>0, <1>5, <2>3, ExpiredType DEF ExpireStaleCodes, TypeOK
<1>6. ASSUME NEW w \in Workers, CheckEligible(w)
      PROVE  TypeOK'
  <2> DEFINE r == [req[w] EXCEPT !.at = "insert", !.seen = url[req[w].s]]
  <2>1. url[req[w].s] \in Urls \union {None}
    BY <1>0, <1>6 DEF CheckEligible, TypeOK, Inv, RowsNameTheirStudent
  <2>2. r \in Request
    BY <1>a, <2>1 DEF Request
  <2>3. req' = [req EXCEPT ![w] = r]
    BY <1>6 DEF CheckEligible
  <2> HIDE DEF r
  <2>4. QED
    BY <1>0, <1>6, <2>2, <2>3, RequestUpdateType DEF CheckEligible, TypeOK
<1>7. ASSUME NEW w \in Workers, NEW c \in Codes, InsertCode(w, c)
      PROVE  TypeOK'
  <2>1. [state |-> "open", student |-> req[w].s, issuedFor |-> req[w].seen,
         phone |-> None] \in CodeRow
    BY <1>a DEF Request, CodeRow
  <2>2. QED
    BY <1>0, <1>7, <2>1, IdleType DEF InsertCode, Finish, TypeOK
<1>8. ASSUME NEW w \in Workers, NEW to \in Urls, FormRead(w, to)
      PROVE  TypeOK'
  <2> DEFINE r == [req[w] EXCEPT !.at = "formupdate", !.seen = url[req[w].s],
                                 !.to = to]
  <2>1. url[req[w].s] \in Urls \union {None}
    BY <1>0, <1>8 DEF FormRead, TypeOK, Inv, RowsNameTheirStudent
  <2>2. r \in Request
    BY <1>a, <2>1 DEF Request
  <2>3. req' = [req EXCEPT ![w] = r]
    BY <1>8 DEF FormRead
  <2> HIDE DEF r
  <2>4. QED
    BY <1>0, <1>8, <2>2, <2>3, RequestUpdateType DEF FormRead, TypeOK
<1>9. ASSUME NEW w \in Workers, FormSameUrl(w)
      PROVE  TypeOK'
  <2>1. req[w].to \in Urls \union {None}
    BY <1>a DEF Request
  <2>2. QED
    BY <1>0, <1>9, <2>1, IdleType DEF FormSameUrl, Finish, TypeOK
<1>10. ASSUME NEW w \in Workers, FormLockStudent(w)
       PROVE  TypeOK'
  <2> DEFINE r == [req[w] EXCEPT !.at = "formexpire"]
  <2>1. r \in Request
    BY <1>a DEF Request
  <2>2. req' = [req EXCEPT ![w] = r]
    BY <1>10 DEF FormLockStudent
  <2> HIDE DEF r
  <2>3. QED
    BY <1>0, <1>10, <2>1, <2>2, RequestUpdateType DEF FormLockStudent, TypeOK
<1>11. ASSUME NEW w \in Workers, FormCommit(w)
       PROVE  TypeOK'
  <2>1. req[w].to \in Urls \union {None}
    BY <1>a DEF Request
  <2>2. Release(w)
    BY <1>11 DEF FormCommit
  <2>3. QED
    BY <1>0, <1>11, <2>1, <2>2, IdleType, ReleaseType, ExpiredType
       DEF FormCommit, Finish, TypeOK
<1>12. ASSUME NEW w \in Workers, ClaimReject(w)
       PROVE  TypeOK'
  BY <1>0, <1>12, IdleType, ReleaseType DEF ClaimReject, Finish, TypeOK
<1>13. ASSUME NEW w \in Workers, ClaimBind(w)
       PROVE  TypeOK'
  <2>1. req[w].p \in Phones
    BY <1>13 DEF ClaimBind, Inv, LocksAreOwned
  <2>2. \A c \in Codes : [code[c] EXCEPT !.state = "claimed", !.phone = req[w].p]
                            \in CodeRow
    BY <1>0, <2>1 DEF TypeOK, CodeRow
  <2>3. code' \in [Codes -> CodeRow]
    BY <1>0, <1>13, <2>2 DEF ClaimBind, TypeOK
  <2>4. phone' \in [Students -> Phones \union {None}]
    BY <1>0, <1>13, <2>1 DEF ClaimBind, TypeOK
  <2>5. QED
    BY <1>0, <1>13, <2>3, <2>4, IdleType, ReleaseType DEF ClaimBind, Finish, TypeOK
<1>14. ASSUME NEW w \in Workers, Fail(w)
       PROVE  TypeOK'
  BY <1>0, <1>14, IdleType, ReleaseType DEF Fail, Finish, TypeOK
<1>15. ASSUME NEW c \in Codes, CodeTimesOut(c)
       PROVE  TypeOK'
  <2>1. [code[c] EXCEPT !.state = "expired"] \in CodeRow
    BY <1>0 DEF TypeOK, CodeRow
  <2>2. QED
    BY <1>0, <1>15, <2>1 DEF CodeTimesOut, TypeOK
<1>16. QED
  BY <1>1, <1>2, <1>3, <1>4, <1>5, <1>6, <1>7, <1>8, <1>9, <1>10, <1>11,
     <1>12, <1>13, <1>14, <1>15 DEF Next, Step, AbortDeadlock

(***************************************************************************)
(* What a step of the specification is, for the proofs by cases below:     *)
(* UpsertStudent or FormCommit may clear a phone and write a URL, the code *)
(* rows change in InsertCode, ClaimBind and the three ways a code expires, *)
(* and only the claim and form transactions touch the locks.               *)
(***************************************************************************)
LEMMA StepKeepsRows ==
  ASSUME Inv, [Next]_vars
  PROVE  RowsNameTheirStudent'
<1> USE DEF Inv, RowsNameTheirStudent
<1>0. TypeOK
  OBVIOUS
<1>1. CASE UNCHANGED vars
  BY <1>1 DEF vars
<1>2. ASSUME NEW w \in Workers, NEW s \in Students,
             NEW op \in {"page", "start", "form"}, NEW to \in Urls \union {None},
             Visit(w, s, op, to)
      PROVE  RowsNameTheirStudent'
  BY <1>0, <1>2 DEF Visit, TypeOK, Idle
<1>3. ASSUME NEW w \in Workers, NEW c \in Codes, NEW p \in Phones,
             ClaimLockCode(w, c, p)
      PROVE  RowsNameTheirStudent'
  BY <1>0, <1>3 DEF ClaimLockCode, TypeOK, Idle
<1>4. ASSUME NEW w \in Workers, UpsertStudent(w)
      PROVE  RowsNameTheirStudent'
  BY <1>0, <1>4 DEF UpsertStudent, GoOn, TypeOK, Idle
<1>5. ASSUME NEW w \in Workers, ExpireStaleCodes(w)
      PROVE  RowsNameTheirStudent'
  BY <1>0, <1>5 DEF ExpireStaleCodes, GoOn, Expired, OpenCodes, TypeOK, Idle, CodeRow
<1>6. ASSUME NEW w \in Workers, CheckEligible(w)
      PROVE  RowsNameTheirStudent'
  BY <1>0, <1>6 DEF CheckEligible, TypeOK, Request
<1>7. ASSUME NEW w \in Workers, NEW c \in Codes, InsertCode(w, c)
      PROVE  RowsNameTheirStudent'
  BY <1>0, <1>7 DEF InsertCode, Finish, TypeOK, Idle
<1>8. ASSUME NEW w \in Workers, NEW to \in Urls, FormRead(w, to)
      PROVE  RowsNameTheirStudent'
  BY <1>0, <1>8 DEF FormRead, TypeOK, Request
<1>9. ASSUME NEW w \in Workers, FormSameUrl(w) \/ ClaimReject(w) \/ Fail(w)
      PROVE  RowsNameTheirStudent'
  BY <1>0, <1>9 DEF FormSameUrl, ClaimReject, Fail, Finish, TypeOK, Idle
<1>10. ASSUME NEW w \in Workers, FormLockStudent(w)
       PROVE  RowsNameTheirStudent'
  BY <1>0, <1>10 DEF FormLockStudent, TypeOK, Request
<1>11. ASSUME NEW w \in Workers, FormCommit(w)
       PROVE  RowsNameTheirStudent'
  BY <1>0, <1>11 DEF FormCommit, Finish, Expired, OpenCodes, TypeOK, Idle, CodeRow
<1>12. ASSUME NEW w \in Workers, ClaimBind(w)
       PROVE  RowsNameTheirStudent'
  BY <1>0, <1>12 DEF ClaimBind, Finish, LocksAreOwned, TypeOK, Idle, CodeRow
<1>13. ASSUME NEW c \in Codes, CodeTimesOut(c)
       PROVE  RowsNameTheirStudent'
  BY <1>0, <1>13 DEF CodeTimesOut, TypeOK, CodeRow
<1>14. QED
  BY <1>1, <1>2, <1>3, <1>4, <1>5, <1>6, <1>7, <1>8, <1>9, <1>10, <1>11,
     <1>12, <1>13 DEF Next, Step, AbortDeadlock

(***************************************************************************)
(* A step takes a row lock only when it is free, and a transaction that    *)
(* ends gives back what it holds; a code a claim holds is left open by     *)
(* everybody else.                                                         *)
(***************************************************************************)
LEMMA StepKeepsLocks ==
  ASSUME Inv, [Next]_vars
  PROVE  LocksAreOwned'
<1> USE NoneAssumption DEF LocksAreOwned
<1>0. TypeOK /\ RowsNameTheirStudent /\ LocksAreOwned
  BY DEF Inv
<1>1. CASE UNCHANGED vars
  BY <1>0, <1>1 DEF vars
<1>2. ASSUME NEW w \in Workers, NEW s \in Students,
             NEW op \in {"page", "start", "form"}, NEW to \in Urls \union {None},
             Visit(w, s, op, to)
      PROVE  LocksAreOwned'
  BY <1>0, <1>2 DEF Visit, TypeOK, Idle
<1>3. ASSUME NEW w \in Workers, NEW c \in Codes, NEW p \in Phones,
             ClaimLockCode(w, c, p)
      PROVE  LocksAreOwned'
  BY <1>0, <1>3 DEF ClaimLockCode, TypeOK, Idle
<1>4. ASSUME NEW w \in Workers, UpsertStudent(w)
      PROVE  LocksAreOwned'
  <2>1. req'[w].at \notin {"claim", "formexpire"}
    BY <1>0, <1>4 DEF UpsertStudent, GoOn, AfterUpsert, TypeOK, Idle
  <2>2. /\ UNCHANGED <<code, studentLock, codeLock>>
        /\ \A v \in Workers : v # w => req'[v] = req[v]
    BY <1>0, <1>4 DEF UpsertStudent, GoOn, TypeOK
  <2>3. req[w].at = "upsert"
    BY <1>4 DEF UpsertStudent
  <2>4. QED
    BY <1>0, <2>1, <2>2, <2>3 DEF TypeOK
<1>5. ASSUME NEW w \in Workers, ExpireStaleCodes(w)
      PROVE  LocksAreOwned'
  <2>1. req'[w].at \notin {"claim", "formexpire"}
    BY <1>0, <1>5 DEF ExpireStaleCodes, GoOn, AfterUpsert, TypeOK, Idle
  <2>2. /\ UNCHANGED <<studentLock, codeLock>>
        /\ \A v \in Workers : v # w => req'[v] = req[v]
    BY <1>0, <1>5 DEF ExpireStaleCodes, GoOn, TypeOK
  <2>3. req[w].at = "expire"
    BY <1>5 DEF ExpireStaleCodes
  <2>4. \A c \in Codes : codeLock[c] # None => code'[c] = code[c]
    BY <1>0, <1>5 DEF ExpireStaleCodes, Expired, OpenCodesUnlocked, OpenCodes, TypeOK
  <2>5. QED
    BY <1>0, <2>1, <2>2, <2>3, <2>4 DEF TypeOK
<1>6. ASSUME NEW w \in Workers, CheckEligible(w)
      PROVE  LocksAreOwned'
  BY <1>0, <1>6 DEF CheckEligible, TypeOK, Request
<1>7. ASSUME NEW w \in Workers, NEW c \in Codes, InsertCode(w, c)
      PROVE  LocksAreOwned'
  <2>1. \A d \in Codes : code[d].state = "open" => code'[d] = code[d]
    BY <1>0, <1>7 DEF InsertCode, TypeOK
  <2>2. req[w].at = "insert" /\ req' = [req EXCEPT ![w] = Idle]
    BY <1>7 DEF InsertCode, Finish
  <2>3. UNCHANGED <<studentLock, codeLock>>
    BY <1>7 DEF InsertCode
  <2>4. QED
    BY <1>0, <2>1, <2>2, <2>3 DEF TypeOK, Idle
<1>8. ASSUME NEW w \in Workers, NEW to \in Urls, FormRead(w, to)
      PROVE  LocksAreOwned'
  BY <1>0, <1>8 DEF FormRead, TypeOK, Request
<1>9. ASSUME NEW w \in Workers, FormSameUrl(w)
      PROVE  LocksAreOwned'
  BY <1>0, <1>9 DEF FormSameUrl, Finish, TypeOK, Idle
<1>10. ASSUME NEW w \in Workers, FormLockStudent(w)
       PROVE  LocksAreOwned'
  <2>1. /\ req[w].at = "formupdate"
        /\ req' = [req EXCEPT ![w] = [req[w] EXCEPT !.at = "formexpire"]]
        /\ studentLock[req[w].s] = None
        /\ studentLock' = [studentLock EXCEPT ![req[w].s] = w]
        /\ UNCHANGED <<code, codeLock>>
    BY <1>10 DEF FormLockStudent
  <2>2. req[w] \in Request /\ req[w].s \in Students
    BY <1>0, <2>1 DEF TypeOK, RowsNameTheirStudent
  <2>3. \A v \in Workers : v # w => req'[v] = req[v]
    BY <1>0, <2>1 DEF TypeOK
  <2>4. req'[w].at = "formexpire" /\ req'[w].s = req[w].s
    BY <1>0, <2>1, <2>2 DEF TypeOK, Request
  <2>5. studentLock'[req[w].s] = w
    BY <1>0, <2>1, <2>2 DEF TypeOK
  <2>6. \A s \in Students : s # req[w].s => studentLock'[s] = studentLock[s]
    BY <1>0, <2>1 DEF TypeOK
  <2>7. QED
    BY <1>0, <2>1, <2>2, <2>3, <2>4, <2>5, <2>6 DEF TypeOK
<1>11. ASSUME NEW w \in Workers, FormCommit(w)
       PROVE  LocksAreOwned'
  <2>1. \A c \in Codes : codeLock[c] # None => code'[c] = code[c]
    BY <1>0, <1>11 DEF FormCommit, Expired, OpenCodesUnlocked, OpenCodes, TypeOK
  <2>2. Release(w) /\ req[w].at = "formexpire" /\ req' = [req EXCEPT ![w] = Idle]
    BY <1>11 DEF FormCommit, Finish
  <2>3. QED
    BY <1>0, <2>1, <2>2 DEF Release, TypeOK, Idle
<1>12. ASSUME NEW w \in Workers, ClaimReject(w)
       PROVE  LocksAreOwned'
  BY <1>0, <1>12 DEF ClaimReject, Release, Finish, TypeOK, Idle
<1>13. ASSUME NEW w \in Workers, ClaimBind(w)
       PROVE  LocksAreOwned'
  <2>1. Release(w) /\ req[w].at = "claim" /\ req' = [req EXCEPT ![w] = Idle]
    BY <1>13 DEF ClaimBind, Finish
  <2>2. \A c \in Codes : codeLock[c] # w => code'[c] = code[c]
    BY <1>0, <1>13 DEF ClaimBind, TypeOK
  <2>3. QED
    BY <1>0, <2>1, <2>2 DEF Release, TypeOK, Idle
<1>14. ASSUME NEW w \in Workers, Fail(w)
       PROVE  LocksAreOwned'
  BY <1>0, <1>14 DEF Fail, Release, Finish, TypeOK, Idle
<1>15. ASSUME NEW c \in Codes, CodeTimesOut(c)
       PROVE  LocksAreOwned'
  BY <1>0, <1>15 DEF CodeTimesOut, TypeOK
<1>16. QED
  BY <1>1, <1>2, <1>3, <1>4, <1>5, <1>6, <1>7, <1>8, <1>9, <1>10, <1>11,
     <1>12, <1>13, <1>14, <1>15 DEF Next, Step, AbortDeadlock

(***************************************************************************)
(* A claimed code is final: no retry, expiry or second claim touches it.   *)
(***************************************************************************)
LEMMA ClaimedIsFinal ==
  ASSUME Inv, [Next]_vars, NEW c \in Codes, code[c].state = "claimed"
  PROVE  code'[c] = code[c]
<1>0. TypeOK /\ LocksAreOwned
  BY DEF Inv
<1>1. CASE UNCHANGED code
  BY <1>1
<1>2. ASSUME NEW w \in Workers, ExpireStaleCodes(w) \/ FormCommit(w)
      PROVE  code'[c] = code[c]
  BY <1>0, <1>2 DEF ExpireStaleCodes, FormCommit, Expired, OpenCodes, TypeOK
<1>3. ASSUME NEW w \in Workers, NEW d \in Codes, InsertCode(w, d)
      PROVE  code'[c] = code[c]
  BY <1>0, <1>3 DEF InsertCode, TypeOK
<1>4. ASSUME NEW w \in Workers, ClaimBind(w)
      PROVE  code'[c] = code[c]
  BY <1>0, <1>4 DEF ClaimBind, LocksAreOwned, TypeOK
<1>5. ASSUME NEW d \in Codes, CodeTimesOut(d)
      PROVE  code'[c] = code[c]
  BY <1>0, <1>5 DEF CodeTimesOut, TypeOK
<1>6. QED
  BY <1>1, <1>2, <1>3, <1>4, <1>5
     DEF Next, vars, Step, AbortDeadlock, Visit, ClaimLockCode, UpsertStudent,
         CheckEligible, FormRead, FormSameUrl, FormLockStudent, ClaimReject, Fail

(***************************************************************************)
(* Only a claim sets a phone; everything else keeps or clears it.          *)
(***************************************************************************)
LEMMA OnlyAClaimSetsAPhone ==
  ASSUME Inv, [Next]_vars, NEW s \in Students
  PROVE  \/ phone'[s] \in {phone[s], None}
         \/ \E w \in Workers : ClaimBind(w)
<1>0. TypeOK
  BY DEF Inv
<1>1. ASSUME NEW w \in Workers, UpsertStudent(w) \/ FormCommit(w)
      PROVE  phone'[s] \in {phone[s], None}
  BY <1>0, <1>1 DEF UpsertStudent, FormCommit, TypeOK
<1>2. QED
  BY <1>1
     DEF Next, vars, Step, AbortDeadlock, Visit, ClaimLockCode, ExpireStaleCodes,
         CheckEligible, InsertCode, FormRead, FormSameUrl, FormLockStudent,
         ClaimReject, Fail, CodeTimesOut

(***************************************************************************)
(* What a claim does: an open code of the student becomes the claimed code *)
(* of the phone the student then has.                                      *)
(***************************************************************************)
LEMMA ClaimBindEffect ==
  ASSUME Inv, NEW w \in Workers, ClaimBind(w)
  PROVE  LET c == req[w].c
             s == req[w].s
             p == req[w].p
         IN  /\ c \in Codes /\ s \in Students /\ p \in Phones
             /\ code[c].state = "open" /\ code[c].student = s
             /\ phone[s] \in {None, p}
             /\ code' = [code EXCEPT ![c].state = "claimed", ![c].phone = p]
             /\ phone' = [phone EXCEPT ![s] = p]
<1> USE NoneAssumption DEF Inv
<1>1. /\ req[w].c \in Codes
      /\ req[w].p \in Phones
      /\ req[w].s = code[req[w].c].student
      /\ code[req[w].c].state = "open"
  BY DEF ClaimBind, LocksAreOwned
<1>2. req[w].s \in Students
  BY DEF ClaimBind, RowsNameTheirStudent
<1>3. phone[req[w].s] \in {None, req[w].p}
  BY DEF ClaimBind, HasDifferentConfirmedPhone
<1>4. phone' = [phone EXCEPT ![req[w].s] = req[w].p]
  BY <1>3 DEF ClaimBind
<1>5. QED
  BY <1>1, <1>2, <1>3, <1>4 DEF ClaimBind

LEMMA StepKeepsBinding ==
  ASSUME Inv, [Next]_vars
  PROVE  BoundPhoneClaimedACode'
<1>0. TypeOK /\ BoundPhoneClaimedACode
  BY DEF Inv
<1> SUFFICES ASSUME NEW s \in Students, phone'[s] # None
             PROVE  \E c \in Codes : /\ code'[c].state = "claimed"
                                     /\ code'[c].student = s
                                     /\ code'[c].phone = phone'[s]
  BY DEF BoundPhoneClaimedACode
<1>1. CASE phone'[s] = phone[s]
  <2>1. PICK c \in Codes : /\ code[c].state = "claimed"
                           /\ code[c].student = s
                           /\ code[c].phone = phone[s]
    BY <1>0, <1>1 DEF BoundPhoneClaimedACode
  <2>2. code'[c] = code[c]
    BY <2>1, ClaimedIsFinal
  <2>3. QED
    BY <1>1, <2>1, <2>2
<1>2. ASSUME NEW w \in Workers, ClaimBind(w), phone'[s] # phone[s]
      PROVE  /\ req[w].c \in Codes
             /\ code'[req[w].c].state = "claimed"
             /\ code'[req[w].c].student = s
             /\ code'[req[w].c].phone = phone'[s]
  <2> DEFINE c == req[w].c
  <2>1. /\ c \in Codes /\ req[w].s \in Students
        /\ code[c].student = req[w].s
        /\ code' = [code EXCEPT ![c].state = "claimed", ![c].phone = req[w].p]
        /\ phone' = [phone EXCEPT ![req[w].s] = req[w].p]
    BY <1>2, ClaimBindEffect
  <2> HIDE DEF c
  <2>2. s = req[w].s
    BY <1>0, <1>2, <2>1 DEF TypeOK
  <2>3. QED
    BY <1>0, <2>1, <2>2 DEF TypeOK, CodeRow, c
<1>3. QED
  BY <1>1, <1>2, OnlyAClaimSetsAPhone

(***************************************************************************)
(* Inv is inductive.                                                       *)
(***************************************************************************)
THEOREM InvIsInvariant == Spec => []Inv
<1>1. Init => Inv
  BY InitEstablishesInv
<1>2. Inv /\ [Next]_vars => Inv'
  BY StepKeepsTypes, StepKeepsRows, StepKeepsLocks, StepKeepsBinding DEF Inv
<1>3. QED
  BY <1>1, <1>2, PTL DEF Spec

(***************************************************************************)
(* Every variable of the pairing store keeps its type (TypeOK).            *)
(***************************************************************************)
THEOREM TypesAreCorrect == Spec => []TypeOK
<1>1. Inv => TypeOK
  BY DEF Inv
<1>2. QED
  BY <1>1, InvIsInvariant, PTL

(***************************************************************************)
(* Row locks are held by, and only by, the transactions that use them.     *)
(***************************************************************************)
THEOREM LocksAreAlwaysOwned == Spec => []LocksAreOwned
<1>1. Inv => LocksAreOwned
  BY DEF Inv
<1>2. QED
  BY <1>1, InvIsInvariant, PTL

(***************************************************************************)
(* A student's phone always claimed a code issued to that student.         *)
(***************************************************************************)
THEOREM BoundPhonesClaimedCodes == Spec => []BoundPhoneClaimedACode
<1>1. Inv => BoundPhoneClaimedACode
  BY DEF Inv
<1>2. QED
  BY <1>1, InvIsInvariant, PTL

(***************************************************************************)
(* The refinement.  Binding!phone is phone itself, so the abstract step is *)
(* a redemption when the step is a claim, an unbinding when it clears a    *)
(* phone, and a stutter otherwise.                                         *)
(***************************************************************************)
LEMMA InitRefines == Init => Binding!Init
  BY DEF Init, Binding!Init, Unissued

LEMMA ClaimRefines ==
  ASSUME Inv, NEW w \in Workers, ClaimBind(w)
  PROVE  Binding!Redeem(req[w].c, req[w].s, req[w].p)
<1> DEFINE c == req[w].c
           s == req[w].s
           p == req[w].p
<1>1. /\ c \in Codes /\ s \in Students /\ p \in Phones
      /\ code[c].state = "open" /\ code[c].student = s
      /\ phone[s] \in {None, p}
      /\ code' = [code EXCEPT ![c].state = "claimed", ![c].phone = p]
      /\ phone' = [phone EXCEPT ![s] = p]
  BY ClaimBindEffect
<1>2. TypeOK
  BY DEF Inv
<1> HIDE DEF c, s, p
<1>3. /\ code'[c].state = "claimed"
      /\ code'[c].student = s
      /\ code'[c].phone = p
      /\ \A d \in Codes : d # c => code'[d] = code[d]
  BY <1>1, <1>2 DEF TypeOK, CodeRow
<1>4. QED
  BY <1>1, <1>3 DEF Binding!Redeem, c, s, p

LEMMA NoClaimKeepsRedeemed ==
  ASSUME Inv, [Next]_vars, ~ \E w \in Workers : ClaimBind(w), NEW c \in Codes
  PROVE  /\ code'[c].state = "claimed" <=> code[c].state = "claimed"
         /\ code[c].state = "claimed" => code'[c] = code[c]
<1>0. TypeOK
  BY DEF Inv
<1>1. code[c].state = "claimed" => code'[c] = code[c]
  BY ClaimedIsFinal
<1>2. ASSUME NEW w \in Workers, ExpireStaleCodes(w) \/ FormCommit(w)
      PROVE  code'[c] = code[c] \/ code'[c].state = "expired"
  BY <1>0, <1>2 DEF ExpireStaleCodes, FormCommit, Expired, OpenCodes, TypeOK, CodeRow
<1>3. ASSUME NEW w \in Workers, NEW d \in Codes, InsertCode(w, d)
      PROVE  code'[c] = code[c] \/ code'[c].state = "open"
  BY <1>0, <1>3 DEF InsertCode, TypeOK
<1>4. ASSUME NEW d \in Codes, CodeTimesOut(d)
      PROVE  code'[c] = code[c] \/ code'[c].state = "expired"
  BY <1>0, <1>4 DEF CodeTimesOut, TypeOK, CodeRow
<1>5. code'[c] = code[c] \/ code'[c].state \in {"open", "expired"}
  BY <1>2, <1>3, <1>4
     DEF Next, vars, Step, AbortDeadlock, Visit, ClaimLockCode, UpsertStudent,
         CheckEligible, FormRead, FormSameUrl, FormLockStudent, ClaimReject, Fail
<1>6. QED
  BY <1>1, <1>5

(* One request writes at most one student's row. *)
LEMMA OnePhoneAtATime ==
  ASSUME Inv, [Next]_vars, ~ \E w \in Workers : ClaimBind(w)
  PROVE  \/ UNCHANGED phone
         \/ \E s \in Students : phone' = [phone EXCEPT ![s] = None]
<1>0. TypeOK /\ RowsNameTheirStudent
  BY DEF Inv
<1>1. ASSUME NEW w \in Workers, UpsertStudent(w) \/ FormCommit(w)
      PROVE  /\ req[w].s \in Students
             /\ phone' \in {phone, [phone EXCEPT ![req[w].s] = None]}
  BY <1>0, <1>1 DEF UpsertStudent, FormCommit, TypeOK, RowsNameTheirStudent
<1>2. QED
  BY <1>1
     DEF Next, vars, Step, AbortDeadlock, Visit, ClaimLockCode, ExpireStaleCodes,
         CheckEligible, InsertCode, FormRead, FormSameUrl, FormLockStudent,
         ClaimReject, Fail, CodeTimesOut

LEMMA StepRefines ==
  ASSUME Inv, [Next]_vars
  PROVE  [Binding!Next]_(Binding!vars)
<1>1. ASSUME NEW w \in Workers, ClaimBind(w)
      PROVE  Binding!Next
  <2>1. req[w].c \in Codes /\ req[w].s \in Students /\ req[w].p \in Phones
    BY <1>1, ClaimBindEffect
  <2>2. Binding!Redeem(req[w].c, req[w].s, req[w].p)
    BY <1>1, ClaimRefines
  <2>3. QED
    BY <2>1, <2>2 DEF Binding!Next, Binding!Redeem
<1>2. CASE ~ \E w \in Workers : ClaimBind(w)
  <2> DEFINE redeemed(d) == IF d.state = "claimed"
                               THEN {<<d.student, d.phone>>} ELSE {}
  <2>1. \A c \in Codes : redeemed(code'[c]) = redeemed(code[c])
    BY <1>2, NoClaimKeepsRedeemed
  <2>2. [c \in Codes |-> redeemed(code'[c])] = [c \in Codes |-> redeemed(code[c])]
    BY <2>1
  <2>3. QED
    BY <1>2, <2>2, OnePhoneAtATime DEF Binding!Next, Binding!Unbind, Binding!vars
<1>3. QED
  BY <1>1, <1>2

(***************************************************************************)
(* Pairing implements PhoneBinding: a code is redeemed at most once and a  *)
(* bound phone is never replaced, for any number of concurrent requests,   *)
(* with failures between any two statements.                               *)
(***************************************************************************)
THEOREM PairingImplementsPhoneBinding == Spec => ImplementsPhoneBinding
<1>1. Init => Binding!Init
  BY InitRefines
<1>2. Inv /\ [Next]_vars => [Binding!Next]_(Binding!vars)
  BY StepRefines
<1>3. QED
  BY <1>1, <1>2, InvIsInvariant, PTL DEF Spec, Binding!Spec, ImplementsPhoneBinding

-----------------------------------------------------------------------------
(***************************************************************************)
(* CodeTiedToIdentity fails; the rest says how.  A loose code is open, but *)
(* for a LinkedIn URL the student no longer has: a claim binds a phone to  *)
(* the wrong identity if, and only if, its code is loose by then.          *)
(***************************************************************************)
Loose(c) == code[c].state = "open" /\ url[code[c].student] # code[c].issuedFor

(* The URL that a request has read is no longer in the row. *)
Overtaken(w) == req[w].seen # url[req[w].s]

ComesLoose(c, w) ==
    \/ UpsertStudent(w) /\ (Overtaken(w) \/ req'[w].at = "expire")
    \/ FormSameUrl(w) /\ Overtaken(w)
    \/ InsertCode(w, c) /\ Overtaken(w)

(***************************************************************************)
(* "The QR code is tied to that exact LinkedIn identity" (server.mjs): a   *)
(* code comes loose only where a request writes on the strength of a read  *)
(* that another has overtaken, or has yet to expire the codes of the URL   *)
(* it has just replaced; and that expiry leaves no loose code, so it must  *)
(* be outrun by a claim, or its request must fail.                         *)
(***************************************************************************)
LooseCodesAreExplained ==
    [][/\ \A c \in Codes : Loose(c)' /\ ~Loose(c) =>
             \E w \in Workers : req[w].s = code'[c].student /\ ComesLoose(c, w)
       /\ \A w \in Workers : req[w].at = "expire" /\ req'[w].at # "expire" =>
             \/ Fail(w)
             \/ \A c \in Codes : code[c].student = req[w].s => ~Loose(c)']_vars

(* A code is issued for a URL, never for a student without one; and a form has
   a URL to write. *)
IssuedForAUrl ==
    /\ \A c \in Codes : code[c].state # "unissued" => code[c].issuedFor \in Urls
    /\ \A w \in Workers : /\ req[w].at = "insert" => req[w].seen \in Urls
                          /\ req[w].at = "formupdate" => req[w].to \in Urls

LEMMA StepKeepsIssuedForAUrl ==
  ASSUME Inv, IssuedForAUrl, [Next]_vars
  PROVE  IssuedForAUrl'
<1> USE DEF IssuedForAUrl
<1>0. TypeOK /\ RowsNameTheirStudent /\ LocksAreOwned
  BY DEF Inv
<1>1. ASSUME NEW w \in Workers, UpsertStudent(w) \/ ExpireStaleCodes(w)
      PROVE  IssuedForAUrl'
  <2>1. req'[w].at \notin {"insert", "formupdate"}
    <3>1. PICK place \in {"idle", "expire", "check", "formread"} : \E to : GoOn(w, place, to)
      BY <1>1 DEF UpsertStudent, ExpireStaleCodes, AfterUpsert
    <3>2. QED
      BY <1>0, <3>1 DEF GoOn, TypeOK, Idle
  <2>2. \A v \in Workers : v # w => req'[v] = req[v]
    BY <1>0, <1>1 DEF UpsertStudent, ExpireStaleCodes, GoOn, TypeOK
  <2>3. \A c \in Codes : /\ code'[c].state # "unissued" => code[c].state # "unissued"
                         /\ code'[c].issuedFor = code[c].issuedFor
    BY <1>0, <1>1
       DEF UpsertStudent, ExpireStaleCodes, Expired, OpenCodes, TypeOK, CodeRow
  <2>4. QED
    BY <2>1, <2>2, <2>3
<1>2. ASSUME NEW w \in Workers, CheckEligible(w)
      PROVE  IssuedForAUrl'
  <2>1. url[req[w].s] \in Urls
    BY <1>0, <1>2 DEF CheckEligible, TypeOK, RowsNameTheirStudent
  <2>2. QED
    BY <1>0, <1>2, <2>1 DEF CheckEligible, TypeOK, Request
<1>3. ASSUME NEW w \in Workers, NEW c \in Codes, InsertCode(w, c)
      PROVE  IssuedForAUrl'
  <2>1. req[w].at = "insert" /\ req' = [req EXCEPT ![w] = Idle]
    BY <1>3 DEF InsertCode, Finish
  <2>2. code'[c].issuedFor \in Urls /\ \A d \in Codes : d # c => code'[d] = code[d]
    BY <1>0, <1>3, <2>1 DEF InsertCode, TypeOK
  <2>3. QED
    BY <1>0, <2>1, <2>2 DEF TypeOK, Idle
<1>4. ASSUME NEW w \in Workers, NEW to \in Urls, FormRead(w, to)
      PROVE  IssuedForAUrl'
  BY <1>0, <1>4 DEF FormRead, TypeOK, Request
<1>5. ASSUME NEW w \in Workers, FormLockStudent(w)
      PROVE  IssuedForAUrl'
  BY <1>0, <1>5 DEF FormLockStudent, TypeOK, Request
<1>6. ASSUME NEW w \in Workers, FormCommit(w)
      PROVE  IssuedForAUrl'
  BY <1>0, <1>6 DEF FormCommit, Finish, Expired, OpenCodes, TypeOK, CodeRow, Idle
<1>7. ASSUME NEW w \in Workers, ClaimBind(w)
      PROVE  IssuedForAUrl'
  BY <1>0, <1>7 DEF ClaimBind, Finish, LocksAreOwned, TypeOK, CodeRow, Idle
<1>8. ASSUME NEW w \in Workers, FormSameUrl(w) \/ ClaimReject(w) \/ Fail(w)
      PROVE  IssuedForAUrl'
  BY <1>0, <1>8 DEF FormSameUrl, ClaimReject, Fail, Finish, TypeOK, Idle
<1>9. ASSUME NEW c \in Codes, CodeTimesOut(c)
      PROVE  IssuedForAUrl'
  BY <1>0, <1>9 DEF CodeTimesOut, TypeOK, CodeRow
<1>10. ASSUME NEW w \in Workers, NEW s \in Students,
              NEW op \in {"page", "start", "form"}, NEW to \in Urls \union {None},
              Visit(w, s, op, to)
       PROVE  IssuedForAUrl'
  BY <1>0, <1>10 DEF Visit, TypeOK, Idle
<1>11. ASSUME NEW w \in Workers, NEW c \in Codes, NEW p \in Phones,
              ClaimLockCode(w, c, p)
       PROVE  IssuedForAUrl'
  BY <1>0, <1>11 DEF ClaimLockCode, TypeOK, Idle
<1>12. CASE UNCHANGED vars
  BY <1>12 DEF vars
<1>13. QED
  BY <1>1, <1>2, <1>3, <1>4, <1>5, <1>6, <1>7, <1>8, <1>9, <1>10, <1>11, <1>12
     DEF Next, Step, AbortDeadlock

(***************************************************************************)
(* An expiry leaves no code of its student open, a form save neither.      *)
(***************************************************************************)
LEMMA ExpiryLeavesNoneOpen ==
  ASSUME Inv, NEW w \in Workers, ExpireStaleCodes(w) \/ FormCommit(w),
         NEW c \in Codes
  PROVE  /\ code[c].student = req[w].s => code'[c].state # "open"
         /\ code[c].student # req[w].s => code'[c] = code[c]
         /\ code'[c].student = code[c].student
         /\ code'[c].state = "open" => code'[c] = code[c]
  BY DEF Inv, ExpireStaleCodes, FormCommit, Expired, OpenCodes, TypeOK, CodeRow

(***************************************************************************)
(* Where the URL of a student is written, and what was in the row before.  *)
(***************************************************************************)
LEMMA UrlWrites ==
  ASSUME Inv, IssuedForAUrl, NEW w \in Workers, NEW c \in Codes,
         UpsertStudent(w) \/ FormSameUrl(w), Loose(c)', ~Loose(c)
  PROVE  req[w].s = code'[c].student /\ ComesLoose(c, w)
<1>0. TypeOK /\ RowsNameTheirStudent
  BY DEF Inv
<1>1. code' = code /\ code[c].issuedFor \in Urls /\ code[c].student \in Students
  BY <1>0 DEF UpsertStudent, FormSameUrl, Loose, IssuedForAUrl, RowsNameTheirStudent
<1>2. req[w].s \in Students /\ url[code[c].student] \in Urls
  BY <1>0, <1>1 DEF UpsertStudent, FormSameUrl, Loose, RowsNameTheirStudent
<1>3. req[w].s = code[c].student /\ url'[req[w].s] # url[req[w].s]
  BY <1>0, <1>1, <1>2 DEF UpsertStudent, FormSameUrl, Loose, TypeOK
<1>4. CASE FormSameUrl(w)
  <2>1. req[w].seen # url[req[w].s]
    BY <1>0, <1>2, <1>3, <1>4 DEF FormSameUrl, TypeOK
  <2>2. QED
    BY <1>1, <1>3, <1>4, <2>1 DEF ComesLoose, Overtaken
<1>5. CASE UpsertStudent(w) /\ ~Overtaken(w)
  <2>1. req[w].to # None /\ req[w].to # url[req[w].s]
    BY <1>0, <1>2, <1>3, <1>5 DEF UpsertStudent, TypeOK
  <2>2. LinkedInChanged(req[w])
    BY <1>2, <1>3, <1>5, <2>1, NoneAssumption DEF Overtaken, LinkedInChanged
  <2>3. req'[w].at = "expire"
    BY <1>0, <1>5, <2>2 DEF UpsertStudent, GoOn, TypeOK, Idle
  <2>4. QED
    BY <1>1, <1>3, <1>5, <2>3 DEF ComesLoose
<1>6. CASE UpsertStudent(w) /\ Overtaken(w)
  BY <1>1, <1>3, <1>6 DEF ComesLoose
<1>7. QED
  BY <1>4, <1>5, <1>6

LEMMA HowACodeComesLoose ==
  ASSUME Inv, IssuedForAUrl, [Next]_vars, NEW c \in Codes, Loose(c)', ~Loose(c)
  PROVE  \E w \in Workers : req[w].s = code'[c].student /\ ComesLoose(c, w)
<1>0. TypeOK /\ RowsNameTheirStudent /\ LocksAreOwned
  BY DEF Inv
<1>1. ASSUME NEW w \in Workers, UpsertStudent(w) \/ FormSameUrl(w)
      PROVE  req[w].s = code'[c].student /\ ComesLoose(c, w)
  BY <1>1, UrlWrites
<1>2. ASSUME NEW w \in Workers, NEW d \in Codes, InsertCode(w, d)
      PROVE  req[w].s = code'[c].student /\ ComesLoose(c, w)
  <2>1. d = c /\ code'[c].student = req[w].s /\ code'[c].issuedFor = req[w].seen
    BY <1>0, <1>2 DEF InsertCode, Loose, TypeOK
  <2>2. Overtaken(w)
    BY <1>2, <2>1 DEF InsertCode, Loose, Overtaken
  <2>3. QED
    BY <1>2, <2>1, <2>2 DEF ComesLoose
<1>3. ASSUME NEW w \in Workers, FormCommit(w) \/ ExpireStaleCodes(w)
      PROVE  FALSE
  <2>1. code'[c] = code[c] /\ code[c].student # req[w].s /\ code[c].student \in Students
    BY <1>0, <1>3, ExpiryLeavesNoneOpen DEF Loose, RowsNameTheirStudent
  <2>2. url'[code[c].student] = url[code[c].student]
    BY <1>0, <1>3, <2>1 DEF FormCommit, ExpireStaleCodes, TypeOK
  <2>3. QED
    BY <2>1, <2>2 DEF Loose
<1>4. ASSUME NEW w \in Workers, ClaimBind(w)
      PROVE  FALSE
  BY <1>0, <1>4 DEF ClaimBind, LocksAreOwned, Loose, TypeOK, CodeRow
<1>5. ASSUME NEW d \in Codes, CodeTimesOut(d)
      PROVE  FALSE
  BY <1>0, <1>5 DEF CodeTimesOut, Loose, TypeOK, CodeRow
<1>6. CASE UNCHANGED <<url, code>>
  BY <1>6 DEF Loose
<1>7. QED
  BY <1>1, <1>2, <1>3, <1>4, <1>5, <1>6
     DEF Next, vars, Step, AbortDeadlock, Visit, ClaimLockCode, CheckEligible,
         FormRead, FormLockStudent, ClaimReject, Fail

LEMMA WhatAnExpiryLeaves ==
  ASSUME Inv, [Next]_vars, NEW w \in Workers,
         req[w].at = "expire", req'[w].at # "expire"
  PROVE  \/ Fail(w)
         \/ \A c \in Codes : code[c].student = req[w].s => ~Loose(c)'
<1>0. TypeOK
  BY DEF Inv
<1>1. \E v \in Workers : \/ /\ v # w /\ req'[w] = req[w]
                         \/ v = w /\ (ExpireStaleCodes(w) \/ Fail(w))
                         \/ req' = req
  BY <1>0
     DEF Next, vars, Step, AbortDeadlock, Visit, ClaimLockCode, UpsertStudent, GoOn,
         ExpireStaleCodes, CheckEligible, InsertCode, FormRead, FormSameUrl,
         FormLockStudent, FormCommit, ClaimReject, ClaimBind, Fail, Finish,
         CodeTimesOut, TypeOK
<1>2. ExpireStaleCodes(w) \/ Fail(w)
  BY <1>1
<1>3. QED
  BY <1>2, ExpiryLeavesNoneOpen DEF Loose

(***************************************************************************)
(* How far the failure of CodeTiedToIdentity goes, for any number of       *)
(* requests, codes and URLs (upsertStudentFromAuth, generatePairingCode,   *)
(* updateStudentLinkedInProfileUrl).                                       *)
(***************************************************************************)
THEOREM EveryLooseCodeIsExplained == Spec => LooseCodesAreExplained
<1>1. Init => IssuedForAUrl
  BY DEF Init, IssuedForAUrl, Unissued, Idle
<1>2. Inv /\ IssuedForAUrl /\ [Next]_vars => IssuedForAUrl'
  BY StepKeepsIssuedForAUrl
<1>3. Inv /\ IssuedForAUrl /\ [Next]_vars =>
         [/\ \A c \in Codes : Loose(c)' /\ ~Loose(c) =>
               \E w \in Workers : req[w].s = code'[c].student /\ ComesLoose(c, w)
          /\ \A w \in Workers : req[w].at = "expire" /\ req'[w].at # "expire" =>
               \/ Fail(w)
               \/ \A c \in Codes : code[c].student = req[w].s => ~Loose(c)']_vars
  BY HowACodeComesLoose, WhatAnExpiryLeaves
<1>4. QED
  BY <1>1, <1>2, <1>3, InvIsInvariant, PTL DEF Spec, LooseCodesAreExplained

=============================================================================

----------------------------- MODULE InboundMail -----------------------------
(***************************************************************************)
(* A mail from Cloudflare Email Routing to the database or to the          *)
(* operator's inbox (apps/email-worker, apps/startup/workers/routes/       *)
(* email.ts, infra/startup-api, POST /webhooks/email of apps/app).         *)
(*                                                                         *)
(* One email() call per mail.  A conversation alias is POSTed to Fly; an   *)
(* employers address is handed off to the startup Worker, under a timeout; *)
(* what is left is forwarded to the operator and Fly gets an audit ping.   *)
(* Each server works on when its client has given up.                      *)
(*                                                                         *)
(* All mails have one sender, the hard case for the key "email:from:ts".   *)
(* Mails carry distinct Message-IDs.                                       *)
(***************************************************************************)
EXTENDS Naturals

CONSTANTS Mails,
          Conversations,    \* mails to conv-<uuid>@agent.internjobs.ai
          Employers,        \* mails to <slug>@employers.internjobs.ai
          ResolveTimeout,   \* RESOLVE_TIMEOUT_MS
          InsertTimeout,    \* INSERT_TIMEOUT_MS
          Overhead,         \* OVERHEAD_BUDGET_MS
          HandoffTimeout,   \* EMPLOYERS_HANDOFF_TIMEOUT_MS
          MaxClock,         \* bound: milliseconds at which a ts is taken
          None

ASSUME NoneAssumption == None \notin Mails \union Nat

ASSUME AddressesAssumption ==
    /\ Conversations \subseteq Mails
    /\ Employers \subseteq Mails \ Conversations

ASSUME TimesAreNat ==
    /\ ResolveTimeout \in Nat
    /\ InsertTimeout \in Nat
    /\ Overhead \in Nat
    /\ HandoffTimeout \in Nat
    /\ MaxClock \in Nat

(* scripts/check-email-timeout-invariant.mjs; strict, as it is for 4000, 5000,
   5000 and 20000, since at equality the timer and the answer race. *)
ASSUME LatencyBudget ==
    ResolveTimeout + InsertTimeout + Overhead < HandoffTimeout

VARIABLES mail,        \* what email() is doing for each mail
          stamp,       \* the ts of the payload it has POSTed to Fly
          fly,         \* what POST /webhooks/email is doing with that payload
          rows,        \* inbound_messages of apps/app: whose row has each ts
          startup,     \* what POST /internal/email/inbound is doing
          proxy,       \* what POST /v1/messages/inbound is doing
          spent,       \* time of the handoff so far, by what it went into
          clock,       \* Date.now()
          forwarded,   \* the mails in the operator's inbox
          notForwarded,\* history: message.forward threw
          unread,      \* history: the body of the mail could not be read
          timedOut     \* history: EMPLOYERS_HANDOFF_TIMEOUT_MS passed

vars == <<mail, stamp, fly, rows, startup, proxy, spent, clock, forwarded,
          notForwarded, unread, timedOut>>

handoffVars == <<startup, proxy, spent, timedOut>>
flyVars == <<stamp, fly, rows>>
operatorVars == <<forwarded, notForwarded>>

TypeOK ==
    /\ mail \in [Mails -> {"idle", "read", "sign", "post", "handoff", "wait",
                           "forward", "audit", "ping", "done"}]
    /\ stamp \in [Mails -> 0..MaxClock \union {None}]
    /\ fly \in [Mails -> {"none", "insert", "event", "ok", "failed"}]
    /\ rows \in [0..MaxClock -> Mails \union {None}]
    /\ startup \in [Mails -> {"none", "receive", "resolve", "parse", "insert",
                              "ok", "failed", "hung"}]
    /\ proxy \in [Mails -> {"none", "pending", "inserted", "failed"}]
    /\ spent \in [Mails -> [{"resolve", "insert", "other"} -> Nat]]
    /\ clock \in 0..MaxClock
    /\ forwarded \subseteq Mails
    /\ notForwarded \subseteq Mails
    /\ unread \subseteq Mails
    /\ timedOut \subseteq Mails

NothingSpent == [part \in {"resolve", "insert", "other"} |-> 0]

Init ==
    /\ mail = [m \in Mails |-> "idle"]
    /\ stamp = [m \in Mails |-> None]
    /\ fly = [m \in Mails |-> "none"]
    /\ rows = [ts \in 0..MaxClock |-> None]
    /\ startup = [m \in Mails |-> "none"]
    /\ proxy = [m \in Mails |-> "none"]
    /\ spent = [m \in Mails |-> NothingSpent]
    /\ clock = 0
    /\ forwarded = {}
    /\ notForwarded = {}
    /\ unread = {}
    /\ timedOut = {}

Go(m, place) == mail' = [mail EXCEPT ![m] = place]

-----------------------------------------------------------------------------
(* email(): the branch, the conversation alias, the forward and the ping. *)

Receive(m) ==
    /\ mail[m] = "idle"
    /\ Go(m, IF m \in Conversations THEN "read"
              ELSE IF m \in Employers THEN "handoff" ELSE "forward")
    /\ UNCHANGED <<flyVars, handoffVars, operatorVars, clock, unread>>

(* A body that cannot be read becomes "(body parse failed)" and goes on. *)
ReadBody(m, readable) ==
    /\ mail[m] = "read"
    /\ unread' = IF readable THEN unread ELSE unread \union {m}
    /\ Go(m, "sign")
    /\ UNCHANGED <<flyVars, handoffVars, operatorVars, clock>>

(* The payload gets its ts, is signed and leaves. *)
SendToFly(m) ==
    /\ stamp' = [stamp EXCEPT ![m] = clock]
    /\ fly' = [fly EXCEPT ![m] = "insert"]
    /\ UNCHANGED <<handoffVars, operatorVars, rows, clock, unread>>

Post(m) == mail[m] = "sign" /\ Go(m, "post") /\ SendToFly(m)

(* Signing throws: the outer catch forwards the mail. *)
SignFails(m) ==
    /\ mail[m] = "sign"
    /\ Go(m, "forward")
    /\ UNCHANGED <<flyVars, handoffVars, operatorVars, clock, unread>>

PostAnswered(m) ==
    /\ mail[m] = "post"
    /\ fly[m] \in {"ok", "failed"}
    /\ Go(m, IF fly[m] = "ok" THEN "done" ELSE "forward")
    /\ UNCHANGED <<flyVars, handoffVars, operatorVars, clock, unread>>

(* The fetch throws: the request or its answer is lost on the way. *)
PostLost(m) ==
    /\ mail[m] = "post"
    /\ Go(m, "forward")
    /\ UNCHANGED <<flyVars, handoffVars, operatorVars, clock, unread>>

Forward(m, accepted) ==
    /\ mail[m] = "forward"
    /\ forwarded' = IF accepted THEN forwarded \union {m} ELSE forwarded
    /\ notForwarded' = IF accepted THEN notForwarded ELSE notForwarded \union {m}
    /\ Go(m, IF m \in Conversations THEN "done" ELSE "audit")
    /\ UNCHANGED <<flyVars, handoffVars, clock, unread>>

AuditPing(m) == mail[m] = "audit" /\ Go(m, "ping") /\ SendToFly(m)

(* Signing throws, the fetch throws, or any answer: nobody looks. *)
AuditEnds(m) ==
    /\ mail[m] \in {"audit", "ping"}
    /\ Go(m, "done")
    /\ UNCHANGED <<flyVars, handoffVars, operatorVars, clock, unread>>

-----------------------------------------------------------------------------
(* POST /webhooks/email and recordEmailInbound; the audit ping goes the same
   way and gets a row of its own, with an empty body. *)

FlyInsert(m) ==
    /\ fly[m] = "insert"
    /\ rows' = [rows EXCEPT ![stamp[m]] = IF @ = None THEN m ELSE @]
    /\ fly' = [fly EXCEPT ![m] = "event"]
    /\ UNCHANGED <<mail, stamp, handoffVars, operatorVars, clock, unread>>

(* Slip: a duplicate is answered like a failure, with a status of its own. *)
FlyEventConflict(m) ==
    /\ fly[m] = "event"
    /\ fly' = [fly EXCEPT ![m] = IF rows[stamp[m]] = m THEN "ok" ELSE "duplicate"]
    /\ UNCHANGED <<mail, stamp, rows, handoffVars, operatorVars, clock, unread>>

(* The audit_events row is written: 200, duplicate or not. *)
FlyEvent(m) ==
    /\ fly[m] = "event"
    /\ fly' = [fly EXCEPT ![m] = "ok"]
    /\ UNCHANGED <<mail, stamp, rows, handoffVars, operatorVars, clock, unread>>

(* Refused, or a statement throws: 4xx or 5xx; what was inserted stays. *)
FlyFails(m) ==
    /\ fly[m] \in {"insert", "event"}
    /\ fly' = [fly EXCEPT ![m] = "failed"]
    /\ UNCHANGED <<mail, stamp, rows, handoffVars, operatorVars, clock, unread>>

-----------------------------------------------------------------------------
(* dispatchToEmployersHandoff. *)

(* Not configured, or the raw mail cannot be read. *)
HandoffSkipped(m) ==
    /\ mail[m] = "handoff"
    /\ Go(m, "forward")
    /\ UNCHANGED <<flyVars, handoffVars, operatorVars, clock, unread>>

HandoffPost(m) ==
    /\ mail[m] = "handoff"
    /\ Go(m, "wait")
    /\ startup' = [startup EXCEPT ![m] = "receive"]
    /\ UNCHANGED <<flyVars, operatorVars, proxy, spent, timedOut, clock, unread>>

(* What the clocks of this handoff showed is of no more use. *)
TimerStops(m) == spent' = [spent EXCEPT ![m] = NothingSpent]

HandoffAnswered(m) ==
    /\ mail[m] = "wait"
    /\ startup[m] \in {"ok", "failed"}
    /\ Go(m, IF startup[m] = "ok" THEN "done" ELSE "forward")
    /\ TimerStops(m)
    /\ UNCHANGED <<flyVars, operatorVars, startup, proxy, timedOut, clock, unread>>

HandoffLost(m) ==
    /\ mail[m] = "wait"
    /\ Go(m, "forward")
    /\ TimerStops(m)
    /\ UNCHANGED <<flyVars, operatorVars, startup, proxy, timedOut, clock, unread>>

Elapsed(m) == spent[m]["resolve"] + spent[m]["insert"] + spent[m]["other"]

(* Slip: the fetch is given no signal. *)
HandoffNeverTimesOut(m) ==
    /\ mail[m] = "wait"
    /\ Elapsed(m) > HandoffTimeout
    /\ Go(m, "forward")
    /\ timedOut' = timedOut \union {m}
    /\ TimerStops(m)
    /\ UNCHANGED <<flyVars, operatorVars, startup, proxy, clock, unread>>

HandoffTimesOut(m) ==
    /\ mail[m] = "wait"
    /\ Elapsed(m) = HandoffTimeout
    /\ Go(m, "forward")
    /\ timedOut' = timedOut \union {m}
    /\ TimerStops(m)
    /\ UNCHANGED <<flyVars, operatorVars, startup, proxy, clock, unread>>

-----------------------------------------------------------------------------
(* POST /internal/email/inbound and processInboundEmail. *)

StartupGoes(m, place) == startup' = [startup EXCEPT ![m] = place]

(* Each step that can be answered with an error: bad secret or recipient, no
   such slug or a failed lookup, unparseable MIME, a failed insert.  The two
   fetches fail this way too when their timeout passes, and the insert then
   goes on at the proxy. *)
StartupFails(m) ==
    /\ startup[m] \in {"receive", "resolve", "parse", "insert"}
    /\ StartupGoes(m, "failed")
    /\ UNCHANGED <<mail, flyVars, operatorVars, proxy, spent, timedOut, clock,
                   unread>>

StartupAccepts(m) ==
    /\ startup[m] = "receive"
    /\ StartupGoes(m, "resolve")
    /\ UNCHANGED <<mail, flyVars, operatorVars, proxy, spent, timedOut, clock,
                   unread>>

Resolved(m) ==
    /\ startup[m] = "resolve"
    /\ StartupGoes(m, "parse")
    /\ UNCHANGED <<mail, flyVars, operatorVars, proxy, spent, timedOut, clock,
                   unread>>

Parsed(m) ==
    /\ startup[m] = "parse"
    /\ StartupGoes(m, "insert")
    /\ proxy' = [proxy EXCEPT ![m] = "pending"]
    /\ UNCHANGED <<mail, flyVars, operatorVars, spent, timedOut, clock, unread>>

(* Slip: the 502 for a failed insert is sent as a 200. *)
InsertedUnchecked(m) ==
    /\ startup[m] = "insert"
    /\ proxy[m] \in {"inserted", "failed"}
    /\ StartupGoes(m, "ok")
    /\ UNCHANGED <<mail, flyVars, operatorVars, proxy, spent, timedOut, clock,
                   unread>>

Inserted(m) ==
    /\ startup[m] = "insert"
    /\ proxy[m] = "inserted"
    /\ StartupGoes(m, "ok")
    /\ UNCHANGED <<mail, flyVars, operatorVars, proxy, spent, timedOut, clock,
                   unread>>

(* The startup Worker stops, or its answer is lost: nothing arrives. *)
Hang(m) ==
    /\ startup[m] \in {"receive", "resolve", "parse", "insert", "ok", "failed"}
    /\ mail[m] = "wait"
    /\ StartupGoes(m, "hung")
    /\ UNCHANGED <<mail, flyVars, operatorVars, proxy, spent, timedOut, clock,
                   unread>>

(* startup-api inserts the row, or answers 4xx or 5xx. *)
ProxyAnswers(m, outcome) ==
    /\ proxy[m] = "pending"
    /\ proxy' = [proxy EXCEPT ![m] = outcome]
    /\ UNCHANGED <<mail, flyVars, operatorVars, startup, spent, timedOut, clock,
                   unread>>

-----------------------------------------------------------------------------
(* Time.  While the handoff waits, time goes into one of the two fetches, or
   into transmission and parsing; none of these outlasts its limit. *)

PartOf(place) == IF place \in {"resolve", "insert"} THEN place ELSE "other"

(* Slip: the fetch that inserts has lost its signal. *)
LimitWithoutInsertTimeout(place) ==
    CASE place = "resolve" -> ResolveTimeout
      [] place = "insert" -> HandoffTimeout
      [] OTHER -> Overhead

Limit(place) == CASE place = "resolve" -> ResolveTimeout
                  [] place = "insert" -> InsertTimeout
                  [] OTHER -> Overhead

Passes(m) ==
    LET part == PartOf(startup[m])
    IN  /\ mail[m] = "wait"
        /\ Elapsed(m) < HandoffTimeout
        /\ startup[m] # "hung" => spent[m][part] < Limit(startup[m])
        /\ spent' = [spent EXCEPT ![m][part] = @ + 1]
        /\ UNCHANGED <<mail, flyVars, operatorVars, startup, proxy, timedOut,
                       clock, unread>>

Tick ==
    /\ clock < MaxClock
    /\ clock' = clock + 1
    /\ UNCHANGED <<mail, flyVars, handoffVars, operatorVars, unread>>

-----------------------------------------------------------------------------
EmailWorker(m) ==
    \/ \E readable \in BOOLEAN : ReadBody(m, readable)
    \/ Post(m)
    \/ SignFails(m)
    \/ PostAnswered(m)
    \/ PostLost(m)
    \/ \E accepted \in BOOLEAN : Forward(m, accepted)
    \/ AuditPing(m)
    \/ AuditEnds(m)
    \/ HandoffSkipped(m)
    \/ HandoffPost(m)
    \/ HandoffAnswered(m)
    \/ HandoffLost(m)
    \/ HandoffTimesOut(m)

Fly(m) == FlyInsert(m) \/ FlyEvent(m) \/ FlyFails(m)

StartupWorker(m) ==
    \/ StartupAccepts(m)
    \/ Resolved(m)
    \/ Parsed(m)
    \/ Inserted(m)
    \/ StartupFails(m)
    \/ Hang(m)

Next ==
    \/ \E m \in Mails : Receive(m)
    \/ \E m \in Mails : EmailWorker(m) \/ Fly(m) \/ StartupWorker(m)
    \/ \E m \in Mails, outcome \in {"inserted", "failed"} : ProxyAnswers(m, outcome)
    \/ \E m \in Mails : Passes(m)
    \/ Tick

Spec == Init /\ [][Next]_vars

(* Clocks are all that is counted on: time passes, the timer of the handoff
   fires, and a stage of the startup Worker ends with an answer, an error, its
   own timer or a hang.  The network owes nothing, nor do the other servers. *)
FairSpec ==
    Spec /\ \A m \in Mails : /\ WF_vars(Passes(m))
                             /\ WF_vars(HandoffTimesOut(m))
                             /\ WF_vars(StartupWorker(m))

-----------------------------------------------------------------------------
(***************************************************************************)
(* The latency budget: email-worker's timer cuts a handoff short only when *)
(* the startup Worker was never going to answer, so a slow handoff that    *)
(* succeeds is not taken for a failure.                                    *)
(***************************************************************************)
TimerMeansSilence == \A m \in timedOut : startup[m] = "hung"

(* The operator or one of the two databases has the mail itself. *)
Kept(m) ==
    \/ m \in forwarded
    \/ proxy[m] = "inserted"
    \/ /\ m \in Conversations
       /\ m \notin unread
       /\ stamp[m] # None
       /\ rows[stamp[m]] = m

(* Fly took it for a duplicate: an earlier row has its sender and ts. *)
Shadowed(m) ==
    /\ stamp[m] # None
    /\ rows[stamp[m]] \notin {m, None}

(***************************************************************************)
(* Whatever fails or answers late, a mail that email() is done with has    *)
(* been kept, unless the forward itself threw, the body could not be read  *)
(* or another mail or ping of the sender had the same millisecond.         *)
(***************************************************************************)
DoneMailIsAccountedFor ==
    \A m \in Mails : mail[m] = "done" =>
        Kept(m) \/ m \in notForwarded \/ m \in unread \/ Shadowed(m)

(***************************************************************************)
(* A handoff comes to an end even when the startup Worker or the network   *)
(* never answers.                                                          *)
(***************************************************************************)
HandoffsEnd == \A m \in Mails : mail[m] = "wait" ~> mail[m] # "wait"

(***************************************************************************)
(* "On EVERY failure path, mail reaches a human rather than being dropped" *)
(* (email-worker/src/index.js): as long as forwarding works, a mail that   *)
(* email() is done with has been kept.                                     *)
(***************************************************************************)
FailurePathsKeepTheMail ==
    \A m \in Mails : mail[m] = "done" => Kept(m) \/ m \in notForwarded

=============================================================================

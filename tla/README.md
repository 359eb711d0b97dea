# TLA+ models of internjobs.ai

This directory holds TLA+ models of the protocols of internjobs.ai, the TLC
configurations that check them on small instances, and TLAPS proofs of what
holds for every instance. Paths are relative to the repository's root; lines
are those of the commit the models were written from.

Students talk to an agent by text message, founders talk to theirs by mail,
phone and text, and the team works in a shared workspace (Parrot). What can go
wrong lies between the statements: handlers interleave at every `await`,
deliveries are retried, servers give up on each other, and two stores hold
halves of one fact. That is what the models are about.

## Inventory

| Component | State | Operations | Status |
|---|---|---|---|
| Pairing (`apps/app/src/onboarding/pairing.mjs`, `store.mjs`) | `students`, `pairing_sessions`, row locks | page load (`upsertStudentFromAuth`), `generatePairingCode`, `updateStudentLinkedInProfileUrl`, `claimPairingCode` | `Pairing` |
| Student text pipeline (`server.mjs`, `workflows/student-inbound.mjs`, `outbound.mjs`) | `messaging_events`, `inbound_messages`, `drafts` | webhook, dedup, record, screen, agent turn, autonomous send | `StudentTexts` |
| Inbound mail (`apps/email-worker`, `apps/startup/workers/routes/email.ts`, `infra/startup-api`, `/webhooks/email`) | the mail in progress, rows in two databases, timers | receive, read, sign, POST, hand off, resolve, parse, insert, forward, audit | `InboundMail` |
| Parrot todos (`apps/parrot/workers`, `infra/graph-api`) | `todos` in the employee's durable object, `:Todo` in the graph | extract, reply, delete, auto-clear, undo | `ParrotTodos` |
| Parrot mailbox: folders and spam (`apps/parrot/workers`: `lib/inbound-email.ts`, `lib/spam-purge.ts`) | `emails.folder_id`, `trusted_senders`, `spam_purge_last_run` | receive, screen, move, trust, delete twice, sweep | `MailFolders` |
| Parrot mailbox: sending (`routes/reply-forward.ts`, `lib/attachments.ts`) | mails in Sent | compose, reply, forward under two limits | `OutgoingMail` |
| Parrot mailbox: mentions (`durableObject/index.ts`) | watermark, `notifications`, `offline_chat_notified_count`, alarm | poll, notify, read, clear, mail, be seen | `OfflineMentions` |
| Parrot staff (`routes/admin-employees.ts`, `lib/clerk-admin.ts`, `routes/oidc.ts`, `durableObject/workspace.ts`) | directory, Clerk users, codes, tokens | invite, disable, delete, authorize, exchange, sweep | `StaffAccess` |
| Parrot chat (`app/components/ChatPane.tsx`, `lib/mm-ws-proxy.ts`) | the post list of each room in a tab's cache | open, fetch, socket, send, pin, react, edit | `ChatPane` |
| Mac bridge (`apps/mac-bridge`) | typing bubbles, socket | inbound, timer, send, dial, close, reconnect | `TextBridge` |
| Student graph memory (`apps/app/src/memory/graph.mjs`) | temporal facts | `recordTurnFacts`, `recordFact`: close out, then insert | `GraphMemory` |
| Weekly touchbase (`apps/startup/workers/routes/scheduled.ts`, `routes/telnyx.ts`) | `last_touchbase_at`, `opt_in_flags`, `status` of links | cron: ask for a hundred at most, text, mark; STOP, YES | `FounderTexts` |
| Startup registration (`routes/admin.ts`, `lib/slug.ts`) | `startups`, `agent_email`, `startup_channel_links` | look for the founder, insert, probe, take, link, welcome | `StartupOnboarding` |
| startup-api, graph-api | connections | single statements behind a bearer token | partly, as environment |
| Startup Worker: voice, classifier, MCP tools | none of its own | forwarding | not modelled |
| Spectrum listener, operator routes, pages, authentication, object storage | none across requests | single statements and rendering | not modelled |
| Parrot's other screens; employers and marketing sites; agentic-inbox | user interface and pass-through, a vendored application | | not modelled |

How they interact:

- *Text.* BlueBubbles → Mac bridge → `POST /webhooks/mac-bridge` of the Fly app,
  which claims a START code or deduplicates and records the text, screens it,
  and starts the workflow without awaiting it. The workflow's send goes back
  through the bridge.
- *Mail.* Email Routing → `email()` of email-worker → either a signed POST to the
  Fly app, or the startup Worker by service binding, which resolves the slug and
  inserts through startup-api; what neither takes is forwarded to the operator.
- *Workspace.* A mail in an employee's durable object is extracted into todos,
  which are also written to the graph through graph-api. A cron reads closed
  nodes back and resolves rows. Other crons sweep Spam and, for each employee, an
  alarm of the durable object polls the chat and mails mentions. The chat itself
  is Mattermost, behind a socket proxy and a sign-in that Parrot provides.
- *Founders.* A registration makes rows through startup-api and an address that
  inbound mail resolves by; a weekly cron texts those who subscribed and their
  answers come back through Telnyx.

What is hard in them, and the properties that make each part correct:

| Part | Hard because | Correct when |
|---|---|---|
| Pairing | a page load, a form save and a text run at once; locks are taken in opposite orders; statements that belong together are not one transaction | a code is redeemed once, a bound phone is never replaced, a request never waits for ever |
| Texts | overlapping and repeated deliveries; a crash between any two statements; a send whose answer is lost | at most one reply, nothing blocked reaches the agent, rows tell what happened |
| Mail | servers that work on after their client gave up; a timer that races a success; keys that collide | no mail disappears, the timer cuts off only a dead server |
| Memory | a fact is replaced by two queries; turns are awaited by nobody, so they overlap and die with the process | a single-valued predicate has one value unless a turn was disturbed, and the next turn repairs it |
| Todos | two stores without a transaction; best-effort calls in any order; overlapping cron runs with stale batches | the agent clears only what was acknowledged, the employee's word is final |
| Folders | a request reads the folder in one call and acts in another, next to a sweep and other tabs | mail is destroyed from Trash or from old Spam only; the sweep cannot stop for ever |
| Sending | check and store are two calls; the count compares timestamps of two formats | the limit is passed by those at work at once, and no further |
| Mentions | a watermark over many fetches, a count put after a mail has been awaited | nothing is skipped but by a failed fetch; a mention reaches who stays away, once |
| Staff | a user at Clerk, a row here, codes and tokens, each changed by a call of its own | who was listed stays listed until removed; the access of who was disabled runs out |
| Chat | one row arrives by three ways, callbacks act on whatever room is open | a room shows its own posts |
| Bridge | timers and a waiting send on one entry; a socket that dies in many states | a bubble has its time, and a timer unless a restart left it on; the bridge does not stay deaf |
| Touchbase | failing calls that are answered as if they had not; a week against seven days | an opt-out on record is respected, texts are a week apart, only the limit passes anybody over twice |
| Registration | a free address is looked up in one call and taken in another | mail to the address in a welcome reaches that startup alone |

`PROJECT.json` lists every hazard at its line, with the properties that would
notice it going wrong, or the reason why none does.

## Modules

| Module | What it is |
|---|---|
| `PhoneBinding` | abstract: codes are redeemed at most once, and binding or clearing is all that happens to a phone |
| `Pairing` | the statements and row locks of pairing; implements `PhoneBinding` |
| `TextReplies` | abstract: a text is judged once, and one that passed is answered once, by a reply or the welcome texts in order |
| `StudentTexts` | a delivery from webhook to send; implements `TextReplies` |
| `InboundMail` | a mail through four servers and their timers |
| `TodoCards` | abstract: the card of a todo, what was acknowledged and what is due |
| `ParrotTodos` | a todo in the durable object and in the graph; implements `TodoCards` |
| `GraphMemory` | what the agent remembers of a student, one query at a time |
| `MailFolders` | the folders of a mailbox, requests that cross, and the sweep of Spam |
| `OutgoingMail` | sending under an hourly and a daily limit |
| `OfflineMentions` | the alarm that polls the chat and mails mentions |
| `StaffAccess` | invitation, removal and sign-in to the chat |
| `ChatPane` | what a tab shows of each room |
| `TextBridge` | the typing bubble and the socket of the Mac bridge |
| `FounderTexts` | the weekly text, STOP and YES, for links that may share a phone |
| `StartupOnboarding` | registrations that compete for mail addresses |
| `MC*` | the instance for TLC; the `.cfg` files give the values. `MCWorkspace` puts the last eight side by side |
| `PairingProofs`, `InboundMailProofs`, `ParrotTodosProofs`, `GraphMemoryProofs` | theorems about the module of that name |
| `TextProofs` | about `StudentTexts` |
| `MailboxProofs` | about `MailFolders`, `OutgoingMail` and `OfflineMentions` |
| `StaffProofs` | about `StaffAccess` and `ChatPane` |
| `WorkspaceProofs` | about `FounderTexts`, `StartupOnboarding` and `TextBridge`, and about the composition `MCWorkspace` |

Definitions whose comment starts with *Mutant* are wrong on purpose. Each is a
plausible bug in the code a definition models: put in its place it breaks the
property it is listed with, which shows that the property can fail.

### Pairing

A worker is a request being served; its field `at` is the statement it comes to
next. `Visit` starts a page load, `/onboard/start` or a form POST. All three run
`upsertStudentFromAuth`: a read (`Visit`), the upsert (`UpsertStudent`) and the
separate expiry of open codes (`ExpireStaleCodes`). `/onboard/start` goes on to
`CheckEligible` and `InsertCode` (`generatePairingCode`); the form to `FormRead`
and either `FormSameUrl` or `FormLockStudent` and `FormCommit`. A text is
`ClaimLockCode` (`select … for update` on the code) and then `ClaimReject` or
`ClaimBind`, which wait for the students row. What a transaction writes appears
at its commit. `Fail` is a statement that throws; `AbortDeadlock` is what
Postgres does about the lock-order inversion between form and claim.

Abstractions: `students.status` is merged with the phone (both are always
written together); waitlist, snapshot, consent and audit rows are left out, as is
`channel_pairing_codes`, which is only expired alongside; a collision of a fresh
code (23505) is a choice among the unissued ones.

### StudentTexts

A task is one delivery: the HTTP handler and then the workflow it starts. Each
action is one statement or call, named after the function. `Interrupt` ends a
task anywhere (an exception, a deploy, a crash). `Send` decides separately
whether the text arrives and whether the bridge's answer does. `verdict`, `got`,
`deliveries` and `interrupted` are history. `Branch` is the way a text takes: a
START text claims the code (`Claim`, or `ClaimRefused` with the event it leaves
to `RejectEvent`, `pairing_expired` or `pairing_rejected`); a text in `codelike`,
with what looks like a code of the older kinds, meets `ConfirmCode`, which always
ends it; the others are looked up and recorded. `live` says that sends are tried:
the bridge client is configured and there is no dry run. Where it is false `Send`
delivers nothing and is answered all the same, as `routeAndSend` is.

Abstractions: one student, phone and code; the drafts of one text are its reply
or the two welcome texts; safety events, threads and audit rows are left out; so is
the e-mail branch of `routeAndSend`. The workflow's count of earlier drafts, which decides on first
contact, is not raced by two ordinary texts.

### InboundMail

`mail[m]` is where `email()` is with a mail; `fly[m]`, `startup[m]` and
`proxy[m]` are what the three servers do with it, each on its own: a client that
gives up (`PostLost`, `HandoffTimesOut`) does not stop its server. `spent` is
the time the handoff has used, by stage; `Passes` advances it within the limit of
the stage the startup Worker is in, so a stage ends by an answer, an error, its
own timer or, if the Worker hangs, by none of these. `rows` is keyed by
millisecond, as `email:from:ts` is for one sender.

Abstractions: one sender, the hard case for that key; distinct Message-IDs; the
body is readable or not.

### ParrotTodos

A method of the durable object runs without interleaving, so each is one action;
between two awaits of a route anything may happen. `row` and `node` are the two
halves of a todo. A row is `active`, resolved by the `user` (`resolved_at` set,
`resolution_source` NULL) or by the `agent`. A node is `open` (`valid_to` null),
`closed`, or `settled` once the five minutes of grace are over. `recording`,
`closing` and `reopening` are calls to graph-api under way; they land in any
order, or stay under way for ever, which is what a lost call amounts to since no
caller looks at the outcome. `batch[k]` is what a run of the cron has still to
resolve, possibly stale. `RowId` and `NodeId` are distinct: the one is a random
UUID, the other a hash.

Abstractions: one employee; a todo per mail, as the unique index on
`(source_channel, source_id)` enforces; chat todos are left out, since nothing
closes their nodes; deletion is the final one (from trash, or the purge of
spam), the folders before it are not kept.

### GraphMemory

A turn is the extraction of one text, `said[t]` its list of facts and `next[t]`
the loop's position. `at[t]` is the query `recordFact` comes to: `CloseConflicts`
is step 1, `MergeFact` step 2; `CloseFails` and `MergeFails` are their catch
blocks, after a query that took effect or did not, and `Unreachable` is a graph
without a connection. A node's id is a hash of student, predicate, value and
text, so a node is a record of the last three. `rough` is history: the turns that
overlapped another, had a query fail, or were killed. The properties say what
holds of the others, and what an undisturbed turn makes of the mess left to it.

Abstractions: one student; confidence and timestamps are left out; a text is
extracted once, which `StudentTexts` justifies. `Statement` is what can be said:
a predicate with one of its values.

### MailFolders

`folder[m]` is the folder of a mail, `intake[m]` where `receiveEmail` is with it,
and `tab[t]` the request a tab has under way, with what it has read: `ReadForDelete`
is the `getEmail` of `DELETE /messages/:id`, `MoveToTrash` and `DeleteEmail` its two
branches. `sweep` is a run of `runSpamPurge`; `aged` are the mails beyond the
retention, of which a run keeps those that were so at its cutoff. `crossed` is
history: a mail taken out of Trash under a request that will destroy it.

Abstractions: one sender, so `trusted` is a Boolean; drafts and Sent are left out
(a move to them is a move to the archive); the attachments in R2 go with the row.

### OutgoingMail

A send is a compose, a reply or a forward: `CheckSendRateLimit`,
`StoreAttachments`, `CreateSent`, `Deliver`, each one call. `Counted` compares as
the code does, text with text (`T` against a space), which counts the whole day
of the cutoff. Only what is left in Sent counts (`LeaveSent`), and what was moved
into it, so a mailbox within its limits may be refused.

### OfflineMentions

Times are sets of posts: the watermark is the set of posts it leaves behind, and
`upTo` what had been posted when the poll took the time. `alarm.pc` is `poll`
(fetching, channel after channel), `check`, or `mail` (the mail is awaited).
`touchLastSeen` is fired by each request and waited for by none, so it is a step
of its own. `skipped`, `noticed`, `mailed` and `lateMark` are history.

### StaffAccess

An invite checks the address, makes a user at Clerk and has the durable object
insert the row, whose `workspace_email` is unique; all invites are for one name, the
hard case. `CreateEmployee` is the row written, answered or not;
`CreateEmployeeFails` is the row not written, whether the address was taken or the
call failed otherwise, and in neither case is the user taken back. A
removal locks the user, or tries to, and writes the row. A ticket is a sign-in:
`Authorize` reads the row, then a code is minted, consumed and changed for a
token; ages are counted in ticks, and a request ends within one. `vouched` says
that the row was read, since a lookup that fails lets the claims decide.

### ChatPane

`shown[c]` is the cache entry of room `c`, `fetch[c]` its GET (asked, answered,
arrived), `wire` the events of the socket, `sending` and `pinning` the mutations
under way. `SendSucceeds`, `SendFails` and `PinFails` act on the room that is open
when they run. `overtaken` is history: a callback met another room than its
mutation began in, or put back an outdated list. From there on nothing is said of
the rows, and that is the code's behaviour, not the model's: `useMutation` gives a
pending mutation the options of the last render, so `activeId` has changed.

Abstractions: the order of rows, reactions and flags within a row, threads and
the sidebar are left out, and so are badges.

### TextBridge

One chat: `entry` is its timer in `pendingTyping`, `armed` the timers that will
fire, `cached` whether `threadCache` knows the chat. A send that finds a young entry
waits (`StartSend`); then `SendText` deletes whatever entry there is and clears the
timer of the one it read before it waited. `SendAtOnce` does not wait, and
`SendCold` meets a chat that is not cached, whose bubble it leaves alone. `Restart`
forgets all of this and leaves the bubble as it is. `stray` (timers whose entry has
been taken away, or will be by a send that waits) and `orphaned` (a bubble that a
restart left on) are history. `socket` is the state of the connection; `reloading` is
a `connect()` of a reconnect that has yet to load `ws`, whose failure is
swallowed (`given up`), and `kicked` a session that BlueBubbles ended with a
frame the client ignores. The forward to the app is left out.

### FounderTexts

A link is a row of `startup_channel_links`, a startup and a phone; a phone that
is registered for two startups has two. Time is the tick of the week; the cron fires
in its first `MaxDelay` ticks. `FetchDueStartups` takes the links that are due, the
longest waiting first and at most `Limit` of them (`IsBatch`); `SendTouchbase` and
`MarkTouchbaseSent` or `MarkFails` follow for each. `sendSms` never throws, so a mark says that a
text was tried. STOP is `StopArrives`, which finds one
of the active links of the phone, `OptOut` or `OptOutFails`, `ConfirmStop`; YES is `YesArrives`, `OptIn`. `told`, `late`, `unrecorded`, `unmarked` and
`leftOut` are history.

Abstractions: the cursor of candidates is left out, as `show_candidate` takes the
candidate at the position now; a link that was opted out is not registered again; an
opt-out whose answer is lost counts as one that failed.

### StartupOnboarding

`call[c]` is how far a POST is; its startup has the same name. All companies have
one name, so all compete for the addresses `0 .. MaxAttempts - 1`. `CheckSlug` is
`reserveUniqueSlug`, one probe a step; `PatchAgentEmail` takes the address, under
the unique constraint; `InsertLink` is what mail resolves by. Each call may be
refused, or take effect and have its answer lost, which ends the handler.

## Runs

| Run | Instance | Distinct states | Shows |
|---|---|---|---|
| `pairing` | 1 student, 2 URLs, 2 codes, 2 phones, 2 workers | 237,277 | types; locks are owned by the one request that uses them; a bound phone claimed a code of its student; `Pairing` implements `PhoneBinding`; every request ends, deadlocks included |
| `pairing_identity` | 1 phone | violation | `CodeTiedToIdentity`: a code can bind a phone to an identity it was not issued for |
| `student_texts` | a START text and another, ordinary or code-like, 2 deliveries each, 2 tasks, sends tried or not | 426,907 | `StudentTexts` implements `TextReplies`: one verdict and one answer a text, blocked texts are never answered; nor are they drafted; where sends are tried a draft marked sent was sent, and welcome texts are in order; stuck rows have a cause; a delivered text is handled unless it looks like an older code |
| `student_texts_retry` | the START text alone, one delivery at a time | violation | `ClaimingTextIsNotExpired`: a delivery claims the code and breaks off; delivered again, the text is filed as an expired pairing and not answered |
| `inbound_mail` | a conversation mail, an employers mail, 2 milliseconds | 176,450 | the timer means silence; a finished mail is kept or falls under a named exception; handoffs end |
| `inbound_mail_loss` | and a mail to neither | violation | `FailurePathsKeepTheMail`: an unreadable body or a colliding key loses the mail |
| `parrot_todos` | 2 mails, 1 reply handler, 2 cron runs, LIMIT 1 | 175,448 | the agent clears only what was acknowledged and is past its grace; `ParrotTodos` implements `TodoCards`: what the employee resolved is final, what is due stays due; a todo outlives its mail for two reasons only; a due todo is cleared while no more are due than the LIMIT |
| `parrot_todos_undo` | 1 mail, 1 run | violation | `UndoneTodoIsNotDue`: undo never reaches the graph node |
| `graph_memory` | 2 turns of up to 3 facts, a single-valued predicate with 2 values and a multi-valued one | 408,648 | only a disturbance leaves two values; an undisturbed turn is remembered as said; closed facts stay closed and multi-valued ones active |
| `graph_memory_crash` | 2 turns of 1 fact, no failing query | violation | `AValueSurvives`: a restart between the two queries leaves no value |
| `workspace` | eight parts, one at a time; see below | 322,987 | sixteen properties of the eight parts, by part below |
| `founder_texts_monday` | 1 link, 1 STOP and 1 YES at once, a limit that does not bite | violation | `TextedEveryMonday`: the run a week after a text leaves its founder out |

`workspace` is a sum: `part` is chosen at the start, that part runs and the others
stay as they begin, so the states add up instead of multiplying. The parts share
no state in the code. What it shows of each:

| Part | Instance | Properties |
|---|---|---|
| `folders` | 1 mail, 2 tabs, the sweep | `DestroyedWithCause`, `ExpiredSpamIsPurged` |
| `sending` | 3 sends, 2 at once, limits of 1 an hour and 2 a day, 4 ticks over a change of day | `OverrunIsBounded` |
| `mentions` | 2 mentions in 2 channels | `OnlyFailedFetchesSkip`, `MailsAreNews`, `AwayMentionsAreMailed` |
| `chat` | 2 rooms, a post of each side | `RowsBelong` |
| `founders` | 2 links of 1 phone, a limit of 1, 1 STOP and 1 YES at once, a week of 2 ticks, a cron up to 1 late | `StopIsRespected`, `TextsAreAWeekApart`, `OnlyTheLimitSkipsTwice` |
| `bridge` | 4 timers, 2 sends | `BubbleHasItsTime`, `KeepsListening` |
| `access` | 2 invites, 2 operators, 1 sign-in, lives of 1 | `UsersAreListed`, `AccessEnds` |
| `onboarding` | 3 registrations, two of one founder, 2 addresses | `WelcomedMeansReachable` |

`WorkspaceTypeOK` is the conjunction of their type invariants.

The six violations are disagreements between what the repository says and what
the code does. `PROJECT.json` quotes both under "findings".

**Bounds, and why they suffice.** Two of everything that competes: two requests
on one student for every pair of handlers; two codes and two URLs for a change
of identity with a code outstanding; two phones so that one could replace the
other. Two texts exercise the dedup key and both paths into the workflow; two
deliveries of each, two at a time, give every overlap of a delivery with its
retry; the retry that is filed as expired needs no overlap and is looked for with one
task. One mail of each kind and two milliseconds give both a collision and its
absence; each stage has two steps of time and the handoff one more than all of
them, the tightest budget there is. In ParrotTodos a LIMIT of one against two
mails makes the limit bite, and two runs overlap with stale batches.
In GraphMemory two turns overlap,
and failing queries leave the second one every mess a third could leave; three
facts are what it takes to give a value up and take it up again (the code allows
five). In the sum run: a mail is destroyed by one of two tabs or the sweep, and
mails do not touch each other; three sends are two at once and one more, an hour
later or on the next day, which reach the bound of the hour (that of the day is
reached from four sends on; the module by itself was checked with four, and
`TheOverrunIsBounded` proves both bounds for any number); two mentions let one be skipped and one found, one be
mailed and one follow; one post of each side in two rooms gives every order of
echo, fetch and answer, and the chat stops where a mutation was overtaken, as
nothing is claimed from there on; four timers are one more than two sends and an
entry can hold; two links of one phone against a limit of one make the limit bite and
STOP reach one link of two; three registrations are a double submission and a competitor, and
two addresses let the second be taken and the addresses run out. Larger
instances of the parts were checked by themselves, with the same result: 2 mails
with 2 tabs, 2 sign-ins with 2 operators, 2 messages of each side,
3 mentions; and the theorems hold for any. `MaxDeliveries`, `MaxClock`, `MaxAcks`, `MaxAtOnce`, `LastTick`, `MaxDelay`, `Timers`,
`Answers` and `Tickets` are the bounds without a counterpart in the code. All runs but `pairing` and `pairing_identity` switch
deadlock checking off, as these systems may run out of mails, texts, sends and
registrations.

**Fairness.** *Pairing*: strong fairness of each worker's steps, because
Postgres queues those that wait for a row, and weak fairness of the deadlock
detector (`deadlock_timeout`). *StudentTexts*: weak fairness of a task's steps:
the event loop runs it unless it is interrupted, and the property exempts
interrupted texts. *InboundMail*: clocks only: time passes, the handoff timer
fires, and a stage of the startup Worker ends or hangs; no answer is owed by
anyone. *ParrotTodos*: the cron fires for ever, and neither the graph proxy nor
the durable object is down for good, so a query, and a resolution of a given
mail, succeed if they are possible again and again. *GraphMemory*: none,
since nothing there is promised in the end. *MailFolders*: the cron fires and days
pass; the purge of a mailbox is strongly fair, since it is tried every day and the
directory and the object are not down for good. *OfflineMentions*: the alarm sets
itself again in a `finally`, so it starts for ever and what it started goes on; a
mail that is due again and again is accepted at some point, and the object is not
restarted in the middle of an alarm for ever. *TextBridge*: what is scheduled
happens, BlueBubbles, dialled again and again, answers, and the process is not
restarted for ever. The other parts of the sum promise safety only. Arrivals, failures, crashes and users
have no fairness anywhere.

## Proofs

Every theorem is of the form *the specification has the property*, for all
values of the constants that satisfy the named assumptions, by an inductive
invariant: `Init => Inv`, `Inv /\ [Next]_vars => Inv'`, `Inv => property`.

`PairingProofs`. `Inv` is `TypeOK`, `RowsNameTheirStudent` (an issued code and a
busy request name a student), `LocksAreOwned` and `BoundPhoneClaimedACode`.
Locks have to be in it: only since the claim holds the code's lock from the read
to the commit is the code it read still open when it binds. On it rest
`TypesAreCorrect`, `LocksAreAlwaysOwned`, `BoundPhonesClaimedCodes` and
`PairingImplementsPhoneBinding`: every step of a request is a step of
`PhoneBinding` or a stutter, and only `ClaimBind` redeems.
`EveryLooseCodeIsExplained` says how far the finding of `pairing_identity` goes. A
claim binds the wrong identity just when its code is loose (open, for a URL the
student no longer has), and a code comes loose only where a request writes after
what it read was overtaken, or replaces a URL and has yet to expire the codes; that
expiry leaves none loose, so a claim must outrun it or its request fail. It needs
`IssuedForAUrl` beside `Inv`: no code is issued for a student without a URL.
Assumption: `None` is none of the values.

`InboundMailProofs`. `Inv` is `TypeOK`, `ClocksWithinLimits` (what a handoff has
spent in each stage is at most its limit, unless the Worker hangs),
`ServersInStep` (where a server may be, given where its client is) and
`FinishedIsAccountedFor`. From the limits and the assumption `LatencyBudget`
(`ResolveTimeout + InsertTimeout + Overhead < HandoffTimeout`) follows
`TimerNeverCutsOffAnAnswer`; from the rest, `EveryMailIsAccountedFor`. That the
accounts stay true is `WhatIsKeptStays`, an action property: no row changes hands and
no record is taken back; for conversations it needs that a mail gets its timestamp
once, after its body was read (`ConversationWay`). The budget
is assumed strictly, as the deployed values satisfy it;
`scripts/check-email-timeout-invariant.mjs` accepts equality, at which the timer
and the answer race.

`ParrotTodosProofs`. `Inv` adds four facts to the types and the two invariants
checked: nothing is extracted before its mail is here; only an acknowledgement
in Sent closes a node, or is about to; a handler past storing one has it counted;
a batch holds settled nodes only. The last needs that nodes are never reopened,
and that follows from the very defect `parrot_todos_undo` shows: the id undo
looks for is no node's. If undo is repaired, `AgentIsHonest` has to be looked at
again, since a stale batch may then clear a todo whose node was reopened.
`EmployeeHasTheLastWord` is an action property and follows from `RowWrites`,
which lists every write of a row. `TodosImplementTodoCards` sums up what the
dashboard promises: a row is a card, a node past its grace is due, a counted reply
an acknowledgement, and each step changes one of the three at most
(`OneRowAtATime`, `OneAckAtATime`, `FallingDue`). `TodoCards` lets nothing take a
todo off the due list, which is `parrot_todos_undo` stated for every instance. Assumption: bounds are natural numbers.

`GraphMemoryProofs`. `Inv` is `TypeOK`, `OverlapIsRough` (of two turns at work
both are disturbed), `WayIsClear` (between the two queries of an undisturbed turn
no active fact contradicts it), `OpenOrClosed` and `OneValueUnlessRough`. The
second and third are the whole argument: step 1 clears the way, and who could
block it again before step 2 would be at work as well. `GraphWrites` lists what a
step may do to the graph, and `ThePastIsKept` follows from it.
`AnUndisturbedTurnIsRemembered` needs a second invariant, `MemoryInv`: what an
undisturbed turn has recorded so far is what it said up to its position, and of a
single-valued predicate nothing but the last value said is active. It cannot do
without the first: that no one else writes in between is `OverlapIsRough`. Assumptions: the
predicates and values fit together, and `MaxFacts` is a natural number.

`TextProofs`. `TextsInv`: from its row in the inbox on a text is owned by at most
one task, since the row is inserted once; `OwnerInv` says what the owner has left
to do at each point, and `RecordsAgree` what drafts, verdict and phone say of each
other. The four safety properties of the pipeline are read off it
(`EveryTextIsRepliedAtMostOnce` is one, though its property now comes with the
refinement). `TextsImplementTextReplies` needs one thing more of the owner, that
nothing but a START text is on the way to the welcome, and goes step by step:
`Screen` is `Judge`, a `Send` that arrives is `Answer`, the rest stutters.
`EveryMisfiledTextIsExplained` says how far the finding of `student_texts_retry`
goes: the text that claimed the code is filed as an expired pairing only if it was
delivered a second time, and ends without an answer only if a delivery broke off.
Its invariant `ClaimInv` counts: two tasks on one text, or a task that claims for a
text which has the code already, are two deliveries of it; and from the claim to the
row in the inbox a task is going on with the text, or was interrupted.

`MailboxProofs`. `MailInv` adds `DoomedIsInTrash`: a mail that a request will
destroy is in Trash or was taken out under it, which is what the action property
`DestroyedWithCause` needs of the state before. `SendInv`: what was sent within the
hour is counted, whatever else the comparison counts (`WhatWasSentIsCounted`), so
who passes the check finds room for itself and those at work with it; the proof
counts both sets together, for the hour and the day alike (`StaysWithin`). `MentionInv` adds `PollCovers` (what the poll is done
with was noticed, or its fetch failed) and `CountIsOfTheLastMail`: a count says
enough as long as it belongs to the last mail.

`StaffProofs`. `AccessInv` has `UsersAreListed` itself, which is inductive once a
removal is known to name a user, and bounds the time since the disabling by the age of a
ticket's code, then by the life of the code and the age of the token. `ChatInv`
says of everything that can still get into a list, answers, events and the post a
message became, that it belongs there.

`WorkspaceProofs`. `FounderInv` follows the age of marks through the week
(`MarksOfTheWeek`): the mark of a link that the last run left out is more than seven
days old when the next one asks, however late each cron was, so only a full batch of
marks as old can leave it out again. `OptOutsAreKnown` says of each link of a phone
that was told of an opt-out what came of it: recorded, or known not to be.
`OnboardInv`: addresses are unique because the column is, links are of addresses,
and a welcome comes after its link. `BridgeInv`: a bubble that is on has an armed
timer unless a restart left it on (`BubbleHasATimer`), and every other armed timer is
one whose entry was taken away (`OneTimer`).
Then the composition: `EveryPartSteps` shows that a step of the workspace is a
step or a stutter of each of the eight parts, so every behaviour of it is one of
each part (`WorkspaceImplementsItsParts`), and the conjunction of the eight
inductive invariants is inductive for it (`WorkspaceInvIsInvariant`).
`WorkspaceTypesAreCorrect` and `WorkspaceKeepsItsPromises`, all twelve safety
properties that the run checks, follow. The theorems about a part assume no
fairness, `MailInit /\ [][MailNext]_mailVars => ...`: none of its safety rests on
what a cron or a timer owes.

Assumptions: constants are natural numbers or finite sets where the code has them
so, the cron is less than a week late, and the `No...` values are none of the rest.

Each finding has a theorem that bounds it: `pairing_identity` has
`EveryLooseCodeIsExplained`, `student_texts_retry` `EveryMisfiledTextIsExplained`,
`inbound_mail_loss` `EveryMailIsAccountedFor`, `parrot_todos_undo`
`TodosImplementTodoCards`, `graph_memory_crash` `AnUndisturbedTurnIsRemembered`, and
`founder_texts_monday` `OnlyTheLimitSkipsAnybodyTwice`.

What stays with TLC: the liveness properties (`RequestsFinish`,
`DeliveredIsHandled`, `HandoffsEnd`, `DueTodosAreCleared`, `ExpiredSpamIsPurged`,
`AwayMentionsAreMailed`, `KeepsListening`), since the prover has no rule for fairness
and ENABLED, and the six violations. Every other property of a run is a theorem.
`RepliedAtMostOnce` and `UserResolutionIsFinal` are theorems but no longer
properties of a run, as the two refinements contain them. No model uses recursive operators.

## What the models say that a reader of the code may not expect

These are no violations of anything the repository states, and have no run; each
is visible in a definition or in an exception a property names.

- `StudentTexts`: without a bridge, or in a dry run, a draft is marked sent
  although nothing goes out (`outbound.mjs:56-70`). A text with a word of eight hex
  digits, or `IJ-` and six characters, is taken for a code of an older kind; none
  is valid, so it is neither recorded nor replied to, whoever sends it
  (`server.mjs:1008`, `sms/mac-bridge.mjs:120`).
- `OutgoingMail`: the count is of mails in Sent, so moving sent mail away frees the
  limit, and a comparison of two formats counts the whole day of the cutoff
  (`durableObject/index.ts:663`).
- `MailFolders`: `deleteEmail` does not look at the folder again (`crossed`), so a
  mail taken out of Trash at that moment is destroyed. `DestroyedWithCause` lets this
  pass and asks that nothing else destroys a mail.
- `OfflineMentions`: the watermark advances over a fetch that failed
  (`durableObject/index.ts:1358`); a mention cleared before the next poll comes back.
- `StaffAccess`: no row, or a lookup that fails, lets the claims of the session
  decide; the second of two invites for a name, or a call to the durable object that
  fails, leaves a user at Clerk without a row.
- `ChatPane`: callbacks act on the room that is open by then (`overtaken`), and
  `RowsBelong` says nothing from there on; nothing is fetched
  again after the socket reconnects, and a room opened within `staleTime` of a change
  does not show what the socket missed.
- `TextBridge`: a restart leaves the bubble on, and nothing takes it down but the
  timer of the next text or the next send; a send that waited leaves the timer of a
  text that came meanwhile without its entry (`stray`), and that timer takes down the
  bubble of a later one; the frame `41` is ignored, which leaves a socket that is open and
  deaf; a failed import of `ws` on a reconnect ends the attempts.
- `FounderTexts`: a STOP opts out one link of the phone, so a founder of two
  startups is told of the opt-out and texted on for the other
  (`telnyx.ts:161-193`). A run takes a hundred links, so with more subscribers
  some wait longer (`index.mjs:1289`). A STOP is confirmed whether or not it was
  recorded, and a founder is marked as texted whether or not the text went out. After a recorded STOP the
  link is no longer found, so the invitation to text START or YES
  (`telnyx.ts:210`, `:365`) leads nowhere.
- `StartupOnboarding`: the founder's address is taken by the first attempt that
  inserts a row, so an attempt that failed later cannot be repeated (409).

## Plan

Done, in the order of what matters most to users: pairing (a wrong phone gets
someone else's conversation), the text pipeline, inbound mail, todos, the agent's
memory; then the mailbox (folders, sending, mentions), staff and their chat, the
bridge, founders' texts and registrations, each with its theorems.

Next:

1. `StudentTexts` with two ordinary texts in one first contact, and two phones of
   one student, the two hazards of the pipeline without a property.
2. The personal room of an employee (`ensurePersonalRoom`,
   `durableObject/index.ts:1885`): a second concurrent call, or a lost answer, leaves
   the room unavailable for good. To be stated against what the code promises of it.
3. An abstract mailbox (a mail is here, in Trash, or gone) that `MailFolders` and
   `ParrotTodos` both implement, so that deletion in the one is deletion in the other.

## Not modelled

The map covers about a tenth of the implementation's lines, and this is why. Over
a third of them are user interface without a protocol: the pages of the marketing
and employers sites, Parrot's screens other than the chat's list of posts, and the
screens of `agentic-inbox`, a vendored application that Parrot was forked from.
The rest is mainly listings, searches and exports (a query and its rendering),
prompts and tool descriptions, wrappers around a remote API that keep nothing,
tests, one-off scripts, environment parsing and schema types. A model of these could say only
what their one statement says. Of the code that keeps state across requests, the
parts in the inventory are what the models cover.

- *Student app: pages, authentication, configuration; operator routes; object
  storage; Spectrum listener*: no state beyond a request, or a channel that is
  switched off.
- *Mac bridge*: the forward to the app (one fetch, no retry, nothing remembered), the
  reactions.
- *Startup Worker*: voice turns, the classifier, MCP tools, all of which forward.
- *Parrot*: chat todos, drafts, search, push delivery, flags, routing rules, the
  signing of tokens, sidebar and threads; the agent's `toolSendReply` and
  `toolSendEmail`, which nothing mounts.
- *startup-api, graph-api*: their other routes are single statements behind a
  bearer token.
- *Hazards without a property*: `PROJECT.json` gives the reason with each.

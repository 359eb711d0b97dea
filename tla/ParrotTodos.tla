----------------------------- MODULE ParrotTodos -----------------------------
(***************************************************************************)
(* The todos that Parrot extracts from one employee's mail (apps/parrot:   *)
(* workers/durableObject/index.ts, lib/graph.ts, lib/auto-clear.ts,        *)
(* index.ts and routes/reply-forward.ts; infra/graph-api).                 *)
(*                                                                         *)
(* A todo lives twice: as a row in the SQLite of the employee's durable    *)
(* object, which the dashboard shows, and as a :Todo node in the graph     *)
(* behind graph-api.  Extraction writes the row and then the node; a reply *)
(* with an acknowledgement phrase closes both, separately and best-effort; *)
(* a cron resolves the rows whose node has been closed for five minutes;   *)
(* undo takes such a resolution back.                                      *)
(*                                                                         *)
(* The durable object runs one method at a time: each is one step here.    *)
(* Calls to the graph land later, in any order, or never.                  *)
(***************************************************************************)
EXTENDS Naturals, FiniteSets

CONSTANTS Mails,       \* ids of mails: the source_id of their todos
          Replies,     \* POST /messages/:id/reply handlers that run at once
          CronRuns,    \* runAutoClear runs that overlap
          Limit,       \* LIMIT of FIND_CLOSED_TODOS_CYPHER (100)
          MaxAcks,     \* bound: acknowledging replies per mail
          None

ASSUME MailsAssumption == IsFiniteSet(Mails) /\ None \notin Mails
ASSUME LimitAssumption == Limit \in Nat \ {0}
ASSUME MaxAcksAssumption == MaxAcks \in Nat

VARIABLES mail,       \* emails: not here yet, here, deleted
          extraction, \* extractTodosFromEmail of each mail
          row,        \* todos: the row of each mail, by who resolved it
          node,       \* :Todo: valid_to is null, set, or set for 5 minutes
          recording,  \* recordTodoFact calls under way, by mail
          closing,    \* closeTodoFact calls under way, by mail
          reopening,  \* undo's queries under way, by the id they match
          reply,      \* what each reply handler is doing
          batch,      \* closedTodos left to each runAutoClear
          acks,       \* acknowledging replies in the Sent folder
          undone      \* history: acks[m] when the todo was last put back

vars == <<mail, extraction, row, node, recording, closing, reopening, reply,
          batch, acks, undone>>

(* The ids of the two halves of a todo: crypto.randomUUID() in insertTodos and
   todoHash(employeeId, sourceId) in recordTodoFact. *)
RowId(m)  == <<"randomUUID", m>>
NodeId(m) == <<"sha256", m>>

Busy == [pc : {"read", "stored", "resolve"}, mail : Mails, ack : BOOLEAN]
Idle == [pc |-> "idle", mail |-> None, ack |-> FALSE]

Init == /\ mail = [m \in Mails |-> "absent"]
        /\ extraction = [m \in Mails |-> "none"]
        /\ row = [m \in Mails |-> "none"]
        /\ node = [m \in Mails |-> "none"]
        /\ recording = {}
        /\ closing = {}
        /\ reopening = {}
        /\ reply = [r \in Replies |-> Idle]
        /\ batch = [k \in CronRuns |-> {}]
        /\ acks = [m \in Mails |-> 0]
        /\ undone = [m \in Mails |-> 0]

-----------------------------------------------------------------------------
(* createEmail: mail that arrives in the Inbox is extracted from, mail that is
   quarantined, or arrives before there is a profile, is not. *)
Arrive(m) ==
    /\ mail[m] = "absent"
    /\ mail' = [mail EXCEPT ![m] = "here"]
    /\ \E e \in {"running", "over"} : extraction' = [extraction EXCEPT ![m] = e]
    /\ UNCHANGED <<row, node, recording, closing, reopening, reply, batch, acks, undone>>

(* getEmployeeContext or the model call fails, or finds nothing to do. *)
ExtractNothing(m) ==
    /\ extraction[m] = "running"
    /\ extraction' = [extraction EXCEPT ![m] = "over"]
    /\ UNCHANGED <<mail, row, node, recording, closing, reopening, reply, batch, acks, undone>>

(* insertTodos, INSERT OR IGNORE, and void recordTodoFact.  The mail may have
   been deleted since the extraction began. *)
ExtractTodo(m) ==
    /\ extraction[m] = "running"
    /\ extraction' = [extraction EXCEPT ![m] = IF mail[m] = "gone" THEN "late" ELSE "over"]
    /\ row' = [row EXCEPT ![m] = IF @ = "none" THEN "active" ELSE @]
    /\ recording' = recording \union {m}
    /\ UNCHANGED <<mail, node, closing, reopening, reply, batch, acks, undone>>

(* UPDATE todos SET resolved_at WHERE source_id = ? AND resolved_at IS NULL:
   resolution_source stays NULL, which stands for the employee. *)
ResolvedByEmployee(m) ==
    [row EXCEPT ![m] = IF @ = "active" THEN "user" ELSE @]

(* Mutant: the mail goes, its todo stays. *)
DeleteKeepsTodo(m) ==
    /\ mail[m] = "here"
    /\ mail' = [mail EXCEPT ![m] = "gone"]
    /\ UNCHANGED <<extraction, row, node, recording, closing, reopening, reply, batch, acks, undone>>

(* deleteEmail, for a mail in the trash or spam that has expired:
   cleanupTodosForEmail and then the row of emails. *)
Delete(m) ==
    /\ mail[m] = "here"
    /\ row' = ResolvedByEmployee(m)
    /\ mail' = [mail EXCEPT ![m] = "gone"]
    /\ UNCHANGED <<extraction, node, recording, closing, reopening, reply, batch, acks, undone>>

-----------------------------------------------------------------------------
(* handleReplyEmail.  ack: the text matches ACK_PATTERN. *)
Move(r, pc) == reply' = [reply EXCEPT ![r].pc = pc]

ReplyStart(r) ==
    /\ reply[r].pc = "idle"
    /\ \E m \in Mails, ack \in BOOLEAN :
          /\ mail[m] = "here"
          /\ reply' = [reply EXCEPT ![r] = [pc |-> "read", mail |-> m, ack |-> ack]]
    /\ UNCHANGED <<mail, extraction, row, node, recording, closing, reopening, batch, acks, undone>>

(* createEmail(Folders.SENT, ...). *)
ReplyStore(r) ==
    LET m == reply[r].mail IN
    /\ reply[r].pc = "read"
    /\ IF reply[r].ack
         THEN acks[m] < MaxAcks /\ acks' = [acks EXCEPT ![m] = @ + 1]
         ELSE UNCHANGED acks
    /\ Move(r, "stored")
    /\ UNCHANGED <<mail, extraction, row, node, recording, closing, reopening, batch, undone>>

(* markThreadRead, and closeTodoFact in waitUntil for an acknowledgement. *)
ReplyCloseNode(r) ==
    /\ reply[r].pc = "stored"
    /\ closing' = IF reply[r].ack THEN closing \union {reply[r].mail} ELSE closing
    /\ Move(r, "resolve")
    /\ UNCHANGED <<mail, extraction, row, node, recording, reopening, batch, acks, undone>>

(* resolveTodosForEmail, on the DO. *)
ReplyResolve(r) ==
    /\ reply[r].pc = "resolve"
    /\ row' = ResolvedByEmployee(reply[r].mail)
    /\ reply' = [reply EXCEPT ![r] = Idle]
    /\ UNCHANGED <<mail, extraction, node, recording, closing, reopening, batch, acks, undone>>

(* An await throws: a 4xx or 5xx before the node is closed; after it, the call
   of resolveTodosForEmail fails, which is logged. *)
ReplyFails(r) ==
    /\ reply[r].pc # "idle"
    /\ reply' = [reply EXCEPT ![r] = Idle]
    /\ UNCHANGED <<mail, extraction, row, node, recording, closing, reopening, batch, acks, undone>>

-----------------------------------------------------------------------------
(* POST /api/dashboard/todos/:id/unresolve: unresolveTodo on the DO, then the
   query that sets valid_to = null, whatever the first step reported. *)
UnresolveTodo(m) ==
    IF row[m] = "agent"
      THEN /\ row' = [row EXCEPT ![m] = "active"]
           /\ undone' = [undone EXCEPT ![m] = acks[m]]
      ELSE UNCHANGED <<row, undone>>

(* ResolvedTodoCard has the button for what the agent cleared; a stale screen
   may still show it for a todo that has been put back since. *)
UndoIsShown(m) == row[m] = "agent" \/ undone[m] > 0

(* Mutant: the id of the mail is taken for the id of the todo. *)
UndoBySource(m) ==
    /\ UndoIsShown(m)
    /\ UnresolveTodo(m)
    /\ reopening' = reopening \union {m}
    /\ UNCHANGED <<mail, extraction, node, recording, closing, reply, batch, acks>>

Undo(m) ==
    /\ UndoIsShown(m)
    /\ UnresolveTodo(m)
    /\ reopening' = reopening \union {RowId(m)}
    /\ UNCHANGED <<mail, extraction, node, recording, closing, reply, batch, acks>>

-----------------------------------------------------------------------------
(* graph-api.  A call that is lost, which no caller notices, is one that stays
   under way for ever. *)
(* MERGE (t:Todo {id}) ON CREATE SET ... valid_to = null. *)
RecordLands(m) ==
    /\ m \in recording
    /\ recording' = recording \ {m}
    /\ node' = [node EXCEPT ![m] = IF @ = "none" THEN "open" ELSE @]
    /\ UNCHANGED <<mail, extraction, row, closing, reopening, reply, batch, acks, undone>>

(* POST /close-todo: SET valid_to where source_id matches and it is null. *)
CloseLands(m) ==
    /\ m \in closing
    /\ closing' = closing \ {m}
    /\ node' = [node EXCEPT ![m] = IF @ = "open" THEN "closed" ELSE @]
    /\ UNCHANGED <<mail, extraction, row, recording, reopening, reply, batch, acks, undone>>

(* MATCH (t:Todo {id: $tid}) SET t.valid_to = null. *)
ReopenLands(tid) ==
    /\ tid \in reopening
    /\ reopening' = reopening \ {tid}
    /\ node' = [m \in Mails |->
                  IF NodeId(m) = tid /\ node[m] # "none" THEN "open" ELSE node[m]]
    /\ UNCHANGED <<mail, extraction, row, recording, closing, reply, batch, acks, undone>>

(* valid_to < timestamp() - 300000 from now on. *)
GraceEnds(m) ==
    /\ node[m] = "closed"
    /\ node' = [node EXCEPT ![m] = "settled"]
    /\ UNCHANGED <<mail, extraction, row, recording, closing, reopening, reply, batch, acks, undone>>

-----------------------------------------------------------------------------
(* runAutoClear, every five minutes. *)
(* Mutant: no minimum open window. *)
DueAtOnce == {m \in Mails : node[m] \in {"closed", "settled"}}

Due == {m \in Mails : node[m] = "settled"}

(* Mutant: one node fewer than the LIMIT. *)
MatchedBelowLimit == {b \in SUBSET Due : \/ Cardinality(b) = Limit - 1
                                         \/ Cardinality(b) < Limit - 1 /\ b = Due}

(* FIND_CLOSED_TODOS_CYPHER: LIMIT, no ORDER BY, and nothing that leaves out
   the todos earlier runs have resolved. *)
Matched == {b \in SUBSET Due : \/ Cardinality(b) = Limit
                               \/ Cardinality(b) < Limit /\ b = Due}

(* If the query fails the run ends: no step. *)
CronQuery(k) ==
    /\ batch[k] = {}
    /\ Due # {}
    /\ \E b \in Matched : batch' = [batch EXCEPT ![k] = b]
    /\ UNCHANGED <<mail, extraction, row, node, recording, closing, reopening, reply, acks, undone>>

(* Mutant: WHERE source_id = ? alone. *)
ResolveAnyTodo(m) == row' = [row EXCEPT ![m] = IF @ = "none" THEN @ ELSE "agent"]

(* resolveTodo: WHERE source_id = ? AND resolved_at IS NULL. *)
ResolveTodo(m) == row' = [row EXCEPT ![m] = IF @ = "active" THEN "agent" ELSE @]

CronResolves(k, m) ==
    /\ m \in batch[k]
    /\ ResolveTodo(m)
    /\ batch' = [batch EXCEPT ![k] = @ \ {m}]
    /\ UNCHANGED <<mail, extraction, node, recording, closing, reopening, reply, acks, undone>>

(* The call to the DO throws: logged, and the loop goes on. *)
CronSkips(k, m) ==
    /\ m \in batch[k]
    /\ batch' = [batch EXCEPT ![k] = @ \ {m}]
    /\ UNCHANGED <<mail, extraction, row, node, recording, closing, reopening, reply, acks, undone>>

-----------------------------------------------------------------------------
Mailbox(m) == Arrive(m) \/ ExtractNothing(m) \/ ExtractTodo(m) \/ Delete(m) \/ Undo(m)

Reply(r) == \/ ReplyStart(r) \/ ReplyStore(r) \/ ReplyCloseNode(r)
            \/ ReplyResolve(r) \/ ReplyFails(r)

Graph(m) == RecordLands(m) \/ CloseLands(m) \/ GraceEnds(m)

Cron(k) == CronQuery(k) \/ \E m \in Mails : CronResolves(k, m) \/ CronSkips(k, m)

Next ==
    \/ \E m \in Mails : Mailbox(m) \/ Graph(m)
    \/ \E r \in Replies : Reply(r)
    \/ \E tid \in reopening : ReopenLands(tid)
    \/ \E k \in CronRuns : Cron(k)

Spec == Init /\ [][Next]_vars

(* The cron trigger fires for ever, and neither the graph proxy nor the
   employee's DO stays down for good: a query gets through again and again, and
   so does the resolution of a mail that keeps turning up. *)
FairSpec ==
    /\ Spec
    /\ SF_vars(\E k \in CronRuns : CronQuery(k))
    /\ \A m \in Mails : SF_vars(\E k \in CronRuns : CronResolves(k, m))

-----------------------------------------------------------------------------
(* Every state field keeps its type. *)
TypeOK ==
    /\ mail \in [Mails -> {"absent", "here", "gone"}]
    /\ extraction \in [Mails -> {"none", "running", "over", "late"}]
    /\ row \in [Mails -> {"none", "active", "user", "agent"}]
    /\ node \in [Mails -> {"none", "open", "closed", "settled"}]
    /\ recording \subseteq Mails
    /\ closing \subseteq Mails
    /\ reopening \subseteq {RowId(m) : m \in Mails}
    /\ reply \in [Replies -> Busy \union {Idle}]
    /\ batch \in [CronRuns -> SUBSET Mails]
    /\ acks \in [Mails -> 0..MaxAcks]
    /\ undone \in [Mails -> 0..MaxAcks]

(***************************************************************************)
(* The agent clears a todo off the dashboard only when the employee has    *)
(* answered its mail with an acknowledgement and the five minutes of grace *)
(* are over, whatever batches overlapping runs still hold (auto-clear.ts). *)
(***************************************************************************)
AgentClearsOnlyAcknowledged ==
    \A m \in Mails : row[m] = "agent" => node[m] = "settled" /\ acks[m] > 0

(***************************************************************************)
(* What the employee has dealt with stays dealt with: no cron run, no      *)
(* second extraction and no undo touches a todo that a reply or a deletion *)
(* has resolved (unresolveTodo refuses it).                                *)
(***************************************************************************)
UserResolutionIsFinal ==
    [][\A m \in Mails : row[m] = "user" => row'[m] = "user"]_vars

Dashboard == INSTANCE TodoCards WITH
                 card  <- row,
                 acked <- {m \in Mails : acks[m] > 0},
                 due   <- Due

(***************************************************************************)
(* All that is promised of a card, with any batch a cron run still holds,  *)
(* any call still under way and any reply half done: the rules above, and  *)
(* that the agent clears only what is due and has been acknowledged.  It   *)
(* also says that no undo takes a todo off the list of what is due.        *)
(***************************************************************************)
ImplementsTodoCards == Dashboard!Spec

(***************************************************************************)
(* A todo on the dashboard whose mail no longer exists was inserted by an  *)
(* extraction that outlived the mail, or put back by the employee: every   *)
(* other way leaves no dangling todo (deleteEmail).                        *)
(***************************************************************************)
OrphanTodosAreExplained ==
    \A m \in Mails :
        mail[m] = "gone" /\ row[m] = "active" => extraction[m] = "late" \/ undone[m] > 0

(***************************************************************************)
(* A todo whose node is due is cleared off the dashboard in the end, as    *)
(* long as no more nodes are due than one query returns.                   *)
(***************************************************************************)
DueTodosAreCleared ==
    \A m \in Mails :
        (m \in Due /\ row[m] = "active" /\ Cardinality(Due) <= Limit)
            ~> (row[m] # "active" \/ Cardinality(Due) > Limit)

(***************************************************************************)
(* What workers/index.ts:674-675 says of undo: it clears valid_to in the   *)
(* graph.  When its query has run, no later query of the cron may find the *)
(* todo again, unless the employee has acknowledged the mail once more.    *)
(***************************************************************************)
UndoneTodoIsNotDue ==
    \A m \in Mails :
        undone[m] > 0 /\ undone[m] = acks[m] /\ RowId(m) \notin reopening => m \notin Due
=============================================================================

-------------------------- MODULE ParrotTodosProofs --------------------------
(***************************************************************************)
(* The inductive invariant of ParrotTodos and what follows from it: the    *)
(* types, that the agent clears only what the employee acknowledged, and   *)
(* why a todo may outlive its mail; that what the employee resolved stays  *)
(* resolved; and that all of it implements TodoCards.  All for any number  *)
(* of mails, replies and cron runs.                                        *)
(***************************************************************************)
EXTENDS ParrotTodos, TLAPS

(* A node is closed, or about to be, only by an acknowledgement in Sent. *)
ClosedIsAcknowledged ==
    \A m \in Mails :
        m \in closing \/ node[m] \in {"closed", "settled"} => acks[m] > 0

(* A handler that is past storing an acknowledgement has it counted. *)
StoredIsCounted ==
    \A r \in Replies :
        reply[r].pc \in {"stored", "resolve"} /\ reply[r].ack => acks[reply[r].mail] > 0

(* A node a run still holds is settled: undo cannot reopen it meanwhile, since
   the id its query looks for is no node's. *)
BatchesAreSettled ==
    \A k \in CronRuns : \A m \in batch[k] : node[m] = "settled"

(* Nothing is extracted from a mail before it is here. *)
AbsentIsUntouched ==
    \A m \in Mails : mail[m] = "absent" => extraction[m] = "none"

Inv ==
    /\ TypeOK
    /\ AbsentIsUntouched
    /\ ClosedIsAcknowledged
    /\ StoredIsCounted
    /\ BatchesAreSettled
    /\ AgentClearsOnlyAcknowledged
    /\ OrphanTodosAreExplained

-----------------------------------------------------------------------------
(***************************************************************************)
(* Nothing has arrived, and nothing is under way, at the start.            *)
(***************************************************************************)
LEMMA InitEstablishesInv == Init => Inv
  BY MaxAcksAssumption
     DEF Init, Inv, TypeOK, AbsentIsUntouched, ClosedIsAcknowledged, StoredIsCounted,
         BatchesAreSettled, AgentClearsOnlyAcknowledged, OrphanTodosAreExplained, Idle

(***************************************************************************)
(* A handler that is not idle has a mail, and keeps it as it moves on.     *)
(***************************************************************************)
LEMMA BusyReply ==
  ASSUME TypeOK, NEW r \in Replies, reply[r].pc # "idle"
  PROVE  reply[r] \in Busy
  BY DEF TypeOK, Idle

LEMMA MoveKeepsBusy ==
  ASSUME TypeOK, NEW r \in Replies, reply[r].pc # "idle",
         NEW pc \in {"stored", "resolve"}, Move(r, pc)
  PROVE  reply' \in [Replies -> Busy \union {Idle}]
<1> DEFINE next == [reply[r] EXCEPT !.pc = pc]
<1>1. next \in Busy
  BY BusyReply DEF Busy
<1>2. reply' = [reply EXCEPT ![r] = next]
  BY DEF Move
<1> HIDE DEF next
<1>3. QED
  BY <1>1, <1>2 DEF TypeOK

(***************************************************************************)
(* The query of an undo looks for the random id of a row; node ids are     *)
(* hashes, so it changes no node.                                          *)
(***************************************************************************)
LEMMA ReopenTouchesNoNode ==
  ASSUME TypeOK, NEW tid \in reopening, ReopenLands(tid)
  PROVE  node' = node
<1>1. \A m \in Mails : NodeId(m) # tid
  BY DEF TypeOK, RowId, NodeId
<1>2. QED
  BY <1>1 DEF ReopenLands, TypeOK

(***************************************************************************)
(* A query returns nodes that are due.                                     *)
(***************************************************************************)
LEMMA MatchedAreDue ==
  ASSUME NEW b \in Matched
  PROVE  b \subseteq Mails /\ \A m \in b : node[m] = "settled"
  BY DEF Matched, Due

-----------------------------------------------------------------------------
(***************************************************************************)
(* Every method of the durable object, every landing call and every cron   *)
(* run keeps the types.                                                    *)
(***************************************************************************)
LEMMA StepKeepsTypes ==
  ASSUME Inv, [Next]_vars
  PROVE  TypeOK'
<1>0. TypeOK
  BY DEF Inv
<1>1. CASE UNCHANGED vars
  BY <1>0, <1>1 DEF vars, TypeOK
<1>2. ASSUME NEW m \in Mails, Mailbox(m)
      PROVE  TypeOK'
  <2>1. CASE Arrive(m)
    BY <1>0, <2>1 DEF Arrive, TypeOK
  <2>2. CASE ExtractNothing(m)
    BY <1>0, <2>2 DEF ExtractNothing, TypeOK
  <2>3. CASE ExtractTodo(m)
    BY <1>0, <2>3 DEF ExtractTodo, TypeOK
  <2>4. CASE Delete(m)
    BY <1>0, <2>4 DEF Delete, ResolvedByEmployee, TypeOK
  <2>5. CASE Undo(m)
    BY <1>0, <2>5 DEF Undo, UnresolveTodo, TypeOK
  <2>6. QED
    BY <1>2, <2>1, <2>2, <2>3, <2>4, <2>5 DEF Mailbox
<1>3. ASSUME NEW m \in Mails, Graph(m)
      PROVE  TypeOK'
  BY <1>0, <1>3 DEF Graph, RecordLands, CloseLands, GraceEnds, TypeOK
<1>4. ASSUME NEW r \in Replies, Reply(r)
      PROVE  TypeOK'
  <2>1. CASE ReplyStart(r)
    <3>1. PICK m \in Mails, ack \in BOOLEAN :
             reply' = [reply EXCEPT ![r] = [pc |-> "read", mail |-> m, ack |-> ack]]
      BY <2>1 DEF ReplyStart
    <3>2. [pc |-> "read", mail |-> m, ack |-> ack] \in Busy
      BY DEF Busy
    <3>3. QED
      BY <1>0, <2>1, <3>1, <3>2 DEF ReplyStart, TypeOK
  <2>2. CASE ReplyStore(r)
    <3>1. reply[r].mail \in Mails
      BY <1>0, <2>2, BusyReply DEF ReplyStore, Busy
    <3>2. reply' \in [Replies -> Busy \union {Idle}]
      BY <1>0, <2>2, MoveKeepsBusy DEF ReplyStore
    <3>3. acks' \in [Mails -> 0..MaxAcks]
      BY <1>0, <2>2, <3>1, MaxAcksAssumption DEF ReplyStore, TypeOK
    <3>4. QED
      BY <1>0, <2>2, <3>2, <3>3 DEF ReplyStore, TypeOK
  <2>3. CASE ReplyCloseNode(r)
    <3>1. reply[r].mail \in Mails
      BY <1>0, <2>3, BusyReply DEF ReplyCloseNode, Busy
    <3>2. reply' \in [Replies -> Busy \union {Idle}]
      BY <1>0, <2>3, MoveKeepsBusy DEF ReplyCloseNode
    <3>3. QED
      BY <1>0, <2>3, <3>1, <3>2 DEF ReplyCloseNode, TypeOK
  <2>4. CASE ReplyResolve(r)
    BY <1>0, <2>4 DEF ReplyResolve, ResolvedByEmployee, TypeOK
  <2>5. CASE ReplyFails(r)
    BY <1>0, <2>5 DEF ReplyFails, TypeOK
  <2>6. QED
    BY <1>4, <2>1, <2>2, <2>3, <2>4, <2>5 DEF Reply
<1>5. ASSUME NEW tid \in reopening, ReopenLands(tid)
      PROVE  TypeOK'
  BY <1>0, <1>5, ReopenTouchesNoNode DEF ReopenLands, TypeOK
<1>6. ASSUME NEW k \in CronRuns, Cron(k)
      PROVE  TypeOK'
  <2>1. CASE CronQuery(k)
    BY <1>0, <2>1, MatchedAreDue DEF CronQuery, TypeOK
  <2>2. ASSUME NEW m \in Mails, CronResolves(k, m) \/ CronSkips(k, m)
        PROVE  TypeOK'
    BY <1>0, <2>2 DEF CronResolves, CronSkips, ResolveTodo, TypeOK
  <2>3. QED
    BY <1>6, <2>1, <2>2 DEF Cron
<1>7. QED
  BY <1>1, <1>2, <1>3, <1>4, <1>5, <1>6 DEF Next

(***************************************************************************)
(* Acknowledgements are stored before the node is closed, and never taken  *)
(* back; only a call of a handler that stored one closes a node.           *)
(***************************************************************************)
LEMMA AcksNeverFall ==
  ASSUME Inv, [Next]_vars, NEW m \in Mails, acks[m] > 0
  PROVE  acks'[m] > 0
<1>0. TypeOK
  BY DEF Inv
<1>1. CASE \E r \in Replies : ReplyStore(r)
  <2>1. PICK r \in Replies : ReplyStore(r)
    BY <1>1
  <2>2. acks[m] \in Nat
    BY <1>0, MaxAcksAssumption DEF TypeOK
  <2>3. acks'[m] = acks[m] \/ acks'[m] = acks[m] + 1
    BY <1>0, <2>1 DEF ReplyStore, TypeOK
  <2>4. QED
    BY <2>2, <2>3
<1>2. CASE ~ \E r \in Replies : ReplyStore(r)
  <2>1. acks' = acks
    BY <1>2 DEF Next, vars, Mailbox, Arrive, ExtractNothing, ExtractTodo, Delete, Undo,
         Reply, ReplyStart, ReplyCloseNode, ReplyResolve, ReplyFails, Graph,
         RecordLands, CloseLands, GraceEnds, ReopenLands, Cron, CronQuery,
         CronResolves, CronSkips
  <2>2. QED
    BY <2>1
<1>3. QED
  BY <1>1, <1>2

LEMMA StepKeepsAbsentUntouched ==
  ASSUME Inv, [Next]_vars
  PROVE  AbsentIsUntouched'
<1> SUFFICES ASSUME NEW m \in Mails, mail'[m] = "absent"
             PROVE  extraction'[m] = "none"
  BY DEF AbsentIsUntouched
<1>0. TypeOK /\ AbsentIsUntouched
  BY DEF Inv
<1>1. mail[m] = "absent" /\ extraction'[m] = extraction[m]
  <2>1. CASE \E n \in Mails : Mailbox(n)
    BY <1>0, <2>1 DEF Mailbox, Arrive, ExtractNothing, ExtractTodo, Delete, Undo,
       AbsentIsUntouched, TypeOK
  <2>2. CASE ~ \E n \in Mails : Mailbox(n)
    BY <2>2 DEF Next, vars, Reply, ReplyStart, ReplyStore, ReplyCloseNode, ReplyResolve,
       ReplyFails, Graph, RecordLands, CloseLands, GraceEnds, ReopenLands, Cron,
       CronQuery, CronResolves, CronSkips
  <2>3. QED
    BY <2>1, <2>2
<1>2. QED
  BY <1>0, <1>1 DEF AbsentIsUntouched

LEMMA StepKeepsStoredCounted ==
  ASSUME Inv, [Next]_vars
  PROVE  StoredIsCounted'
<1> SUFFICES ASSUME NEW r \in Replies,
                    reply'[r].pc \in {"stored", "resolve"}, reply'[r].ack
             PROVE  acks'[reply'[r].mail] > 0
  BY DEF StoredIsCounted
<1>0. TypeOK /\ StoredIsCounted
  BY DEF Inv
<1>1. CASE reply'[r] = reply[r]
  <2>1. reply[r].mail \in Mails /\ acks[reply[r].mail] > 0
    BY <1>0, <1>1, BusyReply DEF StoredIsCounted, Busy
  <2>2. QED
    BY <1>1, <2>1, AcksNeverFall
<1>2. CASE ReplyStore(r)
  <2>1. reply[r] \in Busy
    BY <1>0, <1>2, BusyReply DEF ReplyStore
  <2>2. /\ reply'[r].mail = reply[r].mail
        /\ reply[r].mail \in Mails
        /\ reply[r].ack
    BY <1>0, <1>2, <2>1 DEF ReplyStore, Move, TypeOK, Busy
  <2>3. acks'[reply[r].mail] = acks[reply[r].mail] + 1
    BY <1>0, <1>2, <2>2 DEF ReplyStore, TypeOK
  <2>4. acks[reply[r].mail] \in Nat
    BY <1>0, <2>2, MaxAcksAssumption DEF TypeOK
  <2>5. QED
    BY <2>2, <2>3, <2>4
<1>3. CASE ReplyCloseNode(r)
  <2>1. reply[r] \in Busy
    BY <1>0, <1>3, BusyReply DEF ReplyCloseNode
  <2>2. /\ reply'[r].mail = reply[r].mail
        /\ reply[r].mail \in Mails
        /\ reply[r].ack
    BY <1>0, <1>3, <2>1 DEF ReplyCloseNode, Move, TypeOK, Busy
  <2>3. acks[reply[r].mail] > 0
    BY <1>0, <1>3, <2>2 DEF ReplyCloseNode, StoredIsCounted
  <2>4. QED
    BY <2>2, <2>3, AcksNeverFall
<1>4. CASE reply'[r] # reply[r] /\ ~ ReplyStore(r) /\ ~ ReplyCloseNode(r)
  <2>1. ReplyStart(r) \/ ReplyResolve(r) \/ ReplyFails(r)
    BY <1>0, <1>4 DEF Next, vars, Mailbox, Arrive, ExtractNothing, ExtractTodo, Delete, Undo,
         Reply, ReplyStart, ReplyStore, ReplyCloseNode, ReplyResolve, ReplyFails, Move, Graph,
         RecordLands, CloseLands, GraceEnds, ReopenLands, Cron, CronQuery,
         CronResolves, CronSkips, TypeOK
  <2>2. reply'[r].pc \in {"read", "idle"}
    BY <1>0, <2>1 DEF ReplyStart, ReplyResolve, ReplyFails, Idle, TypeOK
  <2>3. QED
    BY <2>2
<1>5. QED
  BY <1>1, <1>2, <1>3, <1>4

(***************************************************************************)
(* A node is closed by nothing but a landing call, and never reopened.     *)
(***************************************************************************)
LEMMA StepKeepsClosedAcknowledged ==
  ASSUME Inv, [Next]_vars
  PROVE  ClosedIsAcknowledged'
<1> SUFFICES ASSUME NEW m \in Mails,
                    m \in closing' \/ node'[m] \in {"closed", "settled"}
             PROVE  acks'[m] > 0
  BY DEF ClosedIsAcknowledged
<1>0. TypeOK /\ ClosedIsAcknowledged /\ StoredIsCounted
  BY DEF Inv
<1>1. CASE m \in closing \/ node[m] \in {"closed", "settled"}
  BY <1>0, <1>1, AcksNeverFall DEF ClosedIsAcknowledged
<1>2. CASE m \notin closing /\ node[m] \notin {"closed", "settled"}
  <2>1. PICK r \in Replies : ReplyCloseNode(r) /\ reply[r].ack /\ m = reply[r].mail
    <3>1. CASE \E tid \in reopening : ReopenLands(tid)
      BY <1>0, <1>2, <3>1, ReopenTouchesNoNode DEF ReopenLands
    <3>2. CASE ~ \E tid \in reopening : ReopenLands(tid)
      BY <1>0, <1>2, <3>2 DEF Next, vars, Mailbox, Arrive, ExtractNothing, ExtractTodo,
         Delete, Undo, Reply, ReplyStart, ReplyStore, ReplyCloseNode, ReplyResolve,
         ReplyFails, Graph, RecordLands, CloseLands, GraceEnds, Cron, CronQuery,
         CronResolves, CronSkips, TypeOK
    <3>3. QED
      BY <3>1, <3>2
  <2>2. acks[m] > 0
    BY <1>0, <2>1 DEF StoredIsCounted, ReplyCloseNode
  <2>3. QED
    BY <2>2, AcksNeverFall
<1>3. QED
  BY <1>1, <1>2

LEMMA SettledStays ==
  ASSUME Inv, [Next]_vars, NEW m \in Mails, node[m] = "settled"
  PROVE  node'[m] = "settled"
<1>0. TypeOK
  BY DEF Inv
<1>1. CASE \E tid \in reopening : ReopenLands(tid)
  BY <1>0, <1>1, ReopenTouchesNoNode
<1>2. CASE ~ \E tid \in reopening : ReopenLands(tid)
  BY <1>0, <1>2 DEF Next, vars, Mailbox, Arrive, ExtractNothing, ExtractTodo,
     Delete, Undo, Reply, ReplyStart, ReplyStore, ReplyCloseNode, ReplyResolve,
     ReplyFails, Graph, RecordLands, CloseLands, GraceEnds, Cron, CronQuery,
     CronResolves, CronSkips, TypeOK
<1>3. QED
  BY <1>1, <1>2

LEMMA StepKeepsBatchesSettled ==
  ASSUME Inv, [Next]_vars
  PROVE  BatchesAreSettled'
<1> SUFFICES ASSUME NEW k \in CronRuns, NEW m \in batch'[k]
             PROVE  node'[m] = "settled"
  BY DEF BatchesAreSettled
<1>0. TypeOK /\ BatchesAreSettled
  BY DEF Inv
<1>1. CASE m \in batch[k]
  <2>1. m \in Mails /\ node[m] = "settled"
    BY <1>0, <1>1 DEF BatchesAreSettled, TypeOK
  <2>2. QED
    BY <2>1, SettledStays
<1>2. CASE m \notin batch[k]
  <2>1. CronQuery(k)
    BY <1>0, <1>2 DEF Next, vars, Mailbox, Arrive, ExtractNothing, ExtractTodo,
       Delete, Undo, Reply, ReplyStart, ReplyStore, ReplyCloseNode, ReplyResolve,
       ReplyFails, Graph, RecordLands, CloseLands, GraceEnds, ReopenLands, Cron,
       CronQuery, CronResolves, CronSkips, TypeOK
  <2>2. batch'[k] \in Matched
    BY <1>0, <2>1 DEF CronQuery, TypeOK
  <2>3. m \in Mails /\ node[m] = "settled"
    BY <2>2, MatchedAreDue
  <2>4. QED
    BY <2>3, SettledStays
<1>3. QED
  BY <1>1, <1>2

-----------------------------------------------------------------------------
(***************************************************************************)
(* Who writes a row: each step leaves it, or is one of five writes.        *)
(***************************************************************************)
LEMMA RowWrites ==
  ASSUME Inv, [Next]_vars, NEW m \in Mails, row'[m] # row[m]
  PROVE  \/ row[m] = "none" /\ row'[m] = "active" /\ ExtractTodo(m)
         \/ row[m] = "active" /\ row'[m] = "user"
         \/ row[m] = "agent" /\ row'[m] = "active" /\ Undo(m)
         \/ /\ row[m] = "active"
            /\ row'[m] = "agent"
            /\ \E k \in CronRuns : m \in batch[k]
<1>0. TypeOK
  BY DEF Inv
<1>1. CASE \E n \in Mails : Mailbox(n)
  <2>1. PICK n \in Mails : Mailbox(n)
    BY <1>1
  <2>2. n = m
    BY <1>0, <2>1 DEF Mailbox, Arrive, ExtractNothing, ExtractTodo, Delete, Undo,
       UnresolveTodo, ResolvedByEmployee, TypeOK
  <2>3. ExtractTodo(m) \/ Delete(m) \/ Undo(m)
    BY <2>1, <2>2 DEF Mailbox, Arrive, ExtractNothing
  <2>4. QED
    BY <1>0, <2>3 DEF ExtractTodo, Delete, Undo, UnresolveTodo, ResolvedByEmployee, TypeOK
<1>2. CASE \E r \in Replies : Reply(r)
  <2>1. PICK r \in Replies : ReplyResolve(r)
    BY <1>2 DEF Reply, ReplyStart, ReplyStore, ReplyCloseNode, ReplyFails
  <2>2. QED
    BY <1>0, <2>1 DEF ReplyResolve, ResolvedByEmployee, TypeOK
<1>3. CASE \E k \in CronRuns : Cron(k)
  <2>1. PICK k \in CronRuns, n \in Mails : CronResolves(k, n)
    BY <1>3 DEF Cron, CronQuery, CronSkips
  <2>2. QED
    BY <1>0, <2>1 DEF CronResolves, ResolveTodo, TypeOK
<1>4. QED
  BY <1>1, <1>2, <1>3 DEF Next, vars, Graph, RecordLands, CloseLands, GraceEnds, ReopenLands

LEMMA StepKeepsAgentRule ==
  ASSUME Inv, [Next]_vars
  PROVE  AgentClearsOnlyAcknowledged'
<1> SUFFICES ASSUME NEW m \in Mails, row'[m] = "agent"
             PROVE  node'[m] = "settled" /\ acks'[m] > 0
  BY DEF AgentClearsOnlyAcknowledged
<1>0. AgentClearsOnlyAcknowledged /\ BatchesAreSettled /\ ClosedIsAcknowledged
  BY DEF Inv
<1>1. node[m] = "settled"
  BY <1>0, RowWrites DEF AgentClearsOnlyAcknowledged, BatchesAreSettled
<1>2. acks[m] > 0
  BY <1>0, <1>1 DEF ClosedIsAcknowledged
<1>3. QED
  BY <1>1, <1>2, SettledStays, AcksNeverFall

(***************************************************************************)
(* Marks of lateness and of undo are never wiped.                          *)
(***************************************************************************)
LEMMA ExplanationsStay ==
  ASSUME Inv, [Next]_vars, NEW m \in Mails, extraction[m] = "late" \/ undone[m] > 0
  PROVE  extraction'[m] = "late" \/ undone'[m] > 0
<1>0. TypeOK /\ AgentClearsOnlyAcknowledged /\ AbsentIsUntouched
  BY DEF Inv
<1>1. CASE \E n \in Mails : Mailbox(n) /\ ~ Arrive(n)
  <2>1. PICK n \in Mails : ExtractNothing(n) \/ ExtractTodo(n) \/ Delete(n) \/ Undo(n)
    BY <1>1 DEF Mailbox
  <2>2. CASE Undo(n)
    <3>1. \/ undone' = undone
          \/ row[n] = "agent" /\ undone' = [undone EXCEPT ![n] = acks[n]]
      BY <2>2 DEF Undo, UnresolveTodo
    <3>2. row[n] = "agent" => acks[n] > 0
      BY <1>0 DEF AgentClearsOnlyAcknowledged
    <3>3. \/ undone'[m] = undone[m]
          \/ undone'[m] = acks[m] /\ acks[m] > 0
      BY <1>0, <3>1, <3>2 DEF TypeOK
    <3>4. extraction' = extraction
      BY <2>2 DEF Undo
    <3>5. QED
      BY <3>3, <3>4
  <2>3. CASE ~ Undo(n)
    BY <1>0, <2>1, <2>3 DEF ExtractNothing, ExtractTodo, Delete, TypeOK
  <2>4. QED
    BY <2>2, <2>3
<1>2. CASE \E n \in Mails : Arrive(n)
  <2>1. PICK n \in Mails : Arrive(n)
    BY <1>2
  <2>2. CASE n # m
    BY <1>0, <2>1, <2>2 DEF Arrive, TypeOK
  <2>3. CASE n = m /\ undone[m] > 0
    BY <2>1, <2>3 DEF Arrive
  <2>4. CASE n = m /\ extraction[m] = "late"
    BY <1>0, <2>1, <2>4 DEF Arrive, AbsentIsUntouched
  <2>5. QED
    BY <2>2, <2>3, <2>4
<1>3. CASE ~ \E n \in Mails : Mailbox(n)
  <2>1. extraction' = extraction /\ undone' = undone
    BY <1>3 DEF Next, vars, Reply, ReplyStart, ReplyStore, ReplyCloseNode, ReplyResolve,
       ReplyFails, Graph, RecordLands, CloseLands, GraceEnds, ReopenLands, Cron,
       CronQuery, CronResolves, CronSkips
  <2>2. QED
    BY <2>1
<1>4. QED
  BY <1>1, <1>2, <1>3

LEMMA StepKeepsOrphansExplained ==
  ASSUME Inv, [Next]_vars
  PROVE  OrphanTodosAreExplained'
<1> SUFFICES ASSUME NEW m \in Mails, mail'[m] = "gone", row'[m] = "active"
             PROVE  extraction'[m] = "late" \/ undone'[m] > 0
  BY DEF OrphanTodosAreExplained
<1>0. TypeOK /\ OrphanTodosAreExplained /\ AgentClearsOnlyAcknowledged
  BY DEF Inv
<1>1. CASE mail[m] = "gone" /\ row[m] = "active"
  BY <1>0, <1>1, ExplanationsStay DEF OrphanTodosAreExplained
<1>2. CASE mail[m] # "gone"
  <2>1. Delete(m)
    BY <1>0, <1>2 DEF Next, vars, Mailbox, Arrive, ExtractNothing, ExtractTodo, Delete, Undo,
       Reply, ReplyStart, ReplyStore, ReplyCloseNode, ReplyResolve, ReplyFails, Graph,
       RecordLands, CloseLands, GraceEnds, ReopenLands, Cron, CronQuery, CronResolves,
       CronSkips, TypeOK
  <2>2. row'[m] # "active"
    BY <1>0, <2>1 DEF Delete, ResolvedByEmployee, TypeOK
  <2>3. QED
    BY <2>2
<1>3. CASE mail[m] = "gone" /\ row[m] # "active"
  <2>1. CASE ExtractTodo(m)
    BY <1>0, <1>3, <2>1 DEF ExtractTodo, TypeOK
  <2>2. CASE Undo(m) /\ row[m] = "agent"
    <3>1. undone'[m] = acks[m]
      BY <1>0, <2>2 DEF Undo, UnresolveTodo, TypeOK
    <3>2. acks[m] > 0
      BY <1>0, <2>2 DEF AgentClearsOnlyAcknowledged
    <3>3. QED
      BY <3>1, <3>2
  <2>3. QED
    BY <1>3, <2>1, <2>2, RowWrites
<1>4. QED
  BY <1>1, <1>2, <1>3

(***************************************************************************)
(* Inv holds in every reachable state: a todo that the agent cleared has a *)
(* settled node because runs only hold settled nodes, nodes only settle    *)
(* after a close call, and only a stored acknowledgement makes one.        *)
(***************************************************************************)
THEOREM InvIsInvariant == Spec => []Inv
<1>1. Inv /\ [Next]_vars => Inv'
  BY StepKeepsTypes, StepKeepsAbsentUntouched, StepKeepsClosedAcknowledged,
     StepKeepsStoredCounted, StepKeepsBatchesSettled, StepKeepsAgentRule,
     StepKeepsOrphansExplained DEF Inv
<1>2. QED
  BY <1>1, InitEstablishesInv, PTL DEF Spec

(***************************************************************************)
(* Every field of the mailbox, the graph, the handlers and the cron keeps  *)
(* its type.                                                               *)
(***************************************************************************)
THEOREM TypesAreCorrect == Spec => []TypeOK
<1>1. Inv => TypeOK
  BY DEF Inv
<1>2. QED
  BY <1>1, InvIsInvariant, PTL

(***************************************************************************)
(* However many cron runs overlap with whatever batches, the agent clears  *)
(* only what was acknowledged, after the grace period (lib/auto-clear.ts). *)
(***************************************************************************)
THEOREM AgentIsHonest == Spec => []AgentClearsOnlyAcknowledged
<1>1. Inv => AgentClearsOnlyAcknowledged
  BY DEF Inv
<1>2. QED
  BY <1>1, InvIsInvariant, PTL

(***************************************************************************)
(* A todo outlives its mail only through a late extraction or an undo      *)
(* (deleteEmail, extractTodosFromEmail).                                   *)
(***************************************************************************)
THEOREM OrphansHaveTwoCauses == Spec => []OrphanTodosAreExplained
<1>1. Inv => OrphanTodosAreExplained
  BY DEF Inv
<1>2. QED
  BY <1>1, InvIsInvariant, PTL

(***************************************************************************)
(* A todo resolved by the employee never changes again (unresolveTodo,     *)
(* resolveTodo, insertTodos).                                              *)
(***************************************************************************)
THEOREM EmployeeHasTheLastWord == Spec => UserResolutionIsFinal
<1>1. Inv /\ [Next]_vars => [\A m \in Mails : row[m] = "user" => row'[m] = "user"]_vars
  <2>1. ASSUME Inv, [Next]_vars, NEW m \in Mails, row[m] = "user"
        PROVE  row'[m] = "user"
    BY <2>1, RowWrites
  <2>2. QED
    BY <2>1
<1>2. QED
  BY <1>1, InvIsInvariant, PTL DEF Spec, UserResolutionIsFinal
-----------------------------------------------------------------------------
(***************************************************************************)
(* A node that is not due yet falls due alone: the grace of no other ends  *)
(* in the same step, its call to close was acknowledged, and no row moves. *)
(***************************************************************************)
LEMMA FallingDue ==
  ASSUME Inv, [Next]_vars, NEW m \in Mails, node[m] # "settled", node'[m] = "settled"
  PROVE  /\ Due' = Due \union {m}
         /\ acks[m] > 0
         /\ UNCHANGED <<row, acks>>
<1>0. TypeOK /\ ClosedIsAcknowledged
  BY DEF Inv
<1>1. ~ \E tid \in reopening : ReopenLands(tid)
  BY <1>0, ReopenTouchesNoNode
<1>2. \E n \in Mails : Graph(n)
  BY <1>0, <1>1 DEF Next, vars, Mailbox, Arrive, ExtractNothing, ExtractTodo, Delete,
     Undo, Reply, ReplyStart, ReplyStore, ReplyCloseNode, ReplyResolve, ReplyFails,
     Cron, CronQuery, CronResolves, CronSkips
<1>3. GraceEnds(m)
  BY <1>0, <1>2 DEF Graph, RecordLands, CloseLands, GraceEnds, TypeOK
<1>4. QED
  BY <1>0, <1>3 DEF GraceEnds, Due, ClosedIsAcknowledged, TypeOK

(***************************************************************************)
(* While no node falls due the list of what is due stays as it is: nodes   *)
(* leave it through no query of an undo (the unresolve route).             *)
(***************************************************************************)
LEMMA DueIsKept ==
  ASSUME Inv, [Next]_vars,
         \A m \in Mails : node'[m] = "settled" => node[m] = "settled"
  PROVE  Due' = Due
  BY SettledStays DEF Due

(***************************************************************************)
(* A step changes one row at most.                                         *)
(***************************************************************************)
LEMMA OneRowAtATime ==
  ASSUME Inv, [Next]_vars, NEW m \in Mails, row'[m] # row[m]
  PROVE  /\ row' = [row EXCEPT ![m] = row'[m]]
         /\ acks' = acks
         /\ node' = node
<1>0. TypeOK
  BY DEF Inv
<1>1. CASE \E n \in Mails : Mailbox(n)
  <2>1. PICK n \in Mails : ExtractTodo(n) \/ Delete(n) \/ Undo(n)
    BY <1>1 DEF Mailbox, Arrive, ExtractNothing
  <2>2. QED
    BY <1>0, <2>1 DEF ExtractTodo, Delete, Undo, UnresolveTodo, ResolvedByEmployee, TypeOK
<1>2. CASE \E r \in Replies : Reply(r)
  <2>1. PICK r \in Replies : ReplyResolve(r)
    BY <1>2 DEF Reply, ReplyStart, ReplyStore, ReplyCloseNode, ReplyFails
  <2>2. QED
    BY <1>0, <2>1 DEF ReplyResolve, ResolvedByEmployee, TypeOK
<1>3. CASE \E k \in CronRuns : Cron(k)
  <2>1. PICK k \in CronRuns, n \in Mails : CronResolves(k, n)
    BY <1>3 DEF Cron, CronQuery, CronSkips
  <2>2. QED
    BY <1>0, <2>1 DEF CronResolves, ResolveTodo, TypeOK
<1>4. QED
  BY <1>1, <1>2, <1>3 DEF Next, vars, Graph, RecordLands, CloseLands, GraceEnds, ReopenLands

(***************************************************************************)
(* A step changes one count of acknowledgements at most, upwards.          *)
(***************************************************************************)
LEMMA OneAckAtATime ==
  ASSUME Inv, [Next]_vars, acks' # acks
  PROVE  /\ \E m \in Mails : acks[m] \in Nat /\ acks' = [acks EXCEPT ![m] = @ + 1]
         /\ UNCHANGED <<row, node>>
<1>0. TypeOK
  BY DEF Inv
<1>1. PICK r \in Replies : ReplyStore(r) /\ reply[r].ack
  BY DEF Next, vars, Mailbox, Arrive, ExtractNothing, ExtractTodo, Delete, Undo, Reply,
     ReplyStart, ReplyStore, ReplyCloseNode, ReplyResolve, ReplyFails, Graph,
     RecordLands, CloseLands, GraceEnds, ReopenLands, Cron, CronQuery, CronResolves, CronSkips
<1>2. reply[r].mail \in Mails
  BY <1>0, <1>1, BusyReply DEF ReplyStore, Busy
<1>3. acks[reply[r].mail] \in Nat
  BY <1>0, <1>2, MaxAcksAssumption DEF TypeOK
<1>4. QED
  BY <1>1, <1>2, <1>3 DEF ReplyStore

-----------------------------------------------------------------------------
(***************************************************************************)
(* No card, no acknowledgement and nothing due, at the start.              *)
(***************************************************************************)
LEMMA TodosInitRefines == Init => Dashboard!Init
  BY DEF Init, Dashboard!Init, Due

(***************************************************************************)
(* A row changes as a card may: extraction shows it, the employee or the   *)
(* agent resolves it, an undo puts it back.                                *)
(***************************************************************************)
LEMMA RowRefines ==
  ASSUME Inv, [Next]_vars, NEW m \in Mails, row'[m] # row[m]
  PROVE  Dashboard!Next
<1>1. UNCHANGED <<{n \in Mails : acks[n] > 0}, Due>> /\ row' = [row EXCEPT ![m] = row'[m]]
  BY OneRowAtATime DEF Due
<1>2. row'[m] = "agent" => m \in Due
  BY RowWrites DEF Inv, BatchesAreSettled, Due
<1>3. \/ row[m] = "none" /\ row'[m] = "active"
      \/ row[m] = "active" /\ row'[m] = "user"
      \/ row[m] = "active" /\ row'[m] = "agent"
      \/ row[m] = "agent" /\ row'[m] = "active"
  BY RowWrites
<1>4. Dashboard!Show(m) \/ Dashboard!DealWith(m) \/ Dashboard!Clear(m) \/ Dashboard!PutBack(m)
  BY <1>1, <1>2, <1>3
     DEF Dashboard!Show, Dashboard!DealWith, Dashboard!Clear, Dashboard!PutBack, Dashboard!Turn
<1>5. QED
  BY <1>4 DEF Dashboard!Next

(***************************************************************************)
(* Every step of rows, nodes, handlers and runs is a step of the dashboard *)
(* or none.                                                                *)
(***************************************************************************)
LEMMA TodosStepRefines ==
  ASSUME Inv, [Next]_vars
  PROVE  [Dashboard!Next]_Dashboard!vars
<1>0. TypeOK
  BY DEF Inv
<1>1. CASE \E m \in Mails : row'[m] # row[m]
  BY <1>1, RowRefines
<1>2. CASE row' = row /\ acks' # acks
  <2>1. PICK m \in Mails : acks[m] \in Nat /\ acks' = [acks EXCEPT ![m] = @ + 1]
    BY <1>2, OneAckAtATime
  <2>2. {n \in Mails : acks'[n] > 0} = {n \in Mails : acks[n] > 0} \union {m}
    BY <1>0, <2>1, MaxAcksAssumption DEF TypeOK
  <2>3. Due' = Due
    BY <1>2, OneAckAtATime DEF Due
  <2>4. Dashboard!Acknowledge(m)
    BY <1>2, <2>2, <2>3 DEF Dashboard!Acknowledge
  <2>5. QED
    BY <2>4 DEF Dashboard!Next
<1>3. CASE \E m \in Mails : node[m] # "settled" /\ node'[m] = "settled"
  <2>1. PICK m \in Mails : node[m] # "settled" /\ node'[m] = "settled"
    BY <1>3
  <2>2. Dashboard!FallDue(m)
    BY <2>1, FallingDue DEF Dashboard!FallDue
  <2>3. QED
    BY <2>2 DEF Dashboard!Next
<1>4. CASE /\ row' = row
           /\ acks' = acks
           /\ \A m \in Mails : node'[m] = "settled" => node[m] = "settled"
  BY <1>4, DueIsKept DEF Dashboard!vars
<1>5. row' \in [Mails -> {"none", "active", "user", "agent"}]
  BY StepKeepsTypes DEF TypeOK
<1>6. QED
  BY <1>0, <1>1, <1>2, <1>3, <1>4, <1>5 DEF TypeOK

(***************************************************************************)
(* The two stores, the handlers and the cron keep the dashboard's promise: *)
(* a run's batch holds only what is due and stays due (BatchesAreSettled), *)
(* so its age does no harm.                                                *)
(***************************************************************************)
THEOREM TodosImplementTodoCards == Spec => ImplementsTodoCards
<1>1. Inv /\ [Next]_vars => [Dashboard!Next]_Dashboard!vars
  BY TodosStepRefines
<1>2. QED
  BY <1>1, TodosInitRefines, InvIsInvariant, PTL DEF Spec, ImplementsTodoCards, Dashboard!Spec
=============================================================================

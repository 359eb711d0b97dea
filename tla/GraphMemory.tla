----------------------------- MODULE GraphMemory -----------------------------
(***************************************************************************)
(* What the agent remembers of one student: temporal facts in FalkorDB     *)
(* (apps/app/src/memory/graph.mjs), written after each turn by             *)
(* recordTurnFacts of workflows/student-inbound.mjs.                       *)
(*                                                                         *)
(* A turn is the extraction of one inbound text: up to five facts, recorded *)
(* one after the other, each by a query that closes what contradicts it    *)
(* and a second one that inserts it.  A query is atomic, the two are not.  *)
(* Nobody awaits a turn, so turns overlap, and die with the process.       *)
(***************************************************************************)
EXTENDS Naturals, Sequences

CONSTANTS Turns,        \* ids of inbound texts: the source_message_id
          Preds,        \* predicates
          Single,       \* SINGLE_VALUED_PREDICATES
          Values,       \* object values
          Statement,    \* what can be said: a predicate with one of its values
          MaxFacts,     \* facts.slice(0, 5)
          QueriesFail   \* whether a query may fail, or the graph be unreachable

ASSUME SingleAssumption == Single \subseteq Preds
ASSUME StatementAssumption == Statement \subseteq [pred : Preds, value : Values]
ASSUME MaxFactsAssumption == MaxFacts \in Nat
ASSUME QueriesFailAssumption == QueriesFail \in BOOLEAN

VARIABLES at,      \* the query each turn comes to next
          said,    \* the facts each turn has extracted, in order
          next,    \* the one each turn is recording
          open,    \* :Fact nodes whose valid_to is null
          closed,  \* :Fact nodes whose valid_to is set
          rough,   \* history: turns that overlapped, failed or died
          latest   \* history: the turn that began last

vars == <<at, said, next, open, closed, rough, latest>>

(* factHash: a node's id is a function of subject, predicate, value and text. *)
Fact == [turn : Turns, pred : Preds, value : Values]

Statements == UNION {[1..n -> Statement] : n \in 0..MaxFacts}

AtWork == {t \in Turns : at[t] \in {"close", "merge"}}

Current(t) == said[t][next[t]]

Init == /\ at = [t \in Turns |-> "waiting"]
        /\ said = [t \in Turns |-> <<>>]
        /\ next = [t \in Turns |-> 1]
        /\ open = {}
        /\ closed = {}
        /\ rough = {}
        /\ latest = {}

-----------------------------------------------------------------------------
(* recordTurnFacts has the model's answer; without one, or with no fact in it,
   it writes nothing and the turn might as well be waiting still.  For the
   history, turns that are at work at the same time disturb each other. *)
Begin(t, facts) ==
    /\ at[t] = "waiting"
    /\ facts # <<>>
    /\ at' = [at EXCEPT ![t] = "close"]
    /\ said' = [said EXCEPT ![t] = facts]
    /\ next' = [next EXCEPT ![t] = 1]
    /\ latest' = {t}
    /\ rough' = IF AtWork = {} THEN rough ELSE rough \union AtWork \union {t}
    /\ UNCHANGED <<open, closed>>

(* Mutant: the loop runs one fact too far. *)
NextFactTooFar(t) ==
    IF next[t] <= Len(said[t])
      THEN /\ next' = [next EXCEPT ![t] = @ + 1]
           /\ at' = [at EXCEPT ![t] = "close"]
      ELSE /\ at' = [at EXCEPT ![t] = "over"]
           /\ UNCHANGED next

(* The loop goes on to the next fact, whatever recordFact returned. *)
NextFact(t) ==
    IF next[t] < Len(said[t])
      THEN /\ next' = [next EXCEPT ![t] = @ + 1]
           /\ at' = [at EXCEPT ![t] = "close"]
      ELSE /\ at' = [at EXCEPT ![t] = "over"]
           /\ UNCHANGED next

(* What contradicts a statement: same predicate, valid_to IS NULL and another
   object value, if the predicate is single-valued. *)
Contradicting(s) ==
    {f \in open : s.pred \in Single /\ f.pred = s.pred /\ f.value # s.value}

(* Mutant: the close-out takes one fact only, as with a LIMIT 1. *)
CloseOutOne(s) ==
    IF Contradicting(s) = {} THEN UNCHANGED <<open, closed>>
    ELSE \E f \in Contradicting(s) : /\ open' = open \ {f}
                                     /\ closed' = closed \union {f}

(* Step 1 of recordFact. *)
CloseOut(s) == /\ open' = open \ Contradicting(s)
               /\ closed' = closed \union Contradicting(s)

CloseConflicts(t) ==
    /\ at[t] = "close"
    /\ CloseOut(Current(t))
    /\ at' = [at EXCEPT ![t] = "merge"]
    /\ UNCHANGED <<said, next, rough, latest>>

(* It throws, done or not: logged, and step 2 follows all the same. *)
CloseFails(t) ==
    /\ QueriesFail
    /\ at[t] = "close"
    /\ Current(t).pred \in Single
    /\ CloseOut(Current(t)) \/ UNCHANGED <<open, closed>>
    /\ at' = [at EXCEPT ![t] = "merge"]
    /\ rough' = rough \union {t}
    /\ UNCHANGED <<said, next, latest>>

(* Step 2: MERGE (f:Fact {id}) ON CREATE SET ..., with valid_to null.  A node
   that exists, open or closed, is left as it is. *)
Node(t, s) == [turn |-> t, pred |-> s.pred, value |-> s.value]

(* Mutant: the id leaves the text out, so a repeated statement is no new fact. *)
MergeByValue(f) ==
    open' = IF \E g \in open \union closed : g.pred = f.pred /\ g.value = f.value
              THEN open
              ELSE open \union {f}

(* Mutant: SET in place of ON CREATE SET reopens a closed fact. *)
MergeReopens(f) == open' = open \union {f}

Merge(f) == open' = IF f \in open \union closed THEN open ELSE open \union {f}

MergeFact(t) ==
    /\ at[t] = "merge"
    /\ Merge(Node(t, Current(t)))
    /\ NextFact(t)
    /\ UNCHANGED <<said, closed, rough, latest>>

(* It throws, done or not: recordFact returns null. *)
MergeFails(t) ==
    /\ QueriesFail
    /\ at[t] = "merge"
    /\ Merge(Node(t, Current(t))) \/ UNCHANGED open
    /\ NextFact(t)
    /\ rough' = rough \union {t}
    /\ UNCHANGED <<said, closed, latest>>

(* getGraphClient has no connection: recordFact returns null at once. *)
Unreachable(t) ==
    /\ QueriesFail
    /\ at[t] = "close"
    /\ NextFact(t)
    /\ rough' = rough \union {t}
    /\ UNCHANGED <<said, open, closed, latest>>

(* The process restarts. *)
Crash ==
    /\ AtWork # {}
    /\ at' = [t \in Turns |-> IF t \in AtWork THEN "over" ELSE at[t]]
    /\ rough' = rough \union AtWork
    /\ UNCHANGED <<said, next, open, closed, latest>>

-----------------------------------------------------------------------------
Record(t) == \/ CloseConflicts(t) \/ CloseFails(t) \/ MergeFact(t)
             \/ MergeFails(t) \/ Unreachable(t)

Next ==
    \/ \E t \in Turns, facts \in Statements : Begin(t, facts)
    \/ \E t \in Turns : Record(t)
    \/ Crash

Spec == Init /\ [][Next]_vars

-----------------------------------------------------------------------------
(* The values a single-valued predicate has at present. *)
Held(p) == {f.value : f \in {g \in open : g.pred = p}}

(* Every field keeps its type, and a turn at work has a fact to record. *)
TypeOK ==
    /\ at \in [Turns -> {"waiting", "close", "merge", "over"}]
    /\ said \in [Turns -> Statements]
    /\ next \in [Turns -> Nat \ {0}]
    /\ open \subseteq Fact
    /\ closed \subseteq Fact
    /\ rough \subseteq Turns
    /\ latest \subseteq Turns
    /\ \A t \in AtWork : next[t] <= Len(said[t])

(***************************************************************************)
(* "The agent's invariant" of graph.mjs:19-24 as far as two queries can    *)
(* keep it: two values of a single-valued predicate are both active only   *)
(* if one of them stems from a turn that overlapped another, had a query   *)
(* fail or was killed.                                                     *)
(***************************************************************************)
OneValueUnlessRough ==
    \A f, g \in open :
        /\ f.pred = g.pred
        /\ f.pred \in Single
        /\ f.value # g.value
        => f.turn \in rough \/ g.turn \in rough

(* The statement i is the turn's last word on p.  Not so if it goes back to a
   value the turn has given up in between: that node exists and is closed. *)
LastWordOn(facts, p, i) ==
    /\ facts[i].pred = p
    /\ \A j \in DOMAIN facts : j > i => facts[j].pred # p
    /\ \A j, k \in 1..i :
          j < k /\ facts[k].pred = p /\ facts[j] = facts[i] => facts[k] = facts[i]

(***************************************************************************)
(* A turn that ran undisturbed is remembered as it was said, whatever mess *)
(* earlier ones have left: until another turn begins, its last word is the *)
(* one value of each single-valued predicate (recordFact's close-out).     *)
(***************************************************************************)
UndisturbedTurnIsRemembered ==
    \A t \in latest \ rough : \A p \in Single :
        at[t] = "over" =>
            \A i \in DOMAIN said[t] :
                LastWordOn(said[t], p, i) => Held(p) = {said[t][i].value}

(***************************************************************************)
(* The past is not rewritten: a closed fact is never reopened or lost, and *)
(* a fact of a multi-valued predicate, once recorded, stays active.        *)
(***************************************************************************)
HistoryIsKept ==
    [][/\ closed \subseteq closed'
       /\ open' \intersect closed = {}
       /\ \A f \in open : f.pred \notin Single => f \in open']_vars

(***************************************************************************)
(* "If the process crashes mid-flight, the worst case is an un-closed      *)
(* prior fact + new fact both live" (graph.mjs:312-313): whatever happens, *)
(* a single-valued predicate that had a value has one.                     *)
(***************************************************************************)
AValueSurvives ==
    \A p \in Single :
        AtWork = {} /\ (\E f \in open \union closed : f.pred = p) => Held(p) # {}
=============================================================================

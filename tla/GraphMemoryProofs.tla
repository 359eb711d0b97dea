-------------------------- MODULE GraphMemoryProofs --------------------------
(* Proofs about GraphMemory for any turns, predicates, values and lengths. *)
EXTENDS GraphMemory, TLAPS

-----------------------------------------------------------------------------
(* A list of statements has a length, and a statement at each position. *)
LEMMA StatementsAreLists ==
    ASSUME NEW facts \in Statements
    PROVE  /\ Len(facts) \in Nat
           /\ \A i \in 1..Len(facts) : facts[i] \in Statement
<1>1. PICK n \in 0..MaxFacts : facts \in [1..n -> Statement]
  BY DEF Statements
<1>2. facts \in Seq(Statement) /\ Len(facts) = n
  BY <1>1, MaxFactsAssumption
<1> QED
  BY <1>1, <1>2, MaxFactsAssumption

(* The statement a turn at work is at becomes a fact of that turn. *)
LEMMA CurrentIsAStatement ==
    ASSUME TypeOK, NEW t \in AtWork
    PROVE  /\ t \in Turns
           /\ Current(t) \in Statement
           /\ Node(t, Current(t)) \in Fact
<1>1. t \in Turns /\ said[t] \in Statements /\ next[t] \in 1..Len(said[t])
  BY StatementsAreLists DEF TypeOK, AtWork
<1>2. Current(t) \in Statement
  BY <1>1, StatementsAreLists DEF Current
<1> QED
  BY <1>1, <1>2, StatementAssumption DEF Node, Fact

-----------------------------------------------------------------------------
(* Turns that are at work together have disturbed each other. *)
OverlapIsRough ==
    \A t, u \in AtWork : t # u => t \in rough /\ u \in rough

(* Between the two queries of an undisturbed turn nothing contradicts it. *)
WayIsClear ==
    \A t \in AtWork \ rough :
        at[t] = "merge" => Contradicting(Current(t)) = {}

(* A node is open or closed, not both. *)
OpenOrClosed == open \intersect closed = {}

Inv == TypeOK /\ OverlapIsRough /\ WayIsClear /\ OpenOrClosed /\ OneValueUnlessRough

LEMMA InitInv == Init => Inv
<1> SUFFICES ASSUME Init PROVE Inv
  OBVIOUS
<1>1. <<>> \in Statements
  <2>1. 0 \in 0..MaxFacts
    BY MaxFactsAssumption
  <2>2. <<>> \in [1..0 -> Statement]
    OBVIOUS
  <2> QED
    BY <2>1, <2>2 DEF Statements
<1> QED
  BY <1>1 DEF Init, Inv, TypeOK, OverlapIsRough, WayIsClear, OpenOrClosed,
              OneValueUnlessRough, AtWork, Contradicting

-----------------------------------------------------------------------------
(* Types.  A turn moves on only to a statement its list has. *)
LEMMA NextFactKeepsType ==
    ASSUME TypeOK, NEW t \in AtWork, NextFact(t), UNCHANGED said
    PROVE  /\ at' \in [Turns -> {"waiting", "close", "merge", "over"}]
           /\ next' \in [Turns -> Nat \ {0}]
           /\ AtWork' \subseteq AtWork
           /\ \A u \in AtWork' : next'[u] <= Len(said[u])
           /\ \A u \in Turns : u # t => at'[u] = at[u]
           /\ at'[t] # "merge"
<1>1. t \in Turns /\ at[t] \in {"close", "merge"}
  BY DEF AtWork
<1>2. said[t] \in Statements /\ Len(said[t]) \in Nat /\ next[t] \in Nat \ {0}
  BY <1>1, StatementsAreLists DEF TypeOK
<1>3. CASE next[t] < Len(said[t])
  <2>1. next' = [next EXCEPT ![t] = @ + 1] /\ at' = [at EXCEPT ![t] = "close"]
    BY <1>3 DEF NextFact
  <2>2. next[t] + 1 \in Nat \ {0} /\ next[t] + 1 <= Len(said[t])
    BY <1>2, <1>3
  <2> QED
    BY <1>1, <2>1, <2>2 DEF TypeOK, AtWork
<1>4. CASE ~ (next[t] < Len(said[t]))
  <2>1. next' = next /\ at' = [at EXCEPT ![t] = "over"]
    BY <1>4 DEF NextFact
  <2> QED
    BY <1>1, <2>1 DEF TypeOK, AtWork
<1> QED
  BY <1>3, <1>4

LEMMA TypeStep ==
    ASSUME Inv, [Next]_vars
    PROVE  TypeOK'
<1> USE DEF Inv
<1>1. ASSUME NEW t \in Turns, NEW facts \in Statements, Begin(t, facts)
      PROVE  TypeOK'
  <2>1. Len(facts) \in Nat /\ 1 <= Len(facts)
    <3>1. PICK n \in 0..MaxFacts : facts \in [1..n -> Statement]
      BY DEF Statements
    <3>2. facts \in Seq(Statement) /\ facts # <<>>
      BY <1>1, <3>1, MaxFactsAssumption DEF Begin
    <3> QED
      BY <3>2
  <2>2. \A u \in AtWork' : next'[u] <= Len(said'[u])
    BY <1>1, <2>1 DEF Begin, TypeOK, AtWork
  <2> QED
    BY <1>1, <2>2 DEF Begin, TypeOK, AtWork
<1>2. ASSUME NEW t \in Turns, CloseConflicts(t) \/ CloseFails(t)
      PROVE  TypeOK'
  <2>1. t \in AtWork
    BY <1>2 DEF CloseConflicts, CloseFails, AtWork
  <2>2. open' \subseteq Fact /\ closed' \subseteq Fact
    BY <1>2 DEF CloseConflicts, CloseFails, CloseOut, Contradicting, TypeOK
  <2>3. /\ at' = [at EXCEPT ![t] = "merge"]
        /\ UNCHANGED <<said, next, latest>>
        /\ rough' \subseteq rough \union {t}
    BY <1>2 DEF CloseConflicts, CloseFails
  <2> QED
    BY <2>1, <2>2, <2>3 DEF TypeOK, AtWork
<1>3. ASSUME NEW t \in Turns, MergeFact(t) \/ MergeFails(t) \/ Unreachable(t)
      PROVE  TypeOK'
  <2>1. t \in AtWork /\ NextFact(t) /\ UNCHANGED <<said, closed, latest>>
    BY <1>3 DEF MergeFact, MergeFails, Unreachable, AtWork
  <2>2. open' \subseteq Fact /\ rough' \subseteq Turns
    BY <1>3, <2>1, CurrentIsAStatement
       DEF MergeFact, MergeFails, Unreachable, Merge, TypeOK
  <2> QED
    BY <2>1, <2>2, NextFactKeepsType DEF TypeOK
<1>4. ASSUME Crash
      PROVE  TypeOK'
  BY <1>4 DEF Crash, TypeOK, AtWork
<1>5. ASSUME UNCHANGED vars
      PROVE  TypeOK'
  BY <1>5 DEF vars, TypeOK, AtWork
<1> QED
  BY <1>1, <1>2, <1>3, <1>4, <1>5 DEF Next, Record

-----------------------------------------------------------------------------
(* What a query of a turn leaves alone. *)
LEMMA RecordIsLocal ==
    ASSUME TypeOK, NEW t \in Turns, Record(t)
    PROVE  /\ t \in AtWork
           /\ AtWork' \subseteq AtWork
           /\ rough \subseteq rough'
           /\ UNCHANGED said
           /\ \A u \in Turns : u # t => at'[u] = at[u]
<1>1. ASSUME CloseConflicts(t) \/ CloseFails(t)
      PROVE  /\ t \in AtWork /\ at' = [at EXCEPT ![t] = "merge"]
             /\ rough \subseteq rough' /\ UNCHANGED said
  BY <1>1 DEF CloseConflicts, CloseFails, AtWork
<1>2. ASSUME MergeFact(t) \/ MergeFails(t) \/ Unreachable(t)
      PROVE  /\ t \in AtWork /\ NextFact(t)
             /\ rough \subseteq rough' /\ UNCHANGED said
  BY <1>2 DEF MergeFact, MergeFails, Unreachable, AtWork
<1>3. CASE CloseConflicts(t) \/ CloseFails(t)
  BY <1>1, <1>3 DEF TypeOK, AtWork
<1>4. CASE MergeFact(t) \/ MergeFails(t) \/ Unreachable(t)
  BY <1>2, <1>4, NextFactKeepsType
<1> QED
  BY <1>3, <1>4 DEF Record

LEMMA OverlapStep ==
    ASSUME Inv, [Next]_vars
    PROVE  OverlapIsRough'
<1> USE DEF Inv
<1>1. ASSUME NEW t \in Turns, NEW facts \in Statements, Begin(t, facts)
      PROVE  OverlapIsRough'
  <2>1. AtWork' = AtWork \union {t} /\ t \notin AtWork
    BY <1>1 DEF Begin, TypeOK, AtWork
  <2>2. CASE AtWork = {}
    BY <2>1, <2>2 DEF OverlapIsRough
  <2>3. CASE AtWork # {}
    BY <1>1, <2>1, <2>3 DEF Begin, OverlapIsRough
  <2> QED
    BY <2>2, <2>3
<1>2. ASSUME NEW t \in Turns, Record(t)
      PROVE  OverlapIsRough'
  BY <1>2, RecordIsLocal DEF OverlapIsRough
<1>3. ASSUME Crash
      PROVE  OverlapIsRough'
  BY <1>3 DEF Crash, OverlapIsRough, TypeOK, AtWork
<1>4. ASSUME UNCHANGED vars
      PROVE  OverlapIsRough'
  BY <1>4 DEF vars, OverlapIsRough, AtWork
<1> QED
  BY <1>1, <1>2, <1>3, <1>4 DEF Next

LEMMA ClearStep ==
    ASSUME Inv, [Next]_vars
    PROVE  WayIsClear'
<1> USE DEF Inv
<1>1. ASSUME NEW t \in Turns, NEW facts \in Statements, Begin(t, facts)
      PROVE  WayIsClear'
  <2>1. AtWork' = AtWork \union {t} /\ at'[t] = "close"
    BY <1>1 DEF Begin, TypeOK, AtWork
  <2>2. CASE AtWork = {}
    BY <2>1, <2>2 DEF WayIsClear
  <2>3. CASE AtWork # {}
    BY <1>1, <2>1, <2>3 DEF Begin, WayIsClear
  <2> QED
    BY <2>2, <2>3
<1>2. ASSUME NEW t \in Turns, Record(t)
      PROVE  WayIsClear'
  <2> SUFFICES ASSUME NEW u \in (AtWork \ rough)', at'[u] = "merge"
               PROVE  Contradicting(Current(u))' = {}
    BY DEF WayIsClear
  <2>1. u = t /\ t \notin rough'
    BY <1>2, RecordIsLocal DEF OverlapIsRough
  <2>2. CloseConflicts(t)
    BY <1>2, <2>1, RecordIsLocal, NextFactKeepsType
       DEF Record, CloseFails, MergeFact, MergeFails, Unreachable
  <2>3. Current(t)' = Current(t) /\ open' = open \ Contradicting(Current(t))
    BY <2>2 DEF CloseConflicts, CloseOut, Current
  <2> QED
    BY <2>1, <2>3 DEF Contradicting
<1>3. ASSUME Crash
      PROVE  WayIsClear'
  <2>1. AtWork' = {}
    BY <1>3 DEF Crash, TypeOK, AtWork
  <2> QED
    BY <2>1 DEF WayIsClear
<1>4. ASSUME UNCHANGED vars
      PROVE  WayIsClear'
  BY <1>4 DEF vars, WayIsClear, AtWork, Contradicting, Current
<1> QED
  BY <1>1, <1>2, <1>3, <1>4 DEF Next

-----------------------------------------------------------------------------
(* The writes of the graph: a step closes what contradicts a statement, or
   adds one node that was neither open nor closed, or leaves it alone. *)
Closes == \E s \in Statement : CloseOut(s)

Adds == \E t \in AtWork :
            /\ at[t] = "merge"
            /\ Node(t, Current(t)) \notin open \union closed
            /\ open' = open \union {Node(t, Current(t))}
            /\ closed' = closed

LEMMA GraphWrites ==
    ASSUME TypeOK, [Next]_vars
    PROVE  /\ rough \subseteq rough'
           /\ Closes \/ Adds \/ UNCHANGED <<open, closed>>
<1>1. ASSUME NEW t \in Turns, NEW facts \in Statements, Begin(t, facts)
      PROVE  rough \subseteq rough' /\ UNCHANGED <<open, closed>>
  BY <1>1 DEF Begin
<1>2. ASSUME NEW t \in Turns, CloseConflicts(t) \/ CloseFails(t)
      PROVE  rough \subseteq rough' /\ (Closes \/ UNCHANGED <<open, closed>>)
  <2>1. t \in AtWork
    BY <1>2 DEF CloseConflicts, CloseFails, AtWork
  <2> QED
    BY <1>2, <2>1, CurrentIsAStatement DEF CloseConflicts, CloseFails, Closes
<1>3. ASSUME NEW t \in Turns, MergeFact(t) \/ MergeFails(t)
      PROVE  rough \subseteq rough' /\ (Adds \/ UNCHANGED <<open, closed>>)
  <2>1. t \in AtWork /\ at[t] = "merge" /\ closed' = closed /\ rough \subseteq rough'
    BY <1>3 DEF MergeFact, MergeFails, AtWork
  <2>2. Merge(Node(t, Current(t))) \/ UNCHANGED open
    BY <1>3 DEF MergeFact, MergeFails
  <2> QED
    BY <2>1, <2>2 DEF Merge, Adds
<1>4. ASSUME NEW t \in Turns, Unreachable(t)
      PROVE  rough \subseteq rough' /\ UNCHANGED <<open, closed>>
  BY <1>4 DEF Unreachable
<1>5. ASSUME Crash
      PROVE  rough \subseteq rough' /\ UNCHANGED <<open, closed>>
  BY <1>5 DEF Crash
<1>6. ASSUME UNCHANGED vars
      PROVE  rough \subseteq rough' /\ UNCHANGED <<open, closed>>
  BY <1>6 DEF vars
<1> QED
  BY <1>1, <1>2, <1>3, <1>4, <1>5, <1>6 DEF Next, Record

LEMMA OpenOrClosedStep ==
    ASSUME Inv, [Next]_vars
    PROVE  OpenOrClosed'
<1>1. CASE Closes
  BY <1>1 DEF Inv, Closes, CloseOut, OpenOrClosed
<1>2. CASE Adds
  BY <1>2 DEF Inv, Adds, OpenOrClosed
<1>3. CASE UNCHANGED <<open, closed>>
  BY <1>3 DEF Inv, OpenOrClosed
<1> QED
  BY <1>1, <1>2, <1>3, GraphWrites DEF Inv

LEMMA OneValueStep ==
    ASSUME Inv, [Next]_vars
    PROVE  OneValueUnlessRough'
<1>1. rough \subseteq rough'
  BY GraphWrites DEF Inv
<1>2. CASE open' \subseteq open
  BY <1>1, <1>2 DEF Inv, OneValueUnlessRough
<1>3. CASE Adds
  <2>1. PICK t \in AtWork : /\ at[t] = "merge"
                            /\ open' = open \union {Node(t, Current(t))}
    BY <1>3 DEF Adds
  <2> DEFINE new == Node(t, Current(t))
  <2>2. /\ new.turn = t
        /\ new.pred = Current(t).pred
        /\ new.value = Current(t).value
    BY DEF Node
  <2>3. CASE t \in rough
    BY <1>1, <2>1, <2>2, <2>3 DEF Inv, OneValueUnlessRough
  <2>4. CASE t \notin rough
    <3>1. Contradicting(Current(t)) = {}
      BY <2>1, <2>4 DEF Inv, WayIsClear
    <3>2. \A f \in open : new.pred \in Single /\ f.pred = new.pred => f.value = new.value
      BY <2>2, <3>1 DEF Contradicting
    <3> HIDE DEF new
    <3> QED
      BY <1>1, <2>1, <3>2 DEF Inv, OneValueUnlessRough, new
  <2> QED
    BY <2>3, <2>4
<1> QED
  BY <1>2, <1>3, GraphWrites DEF Inv, Closes, CloseOut

-----------------------------------------------------------------------------
(* The turn that began last, as long as it is undisturbed: no other is at work,
   and what it has said so far is found in the graph.  Done counts the statements
   it has recorded, Reached those whose conflicts it has closed. *)
Done(t) == IF at[t] = "over" THEN Len(said[t]) ELSE next[t] - 1

Reached(t) == IF at[t] = "merge" THEN next[t] ELSE Done(t)

(* A node of the turn stems from a statement it has recorded. *)
WasSaid(t, f) == \E j \in 1..Done(t) : f = Node(t, said[t][j])

(* A node of the turn is closed by a later statement of another value. *)
WasGivenUp(t, f) ==
    \E j, k \in 1..Reached(t) :
        j < k /\ f = Node(t, said[t][j]) /\ said[t][k].pred = f.pred
              /\ said[t][k].value # f.value

(* LastWordOn, of the first n statements. *)
LastWordSoFar(facts, n, p, i) ==
    /\ facts[i].pred = p
    /\ \A j \in 1..n : j > i => facts[j].pred # p
    /\ \A j, k \in 1..i :
          j < k /\ facts[k].pred = p /\ facts[j] = facts[i] => facts[k] = facts[i]

IsTheValue(p, v) == /\ \E f \in open : f.pred = p /\ f.value = v
                    /\ \A f \in open : f.pred = p => f.value = v

(* The predicate of the statement between its two queries is in suspense. *)
Settled(t, p) == at[t] = "merge" => Current(t).pred # p

IsRemembered(t) ==
    \A p \in Single : Settled(t, p) =>
        \A i \in 1..Done(t) :
            LastWordSoFar(said[t], Done(t), p, i) => IsTheValue(p, said[t][i].value)

SmoothTurn(t) ==
    /\ at[t] # "waiting"
    /\ AtWork \subseteq {t}
    /\ \A f \in open   : f.turn = t => WasSaid(t, f)
    /\ \A f \in closed : f.turn = t => WasGivenUp(t, f)
    /\ IsRemembered(t)

(* A node is of a turn that has begun. *)
NodesAreOfTurns == \A f \in open \union closed : at[f.turn] # "waiting"

MemoryInv == NodesAreOfTurns /\ \A t \in latest \ rough : SmoothTurn(t)

LEMMA NodesStep ==
    ASSUME Inv, NodesAreOfTurns, [Next]_vars
    PROVE  NodesAreOfTurns'
<1> USE DEF Inv, TypeOK, NodesAreOfTurns
<1>1. ASSUME NEW t \in Turns, at[t] # "waiting"
      PROVE  at'[t] # "waiting"
  <2>1. ASSUME NEW u \in Turns, NEW facts \in Statements, Begin(u, facts)
        PROVE  at'[t] # "waiting"
    BY <1>1, <2>1 DEF Begin
  <2>2. ASSUME NEW u \in Turns, CloseConflicts(u) \/ CloseFails(u)
        PROVE  at'[t] # "waiting"
    BY <1>1, <2>2 DEF CloseConflicts, CloseFails
  <2>3. ASSUME NEW u \in Turns, MergeFact(u) \/ MergeFails(u) \/ Unreachable(u)
        PROVE  at'[t] # "waiting"
    BY <1>1, <2>3 DEF MergeFact, MergeFails, Unreachable, NextFact
  <2> QED
    BY <1>1, <2>1, <2>2, <2>3 DEF Next, Record, Crash, vars
<1>2. \A f \in open \union closed : f.turn \in Turns
  BY DEF Fact
<1>3. CASE Closes
  BY <1>1, <1>2, <1>3 DEF Closes, CloseOut, Contradicting
<1>4. CASE Adds
  BY <1>1, <1>2, <1>4 DEF Adds, AtWork, Node
<1>5. CASE UNCHANGED <<open, closed>>
  BY <1>1, <1>2, <1>5
<1> QED
  BY <1>3, <1>4, <1>5, GraphWrites

(* Where a turn at work stands in its list. *)
LEMMA PlaceInTheList ==
    ASSUME TypeOK, NEW t \in Turns
    PROVE  /\ said[t] \in Statements /\ Len(said[t]) \in Nat
           /\ \A i \in 1..Len(said[t]) : said[t][i] \in Statement
           /\ DOMAIN said[t] = 1..Len(said[t])
           /\ at[t] \in {"close", "merge"} =>
                /\ Done(t) = next[t] - 1 /\ next[t] \in 1..Len(said[t])
                /\ Current(t) \in Statement
<1>1. said[t] \in Statements
  BY DEF TypeOK
<1>2. DOMAIN said[t] = 1..Len(said[t])
  <2>1. PICK n \in 0..MaxFacts : said[t] \in [1..n -> Statement]
    BY <1>1 DEF Statements
  <2>2. said[t] \in Seq(Statement)
    BY <2>1, MaxFactsAssumption
  <2> QED
    BY <2>2
<1> QED
  BY <1>1, <1>2, StatementsAreLists DEF TypeOK, AtWork, Done, Current

LEMMA SmoothBegin ==
    ASSUME Inv, NodesAreOfTurns,
           NEW t \in Turns, NEW facts \in Statements, Begin(t, facts),
           t \notin rough'
    PROVE  SmoothTurn(t)'
<1> USE DEF Inv, TypeOK
<1>1. AtWork = {} /\ AtWork' = {t} /\ at'[t] = "close" /\ next'[t] = 1
  BY DEF Begin, AtWork
<1>2. \A f \in (open \union closed)' : f.turn # t
  BY DEF Begin, NodesAreOfTurns
<1>3. Done(t)' = 0
  BY <1>1 DEF Done
<1> QED
  BY <1>1, <1>2, <1>3 DEF SmoothTurn, IsRemembered

LEMMA SmoothClose ==
    ASSUME Inv, NEW t \in Turns, SmoothTurn(t), CloseConflicts(t)
    PROVE  SmoothTurn(t)'
<1> USE DEF Inv
<1> DEFINE s == Current(t)
<1>1. /\ at[t] = "close" /\ at'[t] = "merge" /\ AtWork' \subseteq {t}
      /\ UNCHANGED <<said, next>>
      /\ open' = open \ Contradicting(s) /\ closed' = closed \union Contradicting(s)
  BY DEF CloseConflicts, CloseOut, TypeOK, SmoothTurn, AtWork
<1>2. /\ Done(t) = next[t] - 1 /\ Done(t)' = Done(t)
      /\ Reached(t) = Done(t) /\ Reached(t)' = next[t]
      /\ next[t] \in 1..Len(said[t]) /\ Len(said[t]) \in Nat
      /\ s = said[t][next[t]]
  BY <1>1, PlaceInTheList DEF Done, Reached, Current
<1>3. \A f \in open' : f.turn = t => WasSaid(t, f)'
  BY <1>1, <1>2 DEF SmoothTurn, WasSaid, Node
<1>4. ASSUME NEW f \in closed', f.turn = t
      PROVE  WasGivenUp(t, f)'
  <2>1. CASE f \in closed
    <3>1. PICK j, k \in 1..Reached(t) :
             j < k /\ f = Node(t, said[t][j]) /\ said[t][k].pred = f.pred
                   /\ said[t][k].value # f.value
      BY <1>4, <2>1 DEF SmoothTurn, WasGivenUp
    <3>2. j \in 1..next[t] /\ k \in 1..next[t]
      BY <1>2, <3>1
    <3> QED
      BY <1>1, <1>2, <3>1, <3>2 DEF WasGivenUp, Node
  <2>2. CASE f \in Contradicting(s)
    <3>1. f \in open /\ s.pred = f.pred /\ s.value # f.value
      BY <2>2 DEF Contradicting
    <3>2. PICK j \in 1..(next[t] - 1) : f = Node(t, said[t][j])
      BY <1>2, <1>4, <3>1 DEF SmoothTurn, WasSaid
    <3>3. j \in 1..next[t] /\ next[t] \in 1..next[t] /\ j < next[t]
      BY <1>2, <3>2
    <3> QED
      BY <1>1, <1>2, <3>1, <3>2, <3>3 DEF WasGivenUp, Node
  <2> QED
    BY <1>1, <1>4, <2>1, <2>2
<1>5. IsRemembered(t)'
  <2> SUFFICES ASSUME NEW p \in Single, Settled(t, p)', NEW i \in 1..Done(t),
                      LastWordSoFar(said[t], Done(t), p, i)
               PROVE  IsTheValue(p, said[t][i].value)'
    BY <1>1, <1>2 DEF IsRemembered
  <2>1. s.pred # p
    BY <1>1 DEF Settled, Current
  <2>2. IsTheValue(p, said[t][i].value)
    BY <1>1 DEF SmoothTurn, IsRemembered, Settled
  <2>3. \A f : f.pred = p => (f \in open' <=> f \in open)
    BY <1>1, <2>1 DEF Contradicting
  <2> QED
    BY <1>1, <2>2, <2>3 DEF IsTheValue
<1> QED
  BY <1>1, <1>3, <1>4, <1>5 DEF SmoothTurn

LEMMA SmoothMerge ==
    ASSUME Inv, NEW t \in Turns, t \notin rough, SmoothTurn(t), MergeFact(t)
    PROVE  SmoothTurn(t)'
<1> USE DEF Inv
<1> DEFINE s == Current(t)
           n == Node(t, s)
<1>1. /\ t \in AtWork /\ at[t] = "merge" /\ NextFact(t)
      /\ UNCHANGED <<said, closed>> /\ Merge(n)
      /\ Contradicting(s) = {}
  BY DEF MergeFact, AtWork, WayIsClear
<1>2. /\ Done(t) = next[t] - 1 /\ Reached(t) = next[t]
      /\ next[t] \in 1..Len(said[t]) /\ Len(said[t]) \in Nat
      /\ s = said[t][next[t]] /\ s \in Statement
      /\ s = [pred |-> s.pred, value |-> s.value]
      /\ \A j \in 1..Len(said[t]) : said[t][j] = [pred |-> said[t][j].pred,
                                                 value |-> said[t][j].value]
  BY <1>1, PlaceInTheList, StatementAssumption DEF Done, Reached, Current
<1>3. at'[t] \in {"close", "over"} /\ Done(t)' = next[t] /\ Reached(t)' = next[t]
  <2>1. CASE next[t] < Len(said[t])
    <3>1. next'[t] = next[t] + 1 /\ at'[t] = "close"
      BY <1>1, <2>1 DEF NextFact, TypeOK
    <3> QED
      BY <1>2, <3>1 DEF Done, Reached
  <2>2. CASE ~ (next[t] < Len(said[t]))
    <3>1. next' = next /\ at'[t] = "over" /\ next[t] = Len(said[t])
      BY <1>1, <1>2, <2>2 DEF NextFact, TypeOK
    <3> QED
      BY <1>1, <1>2, <3>1 DEF Done, Reached
  <2> QED
    BY <2>1, <2>2
<1>4. AtWork' \subseteq {t}
  BY <1>1, NextFactKeepsType DEF SmoothTurn
<1>5. ASSUME NEW f \in open', f.turn = t
      PROVE  WasSaid(t, f)'
  <2>1. CASE f \in open
    <3>1. PICK j \in 1..Done(t) : f = Node(t, said[t][j])
      BY <1>5, <2>1 DEF SmoothTurn, WasSaid
    <3>2. j \in 1..next[t]
      BY <1>2, <3>1
    <3> QED
      BY <1>1, <1>3, <3>1, <3>2 DEF WasSaid, Node
  <2>2. CASE f = n
    <3>1. next[t] \in 1..next[t]
      BY <1>2
    <3> QED
      BY <1>1, <1>2, <1>3, <2>2, <3>1 DEF WasSaid, Node
  <2> QED
    BY <1>1, <1>5, <2>1, <2>2 DEF Merge
<1>6. ASSUME NEW f \in closed', f.turn = t
      PROVE  WasGivenUp(t, f)'
  BY <1>1, <1>2, <1>3, <1>6 DEF SmoothTurn, WasGivenUp, Node
<1>7. IsRemembered(t)'
  <2> SUFFICES ASSUME NEW p \in Single, NEW i \in 1..next[t],
                      LastWordSoFar(said[t], next[t], p, i)
               PROVE  IsTheValue(p, said[t][i].value)'
    BY <1>1, <1>3 DEF IsRemembered
  <2>1. CASE p # s.pred
    <3>1. i \in 1..Done(t)
      BY <1>2, <2>1 DEF LastWordSoFar
    <3>2. LastWordSoFar(said[t], Done(t), p, i)
      BY <1>2, <3>1 DEF LastWordSoFar
    <3>3. IsTheValue(p, said[t][i].value)
      BY <2>1, <3>1, <3>2 DEF SmoothTurn, IsRemembered, Settled
    <3>4. n.pred # p
      BY <2>1 DEF Node
    <3> HIDE DEF n
    <3> QED
      BY <1>1, <3>3, <3>4 DEF IsTheValue, Merge
  <2>2. CASE p = s.pred
    <3>1. i = next[t]
      BY <1>2, <2>2 DEF LastWordSoFar
    <3>2. n \notin closed
      <4> SUFFICES ASSUME n \in closed PROVE FALSE
        OBVIOUS
      <4>1. n.turn = t /\ n.pred = p /\ n.value = s.value
        BY <2>2 DEF Node
      <4>2. PICK j, k \in 1..next[t] :
               j < k /\ n = Node(t, said[t][j]) /\ said[t][k].pred = p
                     /\ said[t][k].value # s.value
        BY <1>2, <4>1 DEF SmoothTurn, WasGivenUp
      <4>3. said[t][j].pred = s.pred /\ said[t][j].value = s.value
        BY <4>2 DEF Node
      <4>4. said[t][j] = said[t][i]
        <5>1. j \in 1..Len(said[t])
          BY <1>2, <4>2
        <5> QED
          BY <1>2, <3>1, <4>3, <5>1
      <4>5. said[t][k] = said[t][i]
        BY <3>1, <4>2, <4>4 DEF LastWordSoFar
      <4> QED
        BY <1>2, <3>1, <4>2, <4>5
    <3>3. n \in open' /\ n.pred = p /\ n.value = s.value
      BY <1>1, <2>2, <3>2 DEF Merge, Node
    <3>4. \A f \in open : f.pred = p => f.value = s.value
      BY <1>1, <2>2 DEF Contradicting
    <3>5. open' = open \union {n}
      BY <1>1, <3>2 DEF Merge
    <3> HIDE DEF n
    <3>6. \A f \in open' : f.pred = p => f.value = said[t][i].value
      BY <1>2, <3>1, <3>3, <3>4, <3>5
    <3> QED
      BY <1>1, <1>2, <3>1, <3>3, <3>6 DEF IsTheValue
  <2> QED
    BY <2>1, <2>2
<1> QED
  BY <1>3, <1>4, <1>5, <1>6, <1>7 DEF SmoothTurn

(* A step that leaves an undisturbed turn as it is, and the graph too. *)
LEMMA SmoothStutter ==
    ASSUME NEW t \in Turns, SmoothTurn(t), at'[t] = at[t], AtWork' \subseteq AtWork,
           UNCHANGED <<said, next, open, closed>>
    PROVE  SmoothTurn(t)'
<1>1. Done(t)' = Done(t) /\ Reached(t)' = Reached(t) /\ Current(t)' = Current(t)
  BY DEF Done, Reached, Current
<1>2. \A f : WasSaid(t, f)' <=> WasSaid(t, f)
  BY <1>1 DEF WasSaid
<1>3. \A f : WasGivenUp(t, f)' <=> WasGivenUp(t, f)
  BY <1>1 DEF WasGivenUp
<1>4. IsRemembered(t)'
  BY <1>1 DEF SmoothTurn, IsRemembered, Settled, IsTheValue
<1> QED
  BY <1>2, <1>3, <1>4 DEF SmoothTurn

LEMMA MemoryStep ==
    ASSUME Inv, MemoryInv, [Next]_vars
    PROVE  MemoryInv'
<1>1. NodesAreOfTurns'
  BY NodesStep DEF MemoryInv
<1>2. ASSUME NEW t \in (latest \ rough)'
      PROVE  SmoothTurn(t)'
  <2>1. rough \subseteq rough' /\ t \in Turns
    BY <1>2, GraphWrites, TypeStep DEF Inv, TypeOK
  <2>2. ASSUME NEW u \in Turns, NEW facts \in Statements, Begin(u, facts)
        PROVE  SmoothTurn(t)'
    BY <1>2, <2>2, SmoothBegin DEF MemoryInv, Begin
  <2>3. ASSUME latest' = latest
        PROVE  SmoothTurn(t) /\ t \notin rough
    BY <1>2, <2>1, <2>3 DEF MemoryInv
  <2>4. ASSUME NEW u \in Turns, Record(u)
        PROVE  SmoothTurn(t)'
    <3>1. latest' = latest
      BY <2>4 DEF Record, CloseConflicts, CloseFails, MergeFact, MergeFails, Unreachable
    <3>2. u = t
      BY <2>3, <2>4, <3>1, RecordIsLocal DEF SmoothTurn, Inv
    <3>3. CloseConflicts(t) \/ MergeFact(t)
      BY <1>2, <2>4, <3>2 DEF Record, CloseFails, MergeFails, Unreachable
    <3> QED
      BY <2>1, <2>3, <3>1, <3>3, SmoothClose, SmoothMerge
  <2>5. ASSUME Crash
        PROVE  SmoothTurn(t)'
    <3>1. t \notin AtWork /\ AtWork' = {} /\ latest' = latest
      BY <1>2, <2>5 DEF Crash, Inv, TypeOK, AtWork
    <3>2. at'[t] = at[t] /\ UNCHANGED <<said, next, open, closed>>
      BY <2>1, <2>5, <3>1 DEF Crash
    <3> QED
      BY <2>1, <2>3, <3>1, <3>2, SmoothStutter
  <2>6. ASSUME UNCHANGED vars
        PROVE  SmoothTurn(t)'
    <3>1. latest' = latest /\ at' = at /\ AtWork' = AtWork
          /\ UNCHANGED <<said, next, open, closed>>
      BY <2>6 DEF vars, AtWork
    <3> QED
      BY <2>1, <2>3, <3>1, SmoothStutter
  <2> QED
    BY <2>2, <2>4, <2>5, <2>6 DEF Next
<1> QED
  BY <1>1, <1>2 DEF MemoryInv

-----------------------------------------------------------------------------
(* The inductive invariant of what is remembered. *)
THEOREM InvIsInvariant == Spec => []Inv
<1>1. Inv /\ [Next]_vars => Inv'
  BY TypeStep, OverlapStep, ClearStep, OpenOrClosedStep, OneValueStep DEF Inv
<1> QED
  BY <1>1, InitInv, PTL DEF Spec

(* Every field keeps its type, for any turns, predicates and values. *)
THEOREM TypesAreCorrect == Spec => []TypeOK
<1>1. Inv => TypeOK
  BY DEF Inv
<1> QED
  BY <1>1, InvIsInvariant, PTL

(* recordFact: however many turns there are and whatever fails, two values of
   a single-valued predicate are both active only after a disturbance. *)
THEOREM DisturbanceAloneLeavesTwoValues == Spec => []OneValueUnlessRough
<1>1. Inv => OneValueUnlessRough
  BY DEF Inv
<1> QED
  BY <1>1, InvIsInvariant, PTL

(* The close-out and the MERGE: a fact once closed stays closed, and a fact of
   a multi-valued predicate stays active, whatever overlaps or fails. *)
THEOREM ThePastIsKept == Spec => HistoryIsKept
<1> DEFINE Kept == /\ closed \subseteq closed'
                   /\ open' \intersect closed = {}
                   /\ \A f \in open : f.pred \notin Single => f \in open'
<1>1. ASSUME Inv, [Next]_vars
      PROVE  Kept
  <2>1. CASE Closes
    BY <1>1, <2>1 DEF Inv, Closes, CloseOut, Contradicting, OpenOrClosed
  <2>2. CASE Adds
    BY <1>1, <2>2 DEF Inv, Adds, OpenOrClosed
  <2>3. CASE UNCHANGED <<open, closed>>
    BY <1>1, <2>3 DEF Inv, OpenOrClosed
  <2> QED
    BY <1>1, <2>1, <2>2, <2>3, GraphWrites DEF Inv
<1>2. Inv /\ [Next]_vars => [Kept]_vars
  BY <1>1
<1> QED
  BY <1>2, InvIsInvariant, PTL DEF Spec, HistoryIsKept

(* student-inbound.mjs recordTurnFacts: until another turn begins, a turn that ran
   undisturbed is remembered as it was said, whatever earlier ones have left. *)
THEOREM AnUndisturbedTurnIsRemembered == Spec => []UndisturbedTurnIsRemembered
<1>1. Init => MemoryInv
  BY DEF Init, MemoryInv, NodesAreOfTurns
<1>2. Inv /\ MemoryInv /\ [Next]_vars => MemoryInv'
  BY MemoryStep
<1>3. Inv /\ MemoryInv => UndisturbedTurnIsRemembered
  <2> SUFFICES ASSUME Inv, MemoryInv,
                      NEW t \in latest \ rough, NEW p \in Single, at[t] = "over",
                      NEW i \in DOMAIN said[t], LastWordOn(said[t], p, i)
               PROVE  Held(p) = {said[t][i].value}
    BY DEF UndisturbedTurnIsRemembered
  <2>1. t \in Turns /\ DOMAIN said[t] = 1..Len(said[t]) /\ Done(t) = Len(said[t])
    BY PlaceInTheList DEF Inv, TypeOK, Done
  <2>2. LastWordSoFar(said[t], Done(t), p, i)
    BY <2>1 DEF LastWordSoFar, LastWordOn
  <2>3. IsTheValue(p, said[t][i].value)
    BY <2>1, <2>2 DEF MemoryInv, SmoothTurn, IsRemembered, Settled
  <2> QED
    BY <2>3 DEF IsTheValue, Held
<1> QED
  BY <1>1, <1>2, <1>3, InvIsInvariant, PTL DEF Spec
=============================================================================

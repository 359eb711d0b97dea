-------------------------- MODULE InboundMailProofs --------------------------
(***************************************************************************)
(* What holds of InboundMail for any number of mails, and for any timeouts *)
(* that keep the latency budget: the types, that the handoff timer never   *)
(* cuts off an answer, that no finished mail is unaccounted for, and that  *)
(* what is kept stays kept.                                                *)
(***************************************************************************)
EXTENDS InboundMail, TLAPS

(* The clocks of a handoff: nothing is spent before it, and each part stays
   within its limit until the startup Worker has gone silent. *)
ClocksWithinLimits(m) ==
    /\ mail[m] # "wait" => spent[m] = NothingSpent
    /\ mail[m] = "wait" /\ startup[m] # "hung" =>
          /\ spent[m]["resolve"] <= ResolveTimeout
          /\ spent[m]["insert"] <= InsertTimeout
          /\ spent[m]["other"] <= Overhead
    /\ mail[m] \in {"idle", "handoff"} => m \notin timedOut /\ startup[m] = "none"
    /\ m \in timedOut => startup[m] = "hung"

(* How far the servers have got with a mail bounds what they have stored. *)
ServersInStep(m) ==
    /\ startup[m] \in {"none", "receive", "resolve", "parse"} => proxy[m] = "none"
    /\ startup[m] = "ok" => proxy[m] = "inserted"
    /\ fly[m] # "none" => stamp[m] \in 0..MaxClock
    /\ fly[m] \in {"event", "ok"} => rows[stamp[m]] # None
    /\ mail[m] \in {"read", "sign", "post"} => m \in Conversations

AccountedFor(m) ==
    Kept(m) \/ m \in notForwarded \/ m \in unread \/ Shadowed(m)

FinishedIsAccountedFor(m) ==
    /\ mail[m] \in {"audit", "ping"} => m \in forwarded \union notForwarded
    /\ mail[m] = "done" => AccountedFor(m)

Inv ==
    /\ TypeOK
    /\ \A m \in Mails :
          ClocksWithinLimits(m) /\ ServersInStep(m) /\ FinishedIsAccountedFor(m)

-----------------------------------------------------------------------------
(***************************************************************************)
(* Nothing has arrived and nothing is spent at the start.                  *)
(***************************************************************************)
LEMMA InitEstablishesInv == Init => Inv
  BY NoneAssumption, TimesAreNat
     DEF Init, Inv, TypeOK, ClocksWithinLimits, ServersInStep,
         FinishedIsAccountedFor, NothingSpent

(***************************************************************************)
(* Every step of every server keeps the types.                             *)
(***************************************************************************)
LEMMA StepKeepsTypes ==
  ASSUME Inv, [Next]_vars
  PROVE  TypeOK'
<1>0. TypeOK /\ \A n \in Mails : ServersInStep(n)
  BY DEF Inv
<1>1. CASE UNCHANGED vars
  BY <1>0, <1>1 DEF vars, TypeOK, handoffVars, flyVars, operatorVars
<1>2. ASSUME NEW n \in Mails, Receive(n)
      PROVE  TypeOK'
  BY <1>2, <1>0 DEF Receive, Go, TypeOK, NothingSpent, handoffVars, flyVars, operatorVars
<1>3. ASSUME NEW n \in Mails, NEW readable \in BOOLEAN, ReadBody(n, readable)
      PROVE  TypeOK'
  BY <1>3, <1>0 DEF ReadBody, Go, TypeOK, NothingSpent, handoffVars, flyVars, operatorVars
<1>4. ASSUME NEW n \in Mails, Post(n)
      PROVE  TypeOK'
  BY <1>4, <1>0 DEF Post, Go, SendToFly, TypeOK, NothingSpent, handoffVars, flyVars, operatorVars
<1>5. ASSUME NEW n \in Mails, SignFails(n)
      PROVE  TypeOK'
  BY <1>5, <1>0 DEF SignFails, Go, TypeOK, NothingSpent, handoffVars, flyVars, operatorVars
<1>6. ASSUME NEW n \in Mails, PostAnswered(n)
      PROVE  TypeOK'
  BY <1>6, <1>0 DEF PostAnswered, Go, TypeOK, NothingSpent, handoffVars, flyVars, operatorVars
<1>7. ASSUME NEW n \in Mails, PostLost(n)
      PROVE  TypeOK'
  BY <1>7, <1>0 DEF PostLost, Go, TypeOK, NothingSpent, handoffVars, flyVars, operatorVars
<1>8. ASSUME NEW n \in Mails, NEW accepted \in BOOLEAN, Forward(n, accepted)
      PROVE  TypeOK'
  BY <1>8, <1>0 DEF Forward, Go, TypeOK, NothingSpent, handoffVars, flyVars, operatorVars
<1>9. ASSUME NEW n \in Mails, AuditPing(n)
      PROVE  TypeOK'
  BY <1>9, <1>0 DEF AuditPing, Go, SendToFly, TypeOK, NothingSpent, handoffVars, flyVars, operatorVars
<1>10. ASSUME NEW n \in Mails, AuditEnds(n)
      PROVE  TypeOK'
  BY <1>10, <1>0 DEF AuditEnds, Go, TypeOK, NothingSpent, handoffVars, flyVars, operatorVars
<1>11. ASSUME NEW n \in Mails, HandoffSkipped(n)
      PROVE  TypeOK'
  BY <1>11, <1>0 DEF HandoffSkipped, Go, TypeOK, NothingSpent, handoffVars, flyVars, operatorVars
<1>12. ASSUME NEW n \in Mails, HandoffPost(n)
      PROVE  TypeOK'
  BY <1>12, <1>0 DEF HandoffPost, Go, TypeOK, NothingSpent, handoffVars, flyVars, operatorVars
<1>13. ASSUME NEW n \in Mails, HandoffAnswered(n)
      PROVE  TypeOK'
  BY <1>13, <1>0 DEF HandoffAnswered, Go, TimerStops, TypeOK, NothingSpent, handoffVars, flyVars, operatorVars
<1>14. ASSUME NEW n \in Mails, HandoffLost(n)
      PROVE  TypeOK'
  BY <1>14, <1>0 DEF HandoffLost, Go, TimerStops, TypeOK, NothingSpent, handoffVars, flyVars, operatorVars
<1>15. ASSUME NEW n \in Mails, HandoffTimesOut(n)
      PROVE  TypeOK'
  BY <1>15, <1>0 DEF HandoffTimesOut, Go, TimerStops, TypeOK, NothingSpent, handoffVars, flyVars, operatorVars
<1>16. ASSUME NEW n \in Mails, FlyInsert(n)
      PROVE  TypeOK'
  BY <1>16, <1>0 DEF FlyInsert, TypeOK, NothingSpent, handoffVars, flyVars, operatorVars
<1>17. ASSUME NEW n \in Mails, FlyEvent(n)
      PROVE  TypeOK'
  BY <1>17, <1>0 DEF FlyEvent, TypeOK, NothingSpent, handoffVars, flyVars, operatorVars
<1>18. ASSUME NEW n \in Mails, FlyFails(n)
      PROVE  TypeOK'
  BY <1>18, <1>0 DEF FlyFails, TypeOK, NothingSpent, handoffVars, flyVars, operatorVars
<1>19. ASSUME NEW n \in Mails, StartupFails(n)
      PROVE  TypeOK'
  BY <1>19, <1>0 DEF StartupFails, StartupGoes, TypeOK, NothingSpent, handoffVars, flyVars, operatorVars
<1>20. ASSUME NEW n \in Mails, StartupAccepts(n)
      PROVE  TypeOK'
  BY <1>20, <1>0 DEF StartupAccepts, StartupGoes, TypeOK, NothingSpent, handoffVars, flyVars, operatorVars
<1>21. ASSUME NEW n \in Mails, Resolved(n)
      PROVE  TypeOK'
  BY <1>21, <1>0 DEF Resolved, StartupGoes, TypeOK, NothingSpent, handoffVars, flyVars, operatorVars
<1>22. ASSUME NEW n \in Mails, Parsed(n)
      PROVE  TypeOK'
  BY <1>22, <1>0 DEF Parsed, StartupGoes, TypeOK, NothingSpent, handoffVars, flyVars, operatorVars
<1>23. ASSUME NEW n \in Mails, Inserted(n)
      PROVE  TypeOK'
  BY <1>23, <1>0 DEF Inserted, StartupGoes, TypeOK, NothingSpent, handoffVars, flyVars, operatorVars
<1>24. ASSUME NEW n \in Mails, Hang(n)
      PROVE  TypeOK'
  BY <1>24, <1>0 DEF Hang, StartupGoes, TypeOK, NothingSpent, handoffVars, flyVars, operatorVars
<1>25. ASSUME NEW n \in Mails, NEW outcome \in {"inserted", "failed"}, ProxyAnswers(n, outcome)
      PROVE  TypeOK'
  BY <1>25, <1>0 DEF ProxyAnswers, TypeOK, NothingSpent, handoffVars, flyVars, operatorVars
<1>26. ASSUME NEW n \in Mails, Passes(n)
      PROVE  TypeOK'
  BY <1>26, <1>0 DEF Passes, PartOf, TypeOK, NothingSpent, handoffVars, flyVars, operatorVars
<1>27. CASE Tick
  BY <1>0, <1>27, TimesAreNat DEF Tick, TypeOK, handoffVars, flyVars, operatorVars
<1>28. QED
  BY <1>1, <1>2, <1>3, <1>4, <1>5, <1>6, <1>7, <1>8, <1>9, <1>10, <1>11, <1>12, <1>13, <1>14, <1>15, <1>16, <1>17, <1>18, <1>19, <1>20, <1>21, <1>22, <1>23, <1>24, <1>25, <1>26, <1>27 DEF Next, EmailWorker, Fly, StartupWorker

(***************************************************************************)
(* No step lets a part of a handoff outlast its limit while the startup    *)
(* Worker is alive; under the latency budget the timer therefore finds it  *)
(* silent.                                                                 *)
(***************************************************************************)
LEMMA StepKeepsClocks ==
  ASSUME Inv, [Next]_vars, NEW m \in Mails
  PROVE  ClocksWithinLimits(m)'
<1>0. TypeOK /\ \A k \in Mails : ClocksWithinLimits(k)
  BY DEF Inv
<1>1. CASE UNCHANGED vars
  BY <1>0, <1>1
     DEF vars, handoffVars, flyVars, operatorVars, ClocksWithinLimits,
         NothingSpent
<1>2. ASSUME NEW n \in Mails, Receive(n)
      PROVE  ClocksWithinLimits(m)'
  BY <1>0, <1>2, TimesAreNat, LatencyBudget
     DEF Receive, Go, handoffVars, flyVars, operatorVars, TypeOK,
         ClocksWithinLimits, NothingSpent
<1>3. ASSUME NEW n \in Mails, NEW readable \in BOOLEAN, ReadBody(n, readable)
      PROVE  ClocksWithinLimits(m)'
  BY <1>0, <1>3, TimesAreNat, LatencyBudget
     DEF ReadBody, Go, handoffVars, flyVars, operatorVars, TypeOK,
         ClocksWithinLimits, NothingSpent
<1>4. ASSUME NEW n \in Mails, Post(n)
      PROVE  ClocksWithinLimits(m)'
  BY <1>0, <1>4, TimesAreNat, LatencyBudget
     DEF Post, Go, SendToFly, handoffVars, flyVars, operatorVars, TypeOK,
         ClocksWithinLimits, NothingSpent
<1>5. ASSUME NEW n \in Mails, SignFails(n)
      PROVE  ClocksWithinLimits(m)'
  BY <1>0, <1>5, TimesAreNat, LatencyBudget
     DEF SignFails, Go, handoffVars, flyVars, operatorVars, TypeOK,
         ClocksWithinLimits, NothingSpent
<1>6. ASSUME NEW n \in Mails, PostAnswered(n)
      PROVE  ClocksWithinLimits(m)'
  BY <1>0, <1>6, TimesAreNat, LatencyBudget
     DEF PostAnswered, Go, handoffVars, flyVars, operatorVars, TypeOK,
         ClocksWithinLimits, NothingSpent
<1>7. ASSUME NEW n \in Mails, PostLost(n)
      PROVE  ClocksWithinLimits(m)'
  BY <1>0, <1>7, TimesAreNat, LatencyBudget
     DEF PostLost, Go, handoffVars, flyVars, operatorVars, TypeOK,
         ClocksWithinLimits, NothingSpent
<1>8. ASSUME NEW n \in Mails, NEW accepted \in BOOLEAN, Forward(n, accepted)
      PROVE  ClocksWithinLimits(m)'
  BY <1>0, <1>8, TimesAreNat, LatencyBudget
     DEF Forward, Go, handoffVars, flyVars, operatorVars, TypeOK,
         ClocksWithinLimits, NothingSpent
<1>9. ASSUME NEW n \in Mails, AuditPing(n)
      PROVE  ClocksWithinLimits(m)'
  BY <1>0, <1>9, TimesAreNat, LatencyBudget
     DEF AuditPing, Go, SendToFly, handoffVars, flyVars, operatorVars, TypeOK,
         ClocksWithinLimits, NothingSpent
<1>10. ASSUME NEW n \in Mails, AuditEnds(n)
      PROVE  ClocksWithinLimits(m)'
  BY <1>0, <1>10, TimesAreNat, LatencyBudget
     DEF AuditEnds, Go, handoffVars, flyVars, operatorVars, TypeOK,
         ClocksWithinLimits, NothingSpent
<1>11. ASSUME NEW n \in Mails, HandoffSkipped(n)
      PROVE  ClocksWithinLimits(m)'
  BY <1>0, <1>11, TimesAreNat, LatencyBudget
     DEF HandoffSkipped, Go, handoffVars, flyVars, operatorVars, TypeOK,
         ClocksWithinLimits, NothingSpent
<1>12. ASSUME NEW n \in Mails, HandoffPost(n)
      PROVE  ClocksWithinLimits(m)'
  BY <1>0, <1>12, TimesAreNat, LatencyBudget
     DEF HandoffPost, Go, handoffVars, flyVars, operatorVars, TypeOK,
         ClocksWithinLimits, NothingSpent
<1>13. ASSUME NEW n \in Mails, HandoffAnswered(n)
      PROVE  ClocksWithinLimits(m)'
  BY <1>0, <1>13, TimesAreNat, LatencyBudget
     DEF HandoffAnswered, Go, TimerStops, handoffVars, flyVars, operatorVars,
         TypeOK, ClocksWithinLimits, NothingSpent
<1>14. ASSUME NEW n \in Mails, HandoffLost(n)
      PROVE  ClocksWithinLimits(m)'
  BY <1>0, <1>14, TimesAreNat, LatencyBudget
     DEF HandoffLost, Go, TimerStops, handoffVars, flyVars, operatorVars,
         TypeOK, ClocksWithinLimits, NothingSpent
<1>15. ASSUME NEW n \in Mails, HandoffTimesOut(n)
      PROVE  ClocksWithinLimits(m)'
  BY <1>0, <1>15, TimesAreNat, LatencyBudget
     DEF HandoffTimesOut, Go, TimerStops, Elapsed, handoffVars, flyVars,
         operatorVars, TypeOK, ClocksWithinLimits, NothingSpent
<1>16. ASSUME NEW n \in Mails, FlyInsert(n)
      PROVE  ClocksWithinLimits(m)'
  BY <1>0, <1>16, TimesAreNat, LatencyBudget
     DEF FlyInsert, handoffVars, flyVars, operatorVars, TypeOK,
         ClocksWithinLimits, NothingSpent
<1>17. ASSUME NEW n \in Mails, FlyEvent(n)
      PROVE  ClocksWithinLimits(m)'
  BY <1>0, <1>17, TimesAreNat, LatencyBudget
     DEF FlyEvent, handoffVars, flyVars, operatorVars, TypeOK,
         ClocksWithinLimits, NothingSpent
<1>18. ASSUME NEW n \in Mails, FlyFails(n)
      PROVE  ClocksWithinLimits(m)'
  BY <1>0, <1>18, TimesAreNat, LatencyBudget
     DEF FlyFails, handoffVars, flyVars, operatorVars, TypeOK,
         ClocksWithinLimits, NothingSpent
<1>19. ASSUME NEW n \in Mails, StartupFails(n)
      PROVE  ClocksWithinLimits(m)'
  BY <1>0, <1>19, TimesAreNat, LatencyBudget
     DEF StartupFails, StartupGoes, handoffVars, flyVars, operatorVars,
         TypeOK, ClocksWithinLimits, NothingSpent
<1>20. ASSUME NEW n \in Mails, StartupAccepts(n)
      PROVE  ClocksWithinLimits(m)'
  BY <1>0, <1>20, TimesAreNat, LatencyBudget
     DEF StartupAccepts, StartupGoes, handoffVars, flyVars, operatorVars,
         TypeOK, ClocksWithinLimits, NothingSpent
<1>21. ASSUME NEW n \in Mails, Resolved(n)
      PROVE  ClocksWithinLimits(m)'
  BY <1>0, <1>21, TimesAreNat, LatencyBudget
     DEF Resolved, StartupGoes, handoffVars, flyVars, operatorVars, TypeOK,
         ClocksWithinLimits, NothingSpent
<1>22. ASSUME NEW n \in Mails, Parsed(n)
      PROVE  ClocksWithinLimits(m)'
  BY <1>0, <1>22, TimesAreNat, LatencyBudget
     DEF Parsed, StartupGoes, handoffVars, flyVars, operatorVars, TypeOK,
         ClocksWithinLimits, NothingSpent
<1>23. ASSUME NEW n \in Mails, Inserted(n)
      PROVE  ClocksWithinLimits(m)'
  BY <1>0, <1>23, TimesAreNat, LatencyBudget
     DEF Inserted, StartupGoes, handoffVars, flyVars, operatorVars, TypeOK,
         ClocksWithinLimits, NothingSpent
<1>24. ASSUME NEW n \in Mails, Hang(n)
      PROVE  ClocksWithinLimits(m)'
  BY <1>0, <1>24, TimesAreNat, LatencyBudget
     DEF Hang, StartupGoes, handoffVars, flyVars, operatorVars, TypeOK,
         ClocksWithinLimits, NothingSpent
<1>25. ASSUME NEW n \in Mails,
             NEW outcome \in {"inserted", "failed"}, ProxyAnswers(n, outcome)
      PROVE  ClocksWithinLimits(m)'
  BY <1>0, <1>25, TimesAreNat, LatencyBudget
     DEF ProxyAnswers, handoffVars, flyVars, operatorVars, TypeOK,
         ClocksWithinLimits, NothingSpent
<1>26. ASSUME NEW n \in Mails, Passes(n)
      PROVE  ClocksWithinLimits(m)'
  <2>1. CASE m # n
    BY <1>0, <1>26, <2>1
       DEF Passes, handoffVars, flyVars, operatorVars, TypeOK,
           ClocksWithinLimits, NothingSpent
  <2>2. CASE m = n
    <3> DEFINE part == PartOf(startup[m])
    <3>1. /\ mail[m] = "wait"
          /\ startup[m] # "hung" => spent[m][part] < Limit(startup[m])
          /\ spent' = [spent EXCEPT ![m][part] = @ + 1]
          /\ UNCHANGED <<mail, startup, timedOut>>
      BY <1>26, <2>2 DEF Passes
    <3>2. part \in {"resolve", "insert", "other"}
      BY DEF PartOf
    <3>3. /\ spent[m] \in [{"resolve", "insert", "other"} -> Nat]
          /\ spent'[m] = [spent[m] EXCEPT ![part] = @ + 1]
      BY <1>0, <3>1, <3>2 DEF TypeOK
    <3> HIDE DEF part
    <3>4. \A p \in {"resolve", "insert", "other"} :
             spent'[m][p] = IF p = part THEN spent[m][p] + 1 ELSE spent[m][p]
      BY <3>2, <3>3
    <3>5. ASSUME startup[m] # "hung"
          PROVE  /\ spent'[m]["resolve"] <= ResolveTimeout
                 /\ spent'[m]["insert"] <= InsertTimeout
                 /\ spent'[m]["other"] <= Overhead
      <4>1. /\ spent[m]["resolve"] <= ResolveTimeout
            /\ spent[m]["insert"] <= InsertTimeout
            /\ spent[m]["other"] <= Overhead
        BY <1>0, <3>1, <3>5 DEF ClocksWithinLimits
      <4>2. part = "resolve" => spent[m]["resolve"] < ResolveTimeout
        BY <3>1, <3>5 DEF part, PartOf, Limit
      <4>3. part = "insert" => spent[m]["insert"] < InsertTimeout
        BY <3>1, <3>5 DEF part, PartOf, Limit
      <4>4. part = "other" => spent[m]["other"] < Overhead
        BY <3>1, <3>5 DEF part, PartOf, Limit
      <4>5. QED
        BY <3>2, <3>3, <3>4, <4>1, <4>2, <4>3, <4>4, TimesAreNat
    <3>6. QED
      BY <1>0, <3>1, <3>5 DEF ClocksWithinLimits
  <2>3. QED
    BY <2>1, <2>2
<1>27. CASE Tick
  BY <1>0, <1>27
     DEF Tick, handoffVars, flyVars, operatorVars, ClocksWithinLimits,
         NothingSpent
<1>28. QED
  BY <1>1, <1>2, <1>3, <1>4, <1>5, <1>6, <1>7, <1>8, <1>9, <1>10, <1>11,
     <1>12, <1>13, <1>14, <1>15, <1>16, <1>17, <1>18, <1>19, <1>20, <1>21,
     <1>22, <1>23, <1>24, <1>25, <1>26, <1>27
     DEF Next, EmailWorker, Fly, StartupWorker

(***************************************************************************)
(* What the servers have stored stays in step with how far they have got.  *)
(***************************************************************************)
LEMMA StepKeepsServers ==
  ASSUME Inv, [Next]_vars, NEW m \in Mails
  PROVE  ServersInStep(m)'
<1>0. TypeOK /\ \A k \in Mails : ServersInStep(k) /\ ClocksWithinLimits(k)
  BY DEF Inv
<1>1. CASE UNCHANGED vars
  BY <1>0, <1>1
     DEF vars, handoffVars, flyVars, operatorVars, ServersInStep
<1>2. ASSUME NEW n \in Mails, Receive(n)
      PROVE  ServersInStep(m)'
  BY <1>0, <1>2, NoneAssumption, AddressesAssumption
     DEF Receive, Go, handoffVars, flyVars, operatorVars, TypeOK,
         ServersInStep
<1>3. ASSUME NEW n \in Mails, NEW readable \in BOOLEAN, ReadBody(n, readable)
      PROVE  ServersInStep(m)'
  BY <1>0, <1>3, NoneAssumption, AddressesAssumption
     DEF ReadBody, Go, handoffVars, flyVars, operatorVars, TypeOK,
         ServersInStep
<1>4. ASSUME NEW n \in Mails, Post(n)
      PROVE  ServersInStep(m)'
  BY <1>0, <1>4, NoneAssumption, AddressesAssumption
     DEF Post, Go, SendToFly, handoffVars, flyVars, operatorVars, TypeOK,
         ServersInStep
<1>5. ASSUME NEW n \in Mails, SignFails(n)
      PROVE  ServersInStep(m)'
  BY <1>0, <1>5, NoneAssumption, AddressesAssumption
     DEF SignFails, Go, handoffVars, flyVars, operatorVars, TypeOK,
         ServersInStep
<1>6. ASSUME NEW n \in Mails, PostAnswered(n)
      PROVE  ServersInStep(m)'
  BY <1>0, <1>6, NoneAssumption, AddressesAssumption
     DEF PostAnswered, Go, handoffVars, flyVars, operatorVars, TypeOK,
         ServersInStep
<1>7. ASSUME NEW n \in Mails, PostLost(n)
      PROVE  ServersInStep(m)'
  BY <1>0, <1>7, NoneAssumption, AddressesAssumption
     DEF PostLost, Go, handoffVars, flyVars, operatorVars, TypeOK,
         ServersInStep
<1>8. ASSUME NEW n \in Mails, NEW accepted \in BOOLEAN, Forward(n, accepted)
      PROVE  ServersInStep(m)'
  BY <1>0, <1>8, NoneAssumption, AddressesAssumption
     DEF Forward, Go, handoffVars, flyVars, operatorVars, TypeOK,
         ServersInStep
<1>9. ASSUME NEW n \in Mails, AuditPing(n)
      PROVE  ServersInStep(m)'
  BY <1>0, <1>9, NoneAssumption, AddressesAssumption
     DEF AuditPing, Go, SendToFly, handoffVars, flyVars, operatorVars, TypeOK,
         ServersInStep
<1>10. ASSUME NEW n \in Mails, AuditEnds(n)
      PROVE  ServersInStep(m)'
  BY <1>0, <1>10, NoneAssumption, AddressesAssumption
     DEF AuditEnds, Go, handoffVars, flyVars, operatorVars, TypeOK,
         ServersInStep
<1>11. ASSUME NEW n \in Mails, HandoffSkipped(n)
      PROVE  ServersInStep(m)'
  BY <1>0, <1>11, NoneAssumption, AddressesAssumption
     DEF HandoffSkipped, Go, handoffVars, flyVars, operatorVars, TypeOK,
         ServersInStep
<1>12. ASSUME NEW n \in Mails, HandoffPost(n)
      PROVE  ServersInStep(m)'
  <2>1. startup[n] = "none" /\ proxy[n] = "none"
    BY <1>0, <1>12 DEF HandoffPost, ServersInStep, ClocksWithinLimits
  <2>2. QED
    BY <1>0, <1>12, <2>1
       DEF HandoffPost, Go, flyVars, operatorVars, TypeOK, ServersInStep
<1>13. ASSUME NEW n \in Mails, HandoffAnswered(n)
      PROVE  ServersInStep(m)'
  BY <1>0, <1>13, NoneAssumption, AddressesAssumption
     DEF HandoffAnswered, Go, TimerStops, handoffVars, flyVars, operatorVars,
         TypeOK, ServersInStep
<1>14. ASSUME NEW n \in Mails, HandoffLost(n)
      PROVE  ServersInStep(m)'
  BY <1>0, <1>14, NoneAssumption, AddressesAssumption
     DEF HandoffLost, Go, TimerStops, handoffVars, flyVars, operatorVars,
         TypeOK, ServersInStep
<1>15. ASSUME NEW n \in Mails, HandoffTimesOut(n)
      PROVE  ServersInStep(m)'
  BY <1>0, <1>15, NoneAssumption, AddressesAssumption
     DEF HandoffTimesOut, Go, TimerStops, Elapsed, handoffVars, flyVars,
         operatorVars, TypeOK, ServersInStep
<1>16. ASSUME NEW n \in Mails, FlyInsert(n)
      PROVE  ServersInStep(m)'
  BY <1>0, <1>16, NoneAssumption, AddressesAssumption
     DEF FlyInsert, handoffVars, flyVars, operatorVars, TypeOK, ServersInStep
<1>17. ASSUME NEW n \in Mails, FlyEvent(n)
      PROVE  ServersInStep(m)'
  BY <1>0, <1>17, NoneAssumption, AddressesAssumption
     DEF FlyEvent, handoffVars, flyVars, operatorVars, TypeOK, ServersInStep
<1>18. ASSUME NEW n \in Mails, FlyFails(n)
      PROVE  ServersInStep(m)'
  BY <1>0, <1>18, NoneAssumption, AddressesAssumption
     DEF FlyFails, handoffVars, flyVars, operatorVars, TypeOK, ServersInStep
<1>19. ASSUME NEW n \in Mails, StartupFails(n)
      PROVE  ServersInStep(m)'
  BY <1>0, <1>19, NoneAssumption, AddressesAssumption
     DEF StartupFails, StartupGoes, handoffVars, flyVars, operatorVars,
         TypeOK, ServersInStep
<1>20. ASSUME NEW n \in Mails, StartupAccepts(n)
      PROVE  ServersInStep(m)'
  BY <1>0, <1>20, NoneAssumption, AddressesAssumption
     DEF StartupAccepts, StartupGoes, handoffVars, flyVars, operatorVars,
         TypeOK, ServersInStep
<1>21. ASSUME NEW n \in Mails, Resolved(n)
      PROVE  ServersInStep(m)'
  BY <1>0, <1>21, NoneAssumption, AddressesAssumption
     DEF Resolved, StartupGoes, handoffVars, flyVars, operatorVars, TypeOK,
         ServersInStep
<1>22. ASSUME NEW n \in Mails, Parsed(n)
      PROVE  ServersInStep(m)'
  BY <1>0, <1>22, NoneAssumption, AddressesAssumption
     DEF Parsed, StartupGoes, handoffVars, flyVars, operatorVars, TypeOK,
         ServersInStep
<1>23. ASSUME NEW n \in Mails, Inserted(n)
      PROVE  ServersInStep(m)'
  BY <1>0, <1>23, NoneAssumption, AddressesAssumption
     DEF Inserted, StartupGoes, handoffVars, flyVars, operatorVars, TypeOK,
         ServersInStep
<1>24. ASSUME NEW n \in Mails, Hang(n)
      PROVE  ServersInStep(m)'
  BY <1>0, <1>24, NoneAssumption, AddressesAssumption
     DEF Hang, StartupGoes, handoffVars, flyVars, operatorVars, TypeOK,
         ServersInStep
<1>25. ASSUME NEW n \in Mails,
             NEW outcome \in {"inserted", "failed"}, ProxyAnswers(n, outcome)
      PROVE  ServersInStep(m)'
  BY <1>0, <1>25, NoneAssumption, AddressesAssumption
     DEF ProxyAnswers, handoffVars, flyVars, operatorVars, TypeOK,
         ServersInStep
<1>26. ASSUME NEW n \in Mails, Passes(n)
      PROVE  ServersInStep(m)'
  BY <1>0, <1>26, NoneAssumption, AddressesAssumption
     DEF Passes, PartOf, Limit, handoffVars, flyVars, operatorVars, TypeOK,
         ServersInStep
<1>27. CASE Tick
  BY <1>0, <1>27
     DEF Tick, handoffVars, flyVars, operatorVars, ServersInStep
<1>28. QED
  BY <1>1, <1>2, <1>3, <1>4, <1>5, <1>6, <1>7, <1>8, <1>9, <1>10, <1>11,
     <1>12, <1>13, <1>14, <1>15, <1>16, <1>17, <1>18, <1>19, <1>20, <1>21,
     <1>22, <1>23, <1>24, <1>25, <1>26, <1>27
     DEF Next, EmailWorker, Fly, StartupWorker

(***************************************************************************)
(* What accounts for a finished mail is never taken back.                  *)
(***************************************************************************)
LEMMA StepKeepsAccounts ==
  ASSUME Inv, [Next]_vars, NEW m \in Mails
  PROVE  FinishedIsAccountedFor(m)'
<1>0. TypeOK /\ \A k \in Mails : FinishedIsAccountedFor(k) /\ ServersInStep(k)
  BY DEF Inv
<1>1. CASE UNCHANGED vars
  BY <1>0, <1>1
     DEF vars, handoffVars, flyVars, operatorVars, FinishedIsAccountedFor,
         AccountedFor, Kept, Shadowed, ServersInStep
<1>2. ASSUME NEW n \in Mails, Receive(n)
      PROVE  FinishedIsAccountedFor(m)'
  BY <1>0, <1>2, NoneAssumption
     DEF Receive, Go, handoffVars, flyVars, operatorVars, TypeOK,
         FinishedIsAccountedFor, AccountedFor, Kept, Shadowed, ServersInStep
<1>3. ASSUME NEW n \in Mails, NEW readable \in BOOLEAN, ReadBody(n, readable)
      PROVE  FinishedIsAccountedFor(m)'
  BY <1>0, <1>3, NoneAssumption
     DEF ReadBody, Go, handoffVars, flyVars, operatorVars, TypeOK,
         FinishedIsAccountedFor, AccountedFor, Kept, Shadowed, ServersInStep
<1>4. ASSUME NEW n \in Mails, Post(n)
      PROVE  FinishedIsAccountedFor(m)'
  BY <1>0, <1>4, NoneAssumption
     DEF Post, Go, SendToFly, handoffVars, flyVars, operatorVars, TypeOK,
         FinishedIsAccountedFor, AccountedFor, Kept, Shadowed, ServersInStep
<1>5. ASSUME NEW n \in Mails, SignFails(n)
      PROVE  FinishedIsAccountedFor(m)'
  BY <1>0, <1>5, NoneAssumption
     DEF SignFails, Go, handoffVars, flyVars, operatorVars, TypeOK,
         FinishedIsAccountedFor, AccountedFor, Kept, Shadowed, ServersInStep
<1>6. ASSUME NEW n \in Mails, PostAnswered(n)
      PROVE  FinishedIsAccountedFor(m)'
  BY <1>0, <1>6, NoneAssumption
     DEF PostAnswered, Go, handoffVars, flyVars, operatorVars, TypeOK,
         FinishedIsAccountedFor, AccountedFor, Kept, Shadowed, ServersInStep
<1>7. ASSUME NEW n \in Mails, PostLost(n)
      PROVE  FinishedIsAccountedFor(m)'
  BY <1>0, <1>7, NoneAssumption
     DEF PostLost, Go, handoffVars, flyVars, operatorVars, TypeOK,
         FinishedIsAccountedFor, AccountedFor, Kept, Shadowed, ServersInStep
<1>8. ASSUME NEW n \in Mails, NEW accepted \in BOOLEAN, Forward(n, accepted)
      PROVE  FinishedIsAccountedFor(m)'
  BY <1>0, <1>8, NoneAssumption
     DEF Forward, Go, handoffVars, flyVars, operatorVars, TypeOK,
         FinishedIsAccountedFor, AccountedFor, Kept, Shadowed, ServersInStep
<1>9. ASSUME NEW n \in Mails, AuditPing(n)
      PROVE  FinishedIsAccountedFor(m)'
  BY <1>0, <1>9, NoneAssumption
     DEF AuditPing, Go, SendToFly, handoffVars, flyVars, operatorVars, TypeOK,
         FinishedIsAccountedFor, AccountedFor, Kept, Shadowed, ServersInStep
<1>10. ASSUME NEW n \in Mails, AuditEnds(n)
      PROVE  FinishedIsAccountedFor(m)'
  BY <1>0, <1>10, NoneAssumption
     DEF AuditEnds, Go, handoffVars, flyVars, operatorVars, TypeOK,
         FinishedIsAccountedFor, AccountedFor, Kept, Shadowed, ServersInStep
<1>11. ASSUME NEW n \in Mails, HandoffSkipped(n)
      PROVE  FinishedIsAccountedFor(m)'
  BY <1>0, <1>11, NoneAssumption
     DEF HandoffSkipped, Go, handoffVars, flyVars, operatorVars, TypeOK,
         FinishedIsAccountedFor, AccountedFor, Kept, Shadowed, ServersInStep
<1>12. ASSUME NEW n \in Mails, HandoffPost(n)
      PROVE  FinishedIsAccountedFor(m)'
  BY <1>0, <1>12, NoneAssumption
     DEF HandoffPost, Go, handoffVars, flyVars, operatorVars, TypeOK,
         FinishedIsAccountedFor, AccountedFor, Kept, Shadowed, ServersInStep
<1>13. ASSUME NEW n \in Mails, HandoffAnswered(n)
      PROVE  FinishedIsAccountedFor(m)'
  BY <1>0, <1>13, NoneAssumption
     DEF HandoffAnswered, Go, TimerStops, handoffVars, flyVars, operatorVars,
         TypeOK, FinishedIsAccountedFor, AccountedFor, Kept, Shadowed,
         ServersInStep
<1>14. ASSUME NEW n \in Mails, HandoffLost(n)
      PROVE  FinishedIsAccountedFor(m)'
  BY <1>0, <1>14, NoneAssumption
     DEF HandoffLost, Go, TimerStops, handoffVars, flyVars, operatorVars,
         TypeOK, FinishedIsAccountedFor, AccountedFor, Kept, Shadowed,
         ServersInStep
<1>15. ASSUME NEW n \in Mails, HandoffTimesOut(n)
      PROVE  FinishedIsAccountedFor(m)'
  BY <1>0, <1>15, NoneAssumption
     DEF HandoffTimesOut, Go, TimerStops, Elapsed, handoffVars, flyVars,
         operatorVars, TypeOK, FinishedIsAccountedFor, AccountedFor, Kept,
         Shadowed, ServersInStep
<1>16. ASSUME NEW n \in Mails, FlyInsert(n)
      PROVE  FinishedIsAccountedFor(m)'
  BY <1>0, <1>16, NoneAssumption
     DEF FlyInsert, handoffVars, flyVars, operatorVars, TypeOK,
         FinishedIsAccountedFor, AccountedFor, Kept, Shadowed, ServersInStep
<1>17. ASSUME NEW n \in Mails, FlyEvent(n)
      PROVE  FinishedIsAccountedFor(m)'
  BY <1>0, <1>17, NoneAssumption
     DEF FlyEvent, handoffVars, flyVars, operatorVars, TypeOK,
         FinishedIsAccountedFor, AccountedFor, Kept, Shadowed, ServersInStep
<1>18. ASSUME NEW n \in Mails, FlyFails(n)
      PROVE  FinishedIsAccountedFor(m)'
  BY <1>0, <1>18, NoneAssumption
     DEF FlyFails, handoffVars, flyVars, operatorVars, TypeOK,
         FinishedIsAccountedFor, AccountedFor, Kept, Shadowed, ServersInStep
<1>19. ASSUME NEW n \in Mails, StartupFails(n)
      PROVE  FinishedIsAccountedFor(m)'
  BY <1>0, <1>19, NoneAssumption
     DEF StartupFails, StartupGoes, handoffVars, flyVars, operatorVars,
         TypeOK, FinishedIsAccountedFor, AccountedFor, Kept, Shadowed,
         ServersInStep
<1>20. ASSUME NEW n \in Mails, StartupAccepts(n)
      PROVE  FinishedIsAccountedFor(m)'
  BY <1>0, <1>20, NoneAssumption
     DEF StartupAccepts, StartupGoes, handoffVars, flyVars, operatorVars,
         TypeOK, FinishedIsAccountedFor, AccountedFor, Kept, Shadowed,
         ServersInStep
<1>21. ASSUME NEW n \in Mails, Resolved(n)
      PROVE  FinishedIsAccountedFor(m)'
  BY <1>0, <1>21, NoneAssumption
     DEF Resolved, StartupGoes, handoffVars, flyVars, operatorVars, TypeOK,
         FinishedIsAccountedFor, AccountedFor, Kept, Shadowed, ServersInStep
<1>22. ASSUME NEW n \in Mails, Parsed(n)
      PROVE  FinishedIsAccountedFor(m)'
  BY <1>0, <1>22, NoneAssumption
     DEF Parsed, StartupGoes, handoffVars, flyVars, operatorVars, TypeOK,
         FinishedIsAccountedFor, AccountedFor, Kept, Shadowed, ServersInStep
<1>23. ASSUME NEW n \in Mails, Inserted(n)
      PROVE  FinishedIsAccountedFor(m)'
  BY <1>0, <1>23, NoneAssumption
     DEF Inserted, StartupGoes, handoffVars, flyVars, operatorVars, TypeOK,
         FinishedIsAccountedFor, AccountedFor, Kept, Shadowed, ServersInStep
<1>24. ASSUME NEW n \in Mails, Hang(n)
      PROVE  FinishedIsAccountedFor(m)'
  BY <1>0, <1>24, NoneAssumption
     DEF Hang, StartupGoes, handoffVars, flyVars, operatorVars, TypeOK,
         FinishedIsAccountedFor, AccountedFor, Kept, Shadowed, ServersInStep
<1>25. ASSUME NEW n \in Mails,
             NEW outcome \in {"inserted", "failed"}, ProxyAnswers(n, outcome)
      PROVE  FinishedIsAccountedFor(m)'
  BY <1>0, <1>25, NoneAssumption
     DEF ProxyAnswers, handoffVars, flyVars, operatorVars, TypeOK,
         FinishedIsAccountedFor, AccountedFor, Kept, Shadowed, ServersInStep
<1>26. ASSUME NEW n \in Mails, Passes(n)
      PROVE  FinishedIsAccountedFor(m)'
  BY <1>0, <1>26, NoneAssumption
     DEF Passes, PartOf, Limit, handoffVars, flyVars, operatorVars, TypeOK,
         FinishedIsAccountedFor, AccountedFor, Kept, Shadowed, ServersInStep
<1>27. CASE Tick
  BY <1>0, <1>27
     DEF Tick, handoffVars, flyVars, operatorVars, FinishedIsAccountedFor,
         AccountedFor, Kept, Shadowed, ServersInStep
<1>28. QED
  BY <1>1, <1>2, <1>3, <1>4, <1>5, <1>6, <1>7, <1>8, <1>9, <1>10, <1>11,
     <1>12, <1>13, <1>14, <1>15, <1>16, <1>17, <1>18, <1>19, <1>20, <1>21,
     <1>22, <1>23, <1>24, <1>25, <1>26, <1>27
     DEF Next, EmailWorker, Fly, StartupWorker

-----------------------------------------------------------------------------
(***************************************************************************)
(* Inv is an inductive invariant of InboundMail.                           *)
(***************************************************************************)
THEOREM InvIsInvariant == Spec => []Inv
<1>1. Inv /\ [Next]_vars => Inv'
  BY StepKeepsTypes, StepKeepsClocks, StepKeepsServers, StepKeepsAccounts DEF Inv
<1>2. QED
  BY InitEstablishesInv, <1>1, PTL DEF Spec

(***************************************************************************)
(* Type correctness.                                                       *)
(***************************************************************************)
THEOREM TypesAreCorrect == Spec => []TypeOK
<1>1. Inv => TypeOK
  BY DEF Inv
<1>2. QED
  BY InvIsInvariant, <1>1, PTL

(***************************************************************************)
(* With any timeouts that keep the latency budget, the handoff timer never *)
(* goes off while an answer of the startup Worker is still to come.        *)
(***************************************************************************)
THEOREM TimerNeverCutsOffAnAnswer == Spec => []TimerMeansSilence
<1>1. Inv => TimerMeansSilence
  BY DEF Inv, TypeOK, TimerMeansSilence, ClocksWithinLimits
<1>2. QED
  BY InvIsInvariant, <1>1, PTL

(***************************************************************************)
(* Every mail email() is done with is kept or lost in one of the ways      *)
(* named: forwarding threw, no readable body, or a shared millisecond.     *)
(***************************************************************************)
THEOREM EveryMailIsAccountedFor == Spec => []DoneMailIsAccountedFor
<1>1. Inv => DoneMailIsAccountedFor
  BY DEF Inv, DoneMailIsAccountedFor, FinishedIsAccountedFor, AccountedFor
<1>2. QED
  BY InvIsInvariant, <1>1, PTL

-----------------------------------------------------------------------------
(***************************************************************************)
(* Accounts stay true: whoever has a mail, the operator or a database, has *)
(* it for good.  A retry, a late answer or a second mail of the sender in  *)
(* the same millisecond overwrites nothing (recordEmailInbound's conflict  *)
(* clause, the insert of startup-api), so what email() reported as done    *)
(* does not turn out lost later.                                           *)
(***************************************************************************)
KeptMailStays == [][\A m \in Mails : Kept(m) => Kept(m)']_vars

(* A conversation mail gets its ts once, after its body was read; only the
   others get one with the audit ping. *)
ConversationWay ==
    \A m \in Conversations :
        /\ mail[m] \in {"idle", "read", "sign", "post", "forward", "done"}
        /\ stamp[m] # None => mail[m] \in {"post", "forward", "done"}

LEMMA StepKeepsConversationWay ==
  ASSUME Inv, ConversationWay, [Next]_vars
  PROVE  ConversationWay'
<1> SUFFICES ASSUME NEW m \in Conversations
             PROVE  /\ mail'[m] \in {"idle", "read", "sign", "post", "forward", "done"}
                    /\ stamp'[m] # None => mail'[m] \in {"post", "forward", "done"}
  BY DEF ConversationWay
<1>0. /\ TypeOK /\ m \in Mails /\ m \notin Employers
      /\ mail[m] \in {"idle", "read", "sign", "post", "forward", "done"}
      /\ stamp[m] # None => mail[m] \in {"post", "forward", "done"}
  BY AddressesAssumption DEF Inv, ConversationWay
<1>1. ASSUME NEW n \in Mails, Receive(n)
      PROVE  \/ mail'[m] = mail[m]
             \/ mail[m] = "idle" /\ mail'[m] = "read"
  BY <1>0, <1>1 DEF Receive, Go, TypeOK
<1>2. ASSUME NEW n \in Mails, EmailWorker(n)
      PROVE  \/ mail'[m] = mail[m] /\ stamp'[m] = stamp[m]
             \/ mail[m] = "read" /\ mail'[m] = "sign" /\ stamp'[m] = stamp[m]
             \/ mail'[m] \in {"post", "forward", "done"}
  BY <1>0, <1>2
     DEF EmailWorker, ReadBody, Post, SignFails, PostAnswered, PostLost, Forward,
         AuditPing, AuditEnds, SendToFly, HandoffSkipped, HandoffPost,
         HandoffAnswered, HandoffLost, HandoffTimesOut, Go, flyVars, TypeOK
<1>3. CASE \E n \in Mails : Receive(n)
  <2>1. stamp' = stamp
    BY <1>3 DEF Receive, flyVars
  <2>2. QED
    BY <1>0, <1>1, <1>3, <2>1
<1>4. CASE \E n \in Mails : EmailWorker(n)
  BY <1>0, <1>2, <1>4
<1>5. CASE UNCHANGED <<mail, stamp>>
  BY <1>0, <1>5
<1>6. QED
  BY <1>3, <1>4, <1>5
     DEF Next, vars, Fly, FlyInsert, FlyEvent, FlyFails, StartupWorker,
         StartupAccepts, Resolved, Parsed, Inserted, StartupFails, Hang,
         ProxyAnswers, Passes, Tick, flyVars

(***************************************************************************)
(* No row changes hands, and startup-api takes back no row of its own.     *)
(***************************************************************************)
LEMMA RowsStay ==
  ASSUME Inv, [Next]_vars, NEW ts \in 0..MaxClock, rows[ts] # None
  PROVE  rows'[ts] = rows[ts]
<1>1. ASSUME NEW n \in Mails, FlyInsert(n)
      PROVE  rows'[ts] = rows[ts]
  <2>1. rows' = [rows EXCEPT ![stamp[n]] = IF @ = None THEN n ELSE @]
    BY <1>1 DEF FlyInsert
  <2>2. QED
    BY <2>1 DEF Inv, TypeOK
<1>2. CASE rows' = rows
  BY <1>2
<1>3. QED
  BY <1>1, <1>2
     DEF Next, vars, Receive, EmailWorker, ReadBody, Post, SignFails, PostAnswered,
         PostLost, Forward, AuditPing, AuditEnds, SendToFly, HandoffSkipped,
         HandoffPost, HandoffAnswered, HandoffLost, HandoffTimesOut, Fly, FlyEvent,
         FlyFails, StartupWorker, StartupAccepts, Resolved, Parsed, Inserted,
         StartupFails, Hang, ProxyAnswers, Passes, Tick, flyVars

LEMMA InsertedStays ==
  ASSUME Inv, [Next]_vars, NEW m \in Mails, proxy[m] = "inserted"
  PROVE  proxy'[m] = "inserted"
  BY DEF Inv, TypeOK, ServersInStep, Next, vars, Receive, EmailWorker, ReadBody, Post,
     SignFails, PostAnswered, PostLost, Forward, AuditPing, AuditEnds, SendToFly,
     HandoffSkipped, HandoffPost, HandoffAnswered, HandoffLost, HandoffTimesOut, Fly,
     FlyInsert, FlyEvent, FlyFails, StartupWorker, StartupAccepts, Resolved, Parsed,
     Inserted, StartupFails, Hang, ProxyAnswers, Passes, Tick, handoffVars

LEMMA ForwardedStays ==
  ASSUME [Next]_vars
  PROVE  forwarded \subseteq forwarded'
  BY DEF Next, vars, Receive, EmailWorker, ReadBody, Post, SignFails, PostAnswered,
     PostLost, Forward, AuditPing, AuditEnds, SendToFly, HandoffSkipped, HandoffPost,
     HandoffAnswered, HandoffLost, HandoffTimesOut, Fly, FlyInsert, FlyEvent, FlyFails,
     StartupWorker, StartupAccepts, Resolved, Parsed, Inserted, StartupFails, Hang,
     ProxyAnswers, Passes, Tick, operatorVars

(***************************************************************************)
(* A conversation mail that has its ts keeps it, and was readable or not.  *)
(***************************************************************************)
LEMMA StampStays ==
  ASSUME Inv, ConversationWay, [Next]_vars, NEW m \in Conversations, stamp[m] # None
  PROVE  stamp'[m] = stamp[m] /\ (m \in unread' => m \in unread)
<1>0. /\ TypeOK /\ m \in Mails
      /\ mail[m] \in {"post", "forward", "done"}
  BY AddressesAssumption DEF Inv, ConversationWay
<1>1. QED
  BY <1>0
     DEF TypeOK, Next, vars, Receive, EmailWorker, ReadBody, Post, SignFails,
         PostAnswered, PostLost, Forward, AuditPing, AuditEnds, SendToFly,
         HandoffSkipped, HandoffPost, HandoffAnswered, HandoffLost, HandoffTimesOut,
         Fly, FlyInsert, FlyEvent, FlyFails, StartupWorker, StartupAccepts, Resolved,
         Parsed, Inserted, StartupFails, Hang, ProxyAnswers, Passes, Tick, flyVars

(***************************************************************************)
(* Nothing that is kept is lost again, for any mails and timeouts.         *)
(***************************************************************************)
THEOREM WhatIsKeptStays == Spec => KeptMailStays
<1>1. Init => ConversationWay
  BY AddressesAssumption DEF Init, ConversationWay
<1>2. Inv /\ ConversationWay /\ [Next]_vars => ConversationWay'
  BY StepKeepsConversationWay
<1>3. ASSUME Inv, ConversationWay, [Next]_vars, NEW m \in Mails, Kept(m)
      PROVE  Kept(m)'
  <2>1. CASE m \in forwarded \/ proxy[m] = "inserted"
    BY <1>3, <2>1, ForwardedStays, InsertedStays DEF Kept
  <2>2. CASE /\ m \in Conversations
             /\ m \notin unread
             /\ stamp[m] # None
             /\ rows[stamp[m]] = m
    <3>1. stamp[m] \in 0..MaxClock /\ m # None
      BY <1>3, <2>2, NoneAssumption DEF Inv, TypeOK
    <3>2. rows'[stamp[m]] = m
      BY <1>3, <2>2, <3>1, RowsStay
    <3>3. stamp'[m] = stamp[m] /\ m \notin unread'
      BY <1>3, <2>2, StampStays
    <3>4. QED
      BY <2>2, <3>2, <3>3 DEF Kept
  <2>3. QED
    BY <1>3, <2>1, <2>2 DEF Kept
<1>4. Inv /\ ConversationWay /\ [Next]_vars => [\A m \in Mails : Kept(m) => Kept(m)']_vars
  BY <1>3
<1>5. QED
  BY <1>1, <1>2, <1>4, InvIsInvariant, PTL DEF Spec, KeptMailStays

=============================================================================

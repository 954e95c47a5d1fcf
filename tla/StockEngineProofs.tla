-------------------------- MODULE StockEngineProofs --------------------------
(***************************************************************************)
(* Proofs about GuardianAgent in any surroundings: its type invariant,     *)
(* that an undisturbed repair is consistent, and that large drifts are     *)
(* kept; and that StockEngine is such surroundings, so that all of it      *)
(* holds of the engine.                                                    *)
(*                                                                         *)
(* Two of them speak of what a repair ends with and of what it writes;     *)
(* why they hold is what the job knows while it is under way: Located      *)
(* says which of its fields are meaningful where, Faithful that, as long   *)
(* as nobody disturbs it, what it has read is what is there.               *)
(***************************************************************************)
EXTENDS StockEngine, TLAPS

-----------------------------------------------------------------------------
(* Lemmas about the operators the model is built from *)

\* What a channel should show is a stock level.
LEMMA ExpectType ==
    ASSUME NEW p \in Products, NEW c, NEW q \in Levels
    PROVE  Expect(p, c, q) \in Levels
BY GuardianStock DEF Expect, ExpectedStock, CalculateOnlineStock, Levels

\* Distance is one: never negative, and zero between equals only.
LEMMA DistanceIsMetric ==
    ASSUME NEW a \in Levels, NEW b \in Levels
    PROVE  /\ Distance(a, b) \in Nat
           /\ Distance(a, b) = 0 <=> a = b
           /\ Distance(a, b) = Distance(b, a)
BY GuardianStock DEF Distance, Levels

\* The judgement of a product depends on what was read only.
LEMMA SameReadings ==
    ASSUME g'.seen = g.seen, g'.truth = g.truth, g'.cur = g.cur
    PROVE  /\ Seen' = Seen /\ Comparable' = Comparable /\ Drifting' = Drifting
           /\ SmallDrift' = SmallDrift
           /\ \A c : Target(c)' = Target(c)
BY DEF Seen, Comparable, Drifting, SmallDrift, Drift, Target

-----------------------------------------------------------------------------
(* The inductive invariant *)

\* Which fields of the job mean something at which await.
Located ==
    /\ g.pc \notin {"idle", "channels"} => g.truth \in Channels
    /\ g.pc \in {"read", "judge", "repairDb", "repair", "flag"} => g.cur \in Products
    /\ g.pc \in {"read", "judge", "repairDb", "flag"} => g.outcome = "open"
    /\ g.pc = "repair" => g.outcome \in {"open", "unrepaired"} /\ g.todo \subseteq Drifting
    /\ g.pc \in {"repairDb", "repair"} => Comparable /\ SmallDrift /\ g.auto
    /\ g.outcome = "repaired" => g.pc = "next" /\ Comparable /\ g.cur \in Products

\* Undisturbed, what the job read is what is there, but for what it wrote.
Faithful ==
    ~disturbed =>
        /\ g.pc \in {"read", "judge", "repairDb"}
               => \A c \in Seen : g.seen[c] = chanStock[g.cur][c]
        /\ g.pc = "repair" =>
               /\ dbStock[g.cur] = g.seen[g.truth]
               /\ chanStock[g.cur][g.truth] = g.seen[g.truth]
               /\ \A c \in g.todo : g.seen[c] = chanStock[g.cur][c]
               /\ g.outcome = "open" => \A c \in Seen \ {g.truth} :
                      c \in g.todo \/ chanStock[g.cur][c] = Target(c)
        /\ RepairedMeansConsistent

IInv == TypeOK /\ Located /\ Faithful

\* What was read of a comparable product are stock levels.
LEMMA ReadingsType ==
    ASSUME TypeOK, Comparable, g.cur \in Products
    PROVE  /\ g.truth \in Seen /\ Seen \subseteq Channels
           /\ \A c \in Seen : g.seen[c] \in Levels
           /\ \A c \in Channels : Target(c) \in Levels
           /\ Drifting \subseteq Seen \ {g.truth}
<1>1. g.truth \in Seen /\ Seen \subseteq Channels
  BY DEF Comparable, Seen
<1>2. g.seen \in [Channels -> Levels \cup {NoStock}]
  BY DEF TypeOK, Job
<1>3. \A c \in Seen : g.seen[c] \in Levels
  BY <1>2 DEF Seen
<1>4. \A c \in Channels : Target(c) \in Levels
  BY <1>1, <1>3, ExpectType DEF Target
<1>5. Drifting \subseteq Seen \ {g.truth}
  BY DEF Drifting
<1> QED
  BY <1>1, <1>3, <1>4, <1>5

-----------------------------------------------------------------------------
(* Types *)

\* The first states satisfy the invariant.
LEMMA InitInv == Init => IInv
<1> SUFFICES ASSUME Init PROVE IInv
  OBVIOUS
<1> USE DEF Init, GuardianInit
<1>1. NoJob \in Job
  BY DEF NoJob, Job, PC, Outcome, Unread
<1>2. g.pc = "idle" /\ g.outcome = "open"
  BY DEF NoJob
<1>3. TypeOK
  BY <1>1 DEF TypeOK
<1>4. Located
  BY <1>2 DEF Located
<1>5. Faithful
  BY <1>2 DEF Faithful, RepairedMeansConsistent
<1> QED
  BY <1>3, <1>4, <1>5 DEF IInv

\* Every step keeps the types.
LEMMA TypeStep == TypeOK /\ Located /\ [Next]_vars => TypeOK'
<1> SUFFICES ASSUME TypeOK, Located, [Next]_vars PROVE TypeOK'
  OBVIOUS
<1> USE DEF TypeOK
<1>0. NoJob \in Job
  BY DEF NoJob, Job, PC, Outcome, Unread
<1>1. CASE \E wanted \in {Products} \cup {{p} : p \in Products}, auto \in BOOLEAN :
               StartJob(wanted, auto)
  <2>1. PICK wanted \in SUBSET Products, auto \in BOOLEAN : StartJob(wanted, auto)
    BY <1>1
  <2>2. g' \in Job
    BY <2>1, <1>0 DEF StartJob, Job, PC
  <2> QED
    BY <2>1, <2>2 DEF StartJob, stockVars
<1>2. CASE ReadChannels
  <2>1. TruthChannels({c \in Channels : active[c]}) \subseteq Channels
    BY DEF TruthChannels
  <2>2. ASSUME NEW t \in Channels,
               g' = [g EXCEPT !.pc = "products", !.actives = {c \in Channels : active[c]},
                              !.truth = t]
        PROVE  g' \in Job
    BY <2>2 DEF Job, PC
  <2>3. g' \in Job
    BY <1>2, <1>0, <2>1, <2>2 DEF ReadChannels
  <2> QED
    BY <1>2, <2>3 DEF ReadChannels, stockVars
<1>3. CASE ReadProducts
  <2>1. g' \in Job
    BY <1>3, GuardianProducts DEF ReadProducts, Job, PC
  <2> QED
    BY <1>3, <2>1 DEF ReadProducts, stockVars
<1>4. CASE NextProduct
  <2>1. PICK p \in g.pending :
          g' = [g EXCEPT !.pc = "read", !.pending = @ \ {p}, !.cur = p, !.seen = Unread,
                         !.todo = Mapping[p] \cap g.actives, !.outcome = "open"]
    BY <1>4 DEF NextProduct
  <2>2. g' \in Job
    BY <2>1 DEF Job, PC, Outcome, Unread
  <2> QED
    BY <1>4, <2>2 DEF NextProduct, stockVars
<1>5. CASE EndJob
  BY <1>5, <1>0 DEF EndJob, stockVars
<1>6. CASE \E c \in Channels : ReadStock(c)
  <2>1. PICK c \in Channels : ReadStock(c)
    BY <1>6
  <2>2. g.cur \in Products
    BY <2>1 DEF Located, ReadStock
  <2>3. chanStock[g.cur][c] \in Levels
    BY <2>2
  <2>4. g' \in Job
    BY <2>1, <2>3 DEF ReadStock, Job, PC
  <2> QED
    BY <2>1, <2>4 DEF ReadStock, stockVars
<1>7. CASE EndReads
  BY <1>7 DEF EndReads, stockVars, Job, PC
<1>8. CASE Judge
  <2>1. CASE g' = [g EXCEPT !.pc = "next", !.outcome = "clean"]
    BY <1>8, <2>1 DEF Judge, stockVars, Job, PC, Outcome
  <2>2. ASSUME NEW at \in {"repairDb", "flag"}, g' = [g EXCEPT !.pc = at] PROVE TypeOK'
    BY <1>8, <2>2 DEF Judge, stockVars, Job, PC
  <2> QED
    BY <1>8, <2>1, <2>2 DEF Judge
<1>9. CASE RepairDatabase
  <2>1. g.cur \in Products /\ Comparable
    BY <1>9 DEF RepairDatabase, Located
  <2>2. g.seen[g.truth] \in Levels /\ Drifting \subseteq Channels
    BY <2>1, ReadingsType
  <2>3. g' \in Job
    BY <1>9, <2>2 DEF RepairDatabase, Job, PC
  <2> QED
    BY <1>9, <2>1, <2>2, <2>3 DEF RepairDatabase
<1>10. CASE \E c \in Channels : RepairChannel(c)
  <2>1. PICK c \in Channels : RepairChannel(c)
    BY <1>10
  <2>2. g.cur \in Products /\ Comparable
    BY <2>1 DEF RepairChannel, Located
  <2>3. Target(c) \in Levels
    BY <2>2, ReadingsType
  <2>4. g' \in Job
    BY <2>1 DEF RepairChannel, Job, PC
  <2> QED
    BY <2>1, <2>2, <2>3, <2>4 DEF RepairChannel
<1>11. CASE EndRepair
  <2>1. g' \in Job
    BY <1>11 DEF EndRepair, Job, PC, Outcome
  <2> QED
    BY <1>11, <2>1 DEF EndRepair, stockVars
<1>12. CASE FlagForReview
  <2>1. g.cur \in Products
    BY <1>12 DEF FlagForReview, Located
  <2>2. g' \in Job
    BY <1>12 DEF FlagForReview, Job, PC, Outcome
  <2> QED
    BY <1>12, <2>1, <2>2 DEF FlagForReview, stockVars
<1>13. CASE \E c \in Channels : ReadFails(c)
  <2>1. g' \in Job
    BY <1>13 DEF ReadFails, Job
  <2> QED
    BY <1>13, <2>1 DEF ReadFails, Fault, stockVars
<1>14. CASE \E c \in Channels, applied \in BOOLEAN : RepairChannelFails(c, applied)
  <2>1. PICK c \in Channels, applied \in BOOLEAN : RepairChannelFails(c, applied)
    BY <1>14
  <2>2. g.cur \in Products /\ Comparable
    BY <2>1 DEF RepairChannelFails, Located
  <2>3. Target(c) \in Levels
    BY <2>2, ReadingsType
  <2>4. g' \in Job
    BY <2>1 DEF RepairChannelFails, Job, Outcome
  <2> QED
    BY <2>1, <2>2, <2>3, <2>4 DEF RepairChannelFails, Fault
<1>15. CASE StatementFails
  <2>1. g' \in Job
    <3>1. CASE g.pc \in {"channels", "products"} /\ g' = NoJob
      BY <3>1, <1>0
    <3>2. CASE g.pc = "next" /\ \E p \in g.pending :
             g' = [g EXCEPT !.pending = @ \ {p}, !.cur = p, !.seen = Unread,
                            !.todo = {}, !.outcome = "error"]
      <4>1. PICK p \in g.pending :
              g' = [g EXCEPT !.pending = @ \ {p}, !.cur = p, !.seen = Unread,
                             !.todo = {}, !.outcome = "error"]
        BY <3>2
      <4> QED
        BY <4>1 DEF Job, Outcome, Unread
    <3>3. CASE g.pc = "flag" /\ g' = [g EXCEPT !.pc = "next", !.outcome = "error"]
      BY <3>3 DEF Job, PC, Outcome
    <3> QED
      BY <1>15, <3>1, <3>2, <3>3 DEF StatementFails
  <2>2. UNCHANGED <<stockVars, flagged, disturbed>> /\ Fault
    BY <1>15 DEF StatementFails
  <2> QED
    BY <2>1, <2>2 DEF Fault, stockVars
<1>16. CASE \E applied \in BOOLEAN : RepairDatabaseFails(applied)
  <2>1. PICK applied \in BOOLEAN : RepairDatabaseFails(applied)
    BY <1>16
  <2>2. g.cur \in Products /\ Comparable
    BY <2>1 DEF RepairDatabaseFails, Located
  <2>3. g.seen[g.truth] \in Levels
    BY <2>2, ReadingsType
  <2>4. g' \in Job
    BY <2>1 DEF RepairDatabaseFails, Job, PC, Outcome
  <2> QED
    BY <2>1, <2>2, <2>3, <2>4 DEF RepairDatabaseFails, Fault
<1>17. CASE GuardianCrash
  BY <1>17, <1>0 DEF GuardianCrash, Fault, stockVars
<1>18. CASE \E p \in Products : Review(p)
  BY <1>18 DEF Review, stockVars
<1>19. CASE Others
  BY <1>19 DEF Others
<1>20. CASE UNCHANGED vars
  BY <1>20 DEF vars, stockVars, guardianVars
<1> QED
  BY <1>1, <1>2, <1>3, <1>4, <1>5, <1>6, <1>7, <1>8, <1>9, <1>10, <1>11, <1>12, <1>13,
     <1>14, <1>15, <1>16, <1>17, <1>18, <1>19, <1>20
     DEF Next, GuardianNext, Works, Fails
-----------------------------------------------------------------------------
(* Where the job is *)

\* Every step keeps what the fields of the job mean.
LEMMA LocatedStep == TypeOK /\ Located /\ [Next]_vars => Located'
<1> SUFFICES ASSUME TypeOK, Located, [Next]_vars PROVE Located'
  OBVIOUS
<1>0. g \in Job
  BY DEF TypeOK
<1>b. ASSUME g' = NoJob PROVE Located'
  BY <1>b DEF Located, NoJob
<1>1. CASE \E wanted \in {Products} \cup {{p} : p \in Products}, auto \in BOOLEAN :
               StartJob(wanted, auto)
  BY <1>1 DEF StartJob, NoJob, Located
<1>2. CASE ReadChannels
  <2>1. ASSUME NEW t \in Channels,
               g' = [g EXCEPT !.pc = "products", !.actives = {c \in Channels : active[c]},
                              !.truth = t]
        PROVE  Located'
    <3>1. g.outcome # "repaired"
      BY <1>2 DEF ReadChannels, Located
    <3> QED
      BY <1>0, <2>1, <3>1 DEF Located, Job
  <2>2. TruthChannels({c \in Channels : active[c]}) \subseteq Channels
    BY DEF TruthChannels
  <2> QED
    BY <1>2, <1>b, <2>1, <2>2 DEF ReadChannels
<1>3. CASE ReadProducts
  BY <1>0, <1>3 DEF ReadProducts, Located, Job
<1>4. CASE NextProduct
  <2>1. PICK p \in g.pending :
          g' = [g EXCEPT !.pc = "read", !.pending = @ \ {p}, !.cur = p, !.seen = Unread,
                         !.todo = Mapping[p] \cap g.actives, !.outcome = "open"]
    BY <1>4 DEF NextProduct
  <2>2. p \in Products /\ g.truth \in Channels
    BY <1>0, <1>4, <2>1 DEF NextProduct, Located, Job
  <2> QED
    BY <1>0, <2>1, <2>2 DEF Located, Job
<1>5. CASE EndJob
  BY <1>5, <1>b DEF EndJob
<1>6. CASE \E c \in Channels : ReadStock(c)
  BY <1>0, <1>6 DEF ReadStock, Located, Job
<1>7. CASE EndReads
  BY <1>0, <1>7 DEF EndReads, Located, Job
<1>8. CASE Judge
  <2>1. g.truth \in Channels /\ g.cur \in Products /\ g.outcome = "open"
    BY <1>8 DEF Judge, Located
  <2>2. CASE g' = [g EXCEPT !.pc = "next", !.outcome = "clean"]
    BY <1>0, <2>1, <2>2 DEF Located, Job
  <2>3. CASE g' = [g EXCEPT !.pc = "flag"]
    BY <1>0, <2>1, <2>3 DEF Located, Job
  <2>4. CASE Drifting # {} /\ SmallDrift /\ g.auto /\ g' = [g EXCEPT !.pc = "repairDb"]
    <3>1. Comparable' /\ SmallDrift'
      BY <1>0, <2>4, SameReadings DEF Drifting, Job
    <3> QED
      BY <1>0, <2>1, <2>4, <3>1 DEF Located, Job
  <2> QED
    BY <1>8, <2>2, <2>3, <2>4 DEF Judge
<1>9. CASE RepairDatabase
  <2>1. /\ g.truth \in Channels /\ g.cur \in Products /\ g.outcome = "open"
        /\ Comparable /\ SmallDrift /\ g.auto
    BY <1>9 DEF RepairDatabase, Located
  <2>2. g' = [g EXCEPT !.pc = "repair", !.todo = Drifting]
    BY <1>9 DEF RepairDatabase
  <2>3. Comparable' /\ SmallDrift' /\ Drifting' = Drifting
    BY <1>0, <2>1, <2>2, SameReadings DEF Job
  <2> QED
    BY <1>0, <2>1, <2>2, <2>3 DEF Located, Job
<1>10. CASE \E c \in Channels, end \in {"unrepaired", g.outcome} :
                g.pc = "repair" /\ g' = [g EXCEPT !.todo = @ \ {c}, !.outcome = end]
  <2>1. /\ g.truth \in Channels /\ g.outcome \in {"open", "unrepaired"}
        /\ Comparable /\ SmallDrift /\ g.auto /\ g.todo \subseteq Drifting
    BY <1>10 DEF Located
  <2>2. PICK c \in Channels, end \in {"open", "unrepaired"} :
          g.pc = "repair" /\ g' = [g EXCEPT !.todo = @ \ {c}, !.outcome = end]
    BY <1>10, <2>1
  <2>3. Comparable' /\ SmallDrift' /\ Drifting' = Drifting
    BY <1>0, <2>1, <2>2, SameReadings DEF Job
  <2> QED
    BY <1>0, <2>1, <2>2, <2>3 DEF Located, Job
<1>11. CASE \E c \in Channels : RepairChannel(c)
  <2>1. PICK c \in Channels : RepairChannel(c)
    BY <1>11
  <2>2. g' = [g EXCEPT !.todo = @ \ {c}, !.outcome = g.outcome]
    BY <1>0, <2>1 DEF RepairChannel, Job
  <2> QED
    BY <2>1, <2>2, <1>10 DEF RepairChannel
<1>12. CASE EndRepair
  <2>1. /\ g.truth \in Channels /\ g.cur \in Products /\ Comparable
        /\ g.outcome \in {"open", "unrepaired"}
    BY <1>12 DEF EndRepair, Located
  <2>2. g' = [g EXCEPT !.pc = "next", !.outcome = IF @ = "open" THEN "repaired" ELSE @]
    BY <1>12 DEF EndRepair
  <2>3. Comparable'
    BY <1>0, <2>1, <2>2, SameReadings DEF Job
  <2> QED
    BY <1>0, <2>1, <2>2, <2>3 DEF Located, Job
<1>13. CASE FlagForReview
  BY <1>0, <1>13 DEF FlagForReview, Located, Job
<1>14. CASE \E c \in Channels : ReadFails(c)
  BY <1>0, <1>14 DEF ReadFails, Located, Job
<1>15. CASE \E c \in Channels, applied \in BOOLEAN : RepairChannelFails(c, applied)
  BY <1>10, <1>15 DEF RepairChannelFails
<1>16. CASE StatementFails
  <2>1. CASE g' = NoJob
    BY <1>b, <2>1
  <2>2. CASE g.pc = "next" /\ \E p \in g.pending :
             g' = [g EXCEPT !.pending = @ \ {p}, !.cur = p, !.seen = Unread,
                            !.todo = {}, !.outcome = "error"]
    BY <1>0, <2>2 DEF Located, Job
  <2>3. CASE g.pc = "flag" /\ g' = [g EXCEPT !.pc = "next", !.outcome = "error"]
    BY <1>0, <2>3 DEF Located, Job
  <2> QED
    BY <1>16, <2>1, <2>2, <2>3 DEF StatementFails
<1>17. CASE \E applied \in BOOLEAN : RepairDatabaseFails(applied)
  BY <1>0, <1>17 DEF RepairDatabaseFails, Located, Job
<1>18. CASE GuardianCrash
  BY <1>18, <1>b DEF GuardianCrash
<1>19. CASE UNCHANGED g
  <2>1. Comparable' = Comparable /\ SmallDrift' = SmallDrift /\ Drifting' = Drifting
    BY <1>19, SameReadings
  <2> QED
    BY <1>19, <2>1 DEF Located
<1>20. (\E p \in Products : Review(p)) \/ Others \/ UNCHANGED vars => UNCHANGED g
  BY DEF Review, Others, vars, guardianVars
<1> QED
  BY <1>1, <1>2, <1>3, <1>4, <1>5, <1>6, <1>7, <1>8, <1>9, <1>11, <1>12, <1>13,
     <1>14, <1>15, <1>16, <1>17, <1>18, <1>19, <1>20
     DEF Next, GuardianNext, Works, Fails
-----------------------------------------------------------------------------
(* What the job knows *)

\* The reads of a product: what was read undisturbed is still there.
LEMMA ReadStockKeepsFaith ==
    ASSUME TypeOK, Located, Faithful, NEW c \in Channels, ReadStock(c)
    PROVE  Faithful'
<1>1. /\ g.pc = "read" /\ g.cur \in Products /\ g.outcome = "open"
      /\ g' = [g EXCEPT !.todo = @ \ {c}, !.seen[c] = chanStock[g.cur][c]]
      /\ UNCHANGED <<dbStock, chanStock, active, disturbed>>
  BY DEF ReadStock, Located, stockVars
<1>2. g \in Job /\ g.seen \in [Channels -> Levels \cup {NoStock}]
  BY DEF TypeOK, Job
<1>3. /\ g'.pc = "read" /\ g'.cur = g.cur /\ g'.outcome = "open"
      /\ g'.seen = [g.seen EXCEPT ![c] = chanStock[g.cur][c]]
  BY <1>1, <1>2 DEF Job
<1>4. ASSUME ~disturbed, NEW d \in Seen' PROVE g'.seen[d] = chanStock'[g'.cur][d]
  <2>1. d \in Channels /\ g'.seen[d] # NoStock
    BY DEF Seen
  <2>2. CASE d = c
    BY <1>1, <1>2, <1>3, <2>2
  <2>3. CASE d # c
    <3>1. d \in Seen /\ g'.seen[d] = g.seen[d]
      BY <1>2, <1>3, <2>1, <2>3 DEF Seen
    <3> QED
      BY <1>1, <1>3, <1>4, <3>1 DEF Faithful
  <2> QED
    BY <2>2, <2>3
<1> QED
  BY <1>1, <1>3, <1>4 DEF Faithful, RepairedMeansConsistent

\* The repair of the database: the channels that do not drift agree already.
LEMMA RepairDatabaseKeepsFaith ==
    ASSUME TypeOK, Located, Faithful, RepairDatabase
    PROVE  Faithful'
<1>1. /\ g.pc = "repairDb" /\ g.cur \in Products /\ g.outcome = "open" /\ Comparable
      /\ dbStock' = [dbStock EXCEPT ![g.cur] = g.seen[g.truth]]
      /\ g' = [g EXCEPT !.pc = "repair", !.todo = Drifting]
      /\ UNCHANGED <<chanStock, active, disturbed>>
  BY DEF RepairDatabase, Located
<1>2. /\ g'.pc = "repair" /\ g'.cur = g.cur /\ g'.outcome = "open" /\ g'.todo = Drifting
      /\ g'.seen = g.seen /\ g'.truth = g.truth
  BY <1>1 DEF TypeOK, Job
<1>3. /\ g.truth \in Seen /\ Seen \subseteq Channels /\ Drifting \subseteq Seen
      /\ \A c \in Seen : g.seen[c] \in Levels /\ Target(c) \in Levels
  BY <1>1, ReadingsType
<1>4. Seen' = Seen /\ \A c : Target(c)' = Target(c)
  BY <1>2, SameReadings
<1>5. dbStock'[g'.cur] = g'.seen[g'.truth]
  BY <1>1, <1>2 DEF TypeOK
<1>6. ASSUME ~disturbed PROVE \A c \in Seen : g.seen[c] = chanStock[g.cur][c]
  BY <1>1, <1>6 DEF Faithful
<1>7. ASSUME ~disturbed, NEW c \in Seen \ {g.truth}, c \notin Drifting
      PROVE  chanStock[g.cur][c] = Target(c)
  <2>1. Drift(c) \in Nat /\ (Drift(c) = 0 <=> g.seen[c] = Target(c))
    BY <1>3, DistanceIsMetric DEF Drift
  <2>2. ~(Drift(c) > 0)
    BY <1>1, <1>7 DEF Drifting
  <2> QED
    BY <1>6, <1>7, <2>1, <2>2
<1>8. ASSUME ~disturbed, NEW c \in Seen' \ {g'.truth}
      PROVE  c \in g'.todo \/ chanStock'[g'.cur][c] = Target(c)'
  BY <1>1, <1>2, <1>4, <1>7, <1>8
<1>9. ASSUME ~disturbed
      PROVE  /\ chanStock'[g'.cur][g'.truth] = g'.seen[g'.truth]
             /\ \A c \in g'.todo : g'.seen[c] = chanStock'[g'.cur][c]
  BY <1>1, <1>2, <1>3, <1>6, <1>9
<1> QED
  BY <1>1, <1>2, <1>5, <1>8, <1>9 DEF Faithful, RepairedMeansConsistent

\* A channel dealt with: the others are as they were read, and it is repaired
\* unless the job remembers that it is not.
LEMMA RepairChannelKeepsFaith ==
    ASSUME TypeOK, Located, Faithful, NEW c \in g.todo,
           NEW end \in {"open", "unrepaired"}, NEW q \in Levels,
           g.pc = "repair", c \in Channels,
           g' = [g EXCEPT !.todo = @ \ {c}, !.outcome = end],
           chanStock' = [chanStock EXCEPT ![g.cur][c] = q],
           end = "open" => g.outcome = "open" /\ q = Target(c),
           UNCHANGED <<dbStock, disturbed>>
    PROVE  Faithful'
<1>1. g.cur \in Products /\ Comparable /\ c \in Drifting
  BY DEF Located
<1>2. /\ g'.pc = "repair" /\ g'.cur = g.cur /\ g'.outcome = end
      /\ g'.todo = g.todo \ {c} /\ g'.seen = g.seen /\ g'.truth = g.truth
  BY DEF TypeOK, Job
<1>3. /\ g.truth \in Seen /\ Seen \subseteq Channels /\ c \in Seen \ {g.truth}
      /\ g.todo \subseteq Channels
  BY <1>1, ReadingsType DEF TypeOK, Job
<1>4. Seen' = Seen /\ \A d : Target(d)' = Target(d)
  BY <1>2, SameReadings
<1>5. /\ chanStock'[g.cur][c] = q
      /\ \A d \in Channels \ {c} : chanStock'[g.cur][d] = chanStock[g.cur][d]
  BY <1>1 DEF TypeOK
<1>6. ASSUME ~disturbed
      PROVE  /\ dbStock'[g'.cur] = g'.seen[g'.truth]
             /\ chanStock'[g'.cur][g'.truth] = g'.seen[g'.truth]
             /\ \A d \in g'.todo : g'.seen[d] = chanStock'[g'.cur][d]
  BY <1>2, <1>3, <1>5, <1>6 DEF Faithful
<1>7. ASSUME ~disturbed, g'.outcome = "open", NEW d \in Seen' \ {g'.truth}
      PROVE  d \in g'.todo \/ chanStock'[g'.cur][d] = Target(d)'
  <2>1. d \in g.todo \/ chanStock[g.cur][d] = Target(d)
    BY <1>2, <1>4, <1>7 DEF Faithful
  <2>2. CASE d = c
    BY <1>2, <1>4, <1>5, <1>7, <2>2
  <2>3. CASE d # c
    BY <1>2, <1>3, <1>4, <1>5, <2>1, <2>3
  <2> QED
    BY <2>2, <2>3
<1> QED
  BY <1>2, <1>6, <1>7 DEF Faithful, RepairedMeansConsistent

\* The end of a repair: what was still to be done is nothing.
LEMMA EndRepairKeepsFaith ==
    ASSUME TypeOK, Located, Faithful, EndRepair
    PROVE  Faithful'
<1>1. /\ g.pc = "repair" /\ g.todo = {} /\ g.outcome \in {"open", "unrepaired"}
      /\ g' = [g EXCEPT !.pc = "next", !.outcome = IF @ = "open" THEN "repaired" ELSE @]
      /\ UNCHANGED <<dbStock, chanStock, active, disturbed>>
  BY DEF EndRepair, Located, stockVars
<1>2. /\ g'.pc = "next" /\ g'.cur = g.cur /\ g'.seen = g.seen /\ g'.truth = g.truth
      /\ g'.outcome = "repaired" => g.outcome = "open"
  BY <1>1 DEF TypeOK, Job
<1>3. Seen' = Seen
  BY <1>2, SameReadings
<1>4. ASSUME ~disturbed, g.outcome = "open"
      PROVE  /\ dbStock[g.cur] = chanStock[g.cur][g.truth]
             /\ \A c \in Seen \ {g.truth} :
                   chanStock[g.cur][c] = Expect(g.cur, c, chanStock[g.cur][g.truth])
  BY <1>1, <1>4 DEF Faithful, Target
<1> QED
  BY <1>1, <1>2, <1>3, <1>4 DEF Faithful, RepairedMeansConsistent

\* Every step keeps what the job knows.
LEMMA FaithfulStep == TypeOK /\ Located /\ Faithful /\ [Next]_vars => Faithful'
<1> SUFFICES ASSUME TypeOK, Located, Faithful, [Next]_vars PROVE Faithful'
  OBVIOUS
<1>0. g \in Job
  BY DEF TypeOK
<1>a. ASSUME g'.pc \notin {"read", "judge", "repairDb", "repair"}, g'.outcome # "repaired"
      PROVE  Faithful'
  BY <1>a DEF Faithful, RepairedMeansConsistent
<1>b. ASSUME g' = NoJob PROVE Faithful'
  BY <1>a, <1>b DEF NoJob
<1>1. CASE \E wanted \in {Products} \cup {{p} : p \in Products}, auto \in BOOLEAN :
               StartJob(wanted, auto)
  BY <1>1, <1>a DEF StartJob, NoJob
<1>2. CASE ReadChannels
  <2>1. g.outcome # "repaired"
    BY <1>2 DEF ReadChannels, Located
  <2>2. ASSUME NEW t, g' = [g EXCEPT !.pc = "products",
                                     !.actives = {c \in Channels : active[c]}, !.truth = t]
        PROVE  Faithful'
    BY <1>0, <1>a, <2>1, <2>2 DEF Job
  <2> QED
    BY <1>2, <1>b, <2>2 DEF ReadChannels
<1>3. CASE ReadProducts
  BY <1>0, <1>3, <1>a DEF ReadProducts, Located, Job
<1>4. CASE NextProduct
  <2>1. g'.pc = "read" /\ g'.outcome = "open" /\ g'.seen = Unread
    BY <1>0, <1>4 DEF NextProduct, Job
  <2>2. Seen' = {}
    BY <2>1 DEF Seen, Unread
  <2> QED
    BY <2>1, <2>2 DEF Faithful, RepairedMeansConsistent
<1>5. CASE EndJob
  BY <1>5, <1>b DEF EndJob
<1>6. CASE \E c \in Channels : ReadStock(c)
  BY <1>6, ReadStockKeepsFaith
<1>7. CASE g.pc \in {"read", "judge"} /\ g.outcome = "open" /\ UNCHANGED <<stockVars, disturbed>>
           /\ \E at \in {"read", "judge", "repairDb"}, todo \in SUBSET g.todo :
                 g' = [g EXCEPT !.pc = at, !.todo = todo]
  <2>1. PICK at \in {"read", "judge", "repairDb"}, todo \in SUBSET g.todo :
          g' = [g EXCEPT !.pc = at, !.todo = todo]
    BY <1>7
  <2>2. /\ g'.pc \in {"read", "judge", "repairDb"} /\ g'.outcome = "open"
        /\ g'.seen = g.seen /\ g'.truth = g.truth /\ g'.cur = g.cur
    BY <1>0, <1>7, <2>1 DEF Job
  <2>3. Seen' = Seen
    BY <2>2, SameReadings
  <2> QED
    BY <1>7, <2>2, <2>3 DEF Faithful, RepairedMeansConsistent, stockVars
<1>8. CASE EndReads
  <2>1. g' = [g EXCEPT !.pc = "judge", !.todo = g.todo]
    BY <1>0, <1>8 DEF EndReads, Job
  <2>2. g.pc = "read" /\ g.outcome = "open" /\ UNCHANGED <<stockVars, disturbed>>
    BY <1>8 DEF EndReads, Located
  <2> QED
    BY <2>1, <2>2, <1>7
<1>9. CASE \E c \in Channels : ReadFails(c)
  <2>1. PICK c \in Channels : ReadFails(c)
    BY <1>9
  <2>2. g' = [g EXCEPT !.pc = "read", !.todo = g.todo \ {c}]
    BY <1>0, <2>1 DEF ReadFails, Job
  <2>3. g.pc = "read" /\ g.outcome = "open" /\ UNCHANGED <<stockVars, disturbed>>
    BY <2>1 DEF ReadFails, Located
  <2> QED
    BY <2>2, <2>3, <1>7
<1>10. CASE Judge
  <2>1. g.pc = "judge" /\ g.outcome = "open" /\ UNCHANGED <<stockVars, disturbed>>
    BY <1>10 DEF Judge, Located
  <2>2. CASE g' = [g EXCEPT !.pc = "next", !.outcome = "clean"]
    BY <1>0, <1>a, <2>2 DEF Job
  <2>3. CASE g' = [g EXCEPT !.pc = "flag"]
    BY <1>0, <1>a, <2>1, <2>3 DEF Job
  <2>4. CASE g' = [g EXCEPT !.pc = "repairDb"]
    <3>1. g' = [g EXCEPT !.pc = "repairDb", !.todo = g.todo]
      BY <1>0, <2>4 DEF Job
    <3> QED
      BY <2>1, <3>1, <1>7
  <2> QED
    BY <1>10, <2>2, <2>3, <2>4 DEF Judge
<1>11. CASE RepairDatabase
  BY <1>11, RepairDatabaseKeepsFaith
<1>12. CASE \E c \in Channels : RepairChannel(c)
  <2>1. PICK c \in Channels : RepairChannel(c)
    BY <1>12
  <2>2. g.cur \in Products /\ Comparable /\ g.outcome \in {"open", "unrepaired"} /\ g.pc = "repair"
    BY <2>1 DEF RepairChannel, Located
  <2>3. Target(c) \in Levels
    BY <2>2, ReadingsType
  <2>4. g' = [g EXCEPT !.todo = @ \ {c}, !.outcome = g.outcome]
    BY <1>0, <2>1 DEF RepairChannel, Job
  <2>5. /\ c \in g.todo /\ UNCHANGED <<dbStock, disturbed>>
        /\ chanStock' = [chanStock EXCEPT ![g.cur][c] = Target(c)]
    BY <2>1 DEF RepairChannel
  <2> QED
    BY <2>2, <2>3, <2>4, <2>5, RepairChannelKeepsFaith
<1>13. CASE \E c \in Channels, applied \in BOOLEAN : RepairChannelFails(c, applied)
  <2>1. PICK c \in Channels, applied \in BOOLEAN : RepairChannelFails(c, applied)
    BY <1>13
  <2>2. g.cur \in Products /\ Comparable /\ g.pc = "repair"
    BY <2>1 DEF RepairChannelFails, Located
  <2>3. Target(c) \in Levels /\ chanStock[g.cur][c] \in Levels
    BY <2>2, ReadingsType DEF TypeOK
  <2>4. /\ c \in g.todo /\ UNCHANGED <<dbStock, disturbed>>
        /\ g' = [g EXCEPT !.todo = @ \ {c}, !.outcome = "unrepaired"]
    BY <2>1 DEF RepairChannelFails
  <2>5. \/ chanStock' = [chanStock EXCEPT ![g.cur][c] = Target(c)]
        \/ chanStock' = [chanStock EXCEPT ![g.cur][c] = chanStock[g.cur][c]]
    BY <2>1, <2>2 DEF RepairChannelFails, TypeOK
  <2> QED
    BY <2>2, <2>3, <2>4, <2>5, RepairChannelKeepsFaith
<1>14. CASE EndRepair
  BY <1>14, EndRepairKeepsFaith
<1>15. CASE FlagForReview
  BY <1>0, <1>15, <1>a DEF FlagForReview, Job
<1>16. CASE StatementFails
  <2>1. CASE g' = NoJob
    BY <1>b, <2>1
  <2>2. CASE g.pc = "next" /\ \E p \in g.pending :
             g' = [g EXCEPT !.pending = @ \ {p}, !.cur = p, !.seen = Unread,
                            !.todo = {}, !.outcome = "error"]
    BY <1>0, <1>a, <2>2 DEF Job
  <2>3. CASE g.pc = "flag" /\ g' = [g EXCEPT !.pc = "next", !.outcome = "error"]
    BY <1>0, <1>a, <2>3 DEF Job
  <2> QED
    BY <1>16, <2>1, <2>2, <2>3 DEF StatementFails
<1>17. CASE \E applied \in BOOLEAN : RepairDatabaseFails(applied)
  BY <1>0, <1>17, <1>a DEF RepairDatabaseFails, Job
<1>18. CASE GuardianCrash
  BY <1>18, <1>b DEF GuardianCrash
<1>19. CASE UNCHANGED <<g, stockVars, disturbed>>
  <2>1. Seen' = Seen /\ \A c : Target(c)' = Target(c)
    BY <1>19, SameReadings
  <2> QED
    BY <1>19, <2>1 DEF Faithful, RepairedMeansConsistent, stockVars
<1>20. CASE (\E p \in Products : Review(p)) \/ UNCHANGED vars
  BY <1>19, <1>20 DEF Review, vars, guardianVars
<1>21. CASE Others
  BY <1>21 DEF Others, Faithful
<1> QED
  BY <1>1, <1>2, <1>3, <1>4, <1>5, <1>6, <1>8, <1>9, <1>10, <1>11, <1>12, <1>13,
     <1>14, <1>15, <1>16, <1>17, <1>18, <1>20, <1>21
     DEF Next, GuardianNext, Works, Fails

-----------------------------------------------------------------------------
(* The theorems *)

\* The invariant holds in every reachable state.
THEOREM Invariance == Spec => []IInv
<1>1. IInv /\ [Next]_vars => IInv'
  BY TypeStep, LocatedStep, FaithfulStep DEF IInv
<1> QED
  BY <1>1, InitInv, PTL DEF Spec

\* Type correctness.
THEOREM TypeCorrect == Spec => []TypeOK
<1>1. IInv => TypeOK
  BY DEF IInv
<1> QED
  BY <1>1, Invariance, PTL

\* A repair nobody disturbed leaves the database and the channels in agreement
\* with the source of truth (repairDrift, guardian.ts).
THEOREM RepairsAreConsistent == Spec => []RepairedMeansConsistent
<1>1. IInv => (~disturbed => RepairedMeansConsistent)
  BY DEF IInv, Faithful
<1>2. disturbed => RepairedMeansConsistent
  BY DEF RepairedMeansConsistent
<1>3. IInv => RepairedMeansConsistent
  BY <1>1, <1>2
<1> QED
  BY <1>3, Invariance, PTL

\* Undisturbed, the Guardian moves no stock by the threshold or more, nor any
\* when it was asked not to repair (the decision of checkProductDrift).
THEOREM LargeDriftsStay == Spec => LargeDriftsAreKept
<1> DEFINE Small == \A p \in Products, c \in Channels :
                       Distance(chanStock[p][c], chanStock'[p][c]) < Threshold
<1>1. ASSUME IInv, ~disturbed, NEW c \in g.todo, g.pc = "repair",
             chanStock' = [chanStock EXCEPT ![g.cur][c] = Target(c)]
      PROVE  g.auto /\ Small
  <2>1. /\ g.auto /\ Comparable /\ SmallDrift /\ c \in Drifting
        /\ g.seen[c] = chanStock[g.cur][c]
    BY <1>1 DEF IInv, Located, Faithful
  <2>2. CASE g.cur \in Products
    <3>1. c \in Channels /\ Target(c) \in Levels /\ chanStock[g.cur][c] \in Levels
      BY <1>1, <2>1, <2>2, ReadingsType DEF IInv, TypeOK
    <3>2. Drift(c) \in Nat /\ Drift(c) < Threshold
      BY <2>1, <3>1, DistanceIsMetric DEF SmallDrift, Drift
    <3>3. Distance(chanStock[g.cur][c], chanStock'[g.cur][c]) < Threshold
      BY <1>1, <2>1, <2>2, <3>1, <3>2 DEF Drift, IInv, TypeOK
    <3>4. ASSUME NEW p \in Products, NEW d \in Channels, p # g.cur \/ d # c
          PROVE  Distance(chanStock[p][d], chanStock'[p][d]) < Threshold
      <4>1. chanStock'[p][d] = chanStock[p][d] /\ chanStock[p][d] \in Levels
        BY <1>1, <2>2, <3>1, <3>4 DEF IInv, TypeOK
      <4>2. Distance(chanStock[p][d], chanStock'[p][d]) = 0
        BY <4>1, DistanceIsMetric
      <4> QED
        BY <3>2, <4>2, GuardianBounds
    <3> QED
      BY <2>1, <3>3, <3>4
  <2>3. g.cur \in Products
    BY <1>1 DEF IInv, Located
  <2> QED
    BY <2>2, <2>3
<1> DEFINE Repairs == \E c \in g.todo : chanStock' = [chanStock EXCEPT ![g.cur][c] = Target(c)]
<1>2. ASSUME IInv, [Next]_vars, g' # g, chanStock' # chanStock
      PROVE  g.pc = "repair" /\ Repairs
  <2>1. ASSUME NEW c \in Channels, RepairChannel(c) PROVE g.pc = "repair" /\ Repairs
    BY <2>1 DEF RepairChannel
  <2>2. ASSUME NEW c \in Channels, NEW applied \in BOOLEAN, RepairChannelFails(c, applied)
        PROVE  g.pc = "repair" /\ Repairs
    BY <1>2, <2>2 DEF RepairChannelFails
  <2>3. ASSUME Others \/ UNCHANGED vars PROVE FALSE
    BY <1>2, <2>3 DEF Others, vars, guardianVars
  <2>4. \/ \E c \in Channels : RepairChannel(c)
        \/ \E c \in Channels, applied \in BOOLEAN : RepairChannelFails(c, applied)
        \/ Others \/ UNCHANGED vars
    BY <1>2 DEF Next, GuardianNext, Works, Fails, StartJob, ReadChannels, ReadProducts,
       NextProduct, EndJob, ReadStock, EndReads, Judge, RepairDatabase, EndRepair,
       FlagForReview, ReadFails, StatementFails, RepairDatabaseFails, GuardianCrash,
       Review, stockVars
  <2> QED
    BY <2>1, <2>2, <2>3, <2>4
<1>3. IInv /\ [Next]_vars =>
        [g' # g /\ chanStock' # chanStock /\ ~disturbed => g.auto /\ Small]_vars
  BY <1>1, <1>2
<1> QED
  BY <1>3, Invariance, PTL DEF Spec, LargeDriftsAreKept

-----------------------------------------------------------------------------
(* The engine: the Sync Agent is one of the others *)

\* What is proved of the Sync Agent, about the instance that runs in the engine.
Agent == INSTANCE SyncAgentProofs

LEMMA AgentAssumptions ==
    /\ Agent!ProductsAssumption /\ Agent!ChannelsAssumption
    /\ Agent!StockAssumption /\ Agent!BoundsAssumption
BY GuardianProducts, GuardianChannels, GuardianStock, EngineStock, EngineBounds
DEF Agent!ProductsAssumption, Agent!ChannelsAssumption, Agent!StockAssumption,
    Agent!BoundsAssumption, Sync!BoundsAssumption, Agent!Stock, Levels, Agent!Operations,
    Sync!Operations

\* Sync and Agent are instances of one module, with the same substitutions.
LEMMA OneAgent ==
    /\ Sync!Init <=> Agent!Init
    /\ Sync!Next <=> Agent!Next
    /\ Sync!vars = Agent!vars
<1>1. Sync!Init <=> Agent!Init
  BY Zenon DEF Sync!Init, Agent!Init, Sync!Expected, Agent!Expected, Sync!ExpectedStock,
     Agent!ExpectedStock, Sync!CalculateOnlineStock, Agent!CalculateOnlineStock,
     Sync!IsOnlineChannel, Agent!IsOnlineChannel, Sync!IdleRun, Agent!IdleRun,
     Sync!NoSnap, Agent!NoSnap, Sync!Jobs, Agent!Jobs
<1>2. Sync!Next <=> Agent!Next
  BY Zenon DEF Sync!Next, Agent!Next, Sync!ToggleChannel, Agent!ToggleChannel, Sync!dataVars,
     Agent!dataVars, Sync!queueVars, Agent!queueVars, Sync!Crash, Agent!Crash,
     Sync!IdleRun, Agent!IdleRun, Sync!NoSnap, Agent!NoSnap, Sync!Stopped,
     Agent!Stopped, Sync!faultVars, Agent!faultVars, Sync!Stop, Agent!Stop,
     Sync!Start, Agent!Start, Sync!RecoverStalled, Agent!RecoverStalled,
     Sync!PromoteDelayed, Agent!PromoteDelayed, Sync!Jobs, Agent!Jobs, Sync!Faults,
     Agent!Faults, Sync!PushFails, Agent!PushFails, Sync!WriteChannel,
     Agent!WriteChannel, Sync!Expected, Agent!Expected, Sync!ExpectedStock,
     Agent!ExpectedStock, Sync!CalculateOnlineStock, Agent!CalculateOnlineStock,
     Sync!IsOnlineChannel, Agent!IsOnlineChannel, Sync!LostReply, Agent!LostReply,
     Sync!SetStatus, Agent!SetStatus, Sync!NewRow, Agent!NewRow, Sync!Try, Agent!Try, Sync!JobOf,
     Agent!JobOf, Sync!Raise, Agent!Raise, Sync!OutsideTry, Agent!OutsideTry,
     Sync!InTry, Agent!InTry, Sync!DbError, Agent!DbError, Sync!PullUnavailable,
     Agent!PullUnavailable, Sync!Goto, Agent!Goto, Sync!JobStep, Agent!JobStep,
     Sync!FailSyncEvent, Agent!FailSyncEvent, Sync!LeaveRow, Agent!LeaveRow,
     Sync!RejectSyncEvent, Agent!RejectSyncEvent, Sync!CompleteSyncEvent,
     Agent!CompleteSyncEvent, Sync!EndProductSync, Agent!EndProductSync, Sync!OnlyRun,
     Agent!OnlyRun, Sync!PushChannel, Agent!PushChannel, Sync!LoadMappings,
     Agent!LoadMappings, Sync!Targets, Agent!Targets, Sync!UpdateProductStock,
     Agent!UpdateProductStock, Sync!PullStock, Agent!PullStock, Sync!CreateSyncEvent,
     Agent!CreateSyncEvent, Sync!NextProduct, Agent!NextProduct, Sync!LoadProducts,
     Agent!LoadProducts, Sync!ChooseSourceOfTruth, Agent!ChooseSourceOfTruth,
     Sync!ActiveChannels, Agent!ActiveChannels, Sync!SourceOfTruth,
     Agent!SourceOfTruth, Sync!CheckChannel, Agent!CheckChannel, Sync!LookupProduct,
     Agent!LookupProduct, Sync!Found, Agent!Found, Sync!FailJob, Agent!FailJob,
     Sync!FinishJob, Agent!FinishJob, Sync!TakeJob, Agent!TakeJob, Sync!RemoveAt,
     Agent!RemoveAt, Sync!IsNext, Agent!IsNext, Sync!Priority, Agent!Priority,
     Sync!Requests, Agent!Requests, Sync!TriggerFullSync, Agent!TriggerFullSync,
     Sync!AddSyncJob, Agent!AddSyncJob, Sync!TriggerChannelSync,
     Agent!TriggerChannelSync, Sync!TriggerProductSync, Agent!TriggerProductSync,
     Sync!HandleStockChange, Agent!HandleStockChange, Sync!Stock, Agent!Stock
<1>3. Sync!vars = Agent!vars
  BY Zenon DEF Sync!vars, Agent!vars, Sync!faultVars, Agent!faultVars, Sync!dataVars, Agent!dataVars,
     Sync!queueVars, Agent!queueVars
<1> QED
  BY <1>1, <1>2, <1>3

EngineInv == IInv /\ Agent!Inv

\* The agents mean the same by a stock level.
LEMMA AgentTypes ==
    Agent!Inv => /\ dbStock \in [Products -> Levels]
                 /\ chanStock \in [Products -> [Channels -> Levels]]
                 /\ active \in [Channels -> BOOLEAN]
BY DEF Agent!Inv, Agent!TypeOK, Agent!Stock, Levels

\* Who writes stocks and channels as the types allow, and nothing else of the
\* agent's, keeps its invariant.
LEMMA AgentKeeps ==
    ASSUME Agent!Inv, UNCHANGED syncVars,
           (dbStock \in [Products -> Levels])',
           (chanStock \in [Products -> [Channels -> Levels]])',
           (active \in [Channels -> BOOLEAN])'
    PROVE  Agent!Inv'
BY DEF Agent!Inv, Agent!TypeOK, Agent!QueueOK, Agent!RunsOK, Agent!RunOK, Agent!HoldsRow,
   Agent!JobOf, Agent!Stock, Levels, syncVars

LEMMA EngineStart == EngineInit => Init /\ EngineInv
<1> SUFFICES ASSUME EngineInit PROVE Init /\ EngineInv
  OBVIOUS
<1>1. Agent!Inv
  BY OneAgent, Agent!InitInv, AgentAssumptions DEF EngineInit
<1>2. Init
  BY <1>1, AgentTypes DEF EngineInit, Init
<1> QED
  BY <1>1, <1>2, InitInv DEF EngineInv

\* Every step of the engine is one of the Guardian's, one of the others' or none
\* the Guardian could notice.
LEMMA EngineStep == EngineInv /\ [EngineNext]_engineVars => [Next]_vars /\ EngineInv'
<1> SUFFICES ASSUME EngineInv, [EngineNext]_engineVars PROVE [Next]_vars /\ EngineInv'
  OBVIOUS
<1>0. TypeOK /\ Agent!Inv
  BY DEF EngineInv, IInv
<1>1. [Next]_vars /\ Agent!Inv'
  <2>1. CASE SyncStep
    <3>1. Agent!Inv'
      BY <1>0, <2>1, OneAgent, Agent!NextInv, AgentAssumptions DEF SyncStep
    <3>2. CASE stockVars' = stockVars
      <4>1. disturbed' = disturbed
        BY <1>0, <2>1, <3>2 DEF SyncStep, TypeOK
      <4>2. UNCHANGED vars
        BY <2>1, <3>2, <4>1 DEF SyncStep, vars, guardianVars
      <4> QED
        BY <3>1, <4>2
    <3>3. CASE stockVars' # stockVars
      <4>1. /\ (dbStock \in [Products -> Levels])'
            /\ (chanStock \in [Products -> [Channels -> Levels]])'
            /\ (active \in [Channels -> BOOLEAN])'
        BY <3>1 DEF Agent!Inv, Agent!TypeOK, Agent!Stock, Levels
      <4>2. disturbed' = TRUE /\ UNCHANGED <<g, flagged, guardianFaults>>
        BY <1>0, <2>1, <3>3 DEF SyncStep, TypeOK
      <4>3. Others
        BY <4>1, <4>2 DEF Others
      <4> QED
        BY <3>1, <4>3 DEF Next
    <3> QED
      BY <3>2, <3>3
  <2>2. CASE GuardianStep
    <3>1. Next
      BY <2>2 DEF GuardianStep, Next
    <3>2. TypeOK'
      BY <3>1, TypeStep DEF EngineInv, IInv
    <3>3. Agent!Inv'
      BY <1>0, <2>2, <3>2, AgentKeeps DEF GuardianStep, TypeOK
    <3> QED
      BY <3>1, <3>3
  <2>3. ASSUME NEW p \in Known, NEW c \in Mapping[p], UnreportedSale(p, c)
        PROVE  [Next]_vars /\ Agent!Inv'
    <3>1. PICK q \in Levels : chanStock' = [chanStock EXCEPT ![p][c] = q]
      BY <2>3 DEF UnreportedSale
    <3>2. /\ (dbStock \in [Products -> Levels])'
          /\ (chanStock \in [Products -> [Channels -> Levels]])'
          /\ (active \in [Channels -> BOOLEAN])'
      BY <1>0, <2>3, <3>1 DEF UnreportedSale, TypeOK
    <3>3. Others
      BY <2>3, <3>2 DEF UnreportedSale, Others
    <3>4. Agent!Inv'
      BY <1>0, <2>3, <3>2, AgentKeeps DEF UnreportedSale
    <3> QED
      BY <3>3, <3>4 DEF Next
  <2>4. CASE UNCHANGED engineVars
    <3>1. UNCHANGED vars /\ UNCHANGED syncVars /\ UNCHANGED stockVars
      BY <2>4 DEF engineVars, vars
    <3> QED
      BY <1>0, <3>1, AgentKeeps DEF stockVars, TypeOK
  <2> QED
    BY <2>1, <2>2, <2>3, <2>4 DEF EngineNext
<1>2. IInv'
  BY <1>1, TypeStep, LocatedStep, FaithfulStep DEF EngineInv, IInv
<1> QED
  BY <1>1, <1>2 DEF EngineInv

\* The Sync Agent's steps and the sales are steps of the Guardian's surroundings.
\* Others leaves those open but for the types, so this says no more than that stock
\* levels are all that is written; it is what carries the Guardian's theorems over.
LEMMA EngineIsGuardian == EngineSpec => Spec
<1>1. EngineInit => Init /\ EngineInv
  BY EngineStart
<1>2. EngineInv /\ [EngineNext]_engineVars => [Next]_vars /\ EngineInv'
  BY EngineStep
<1> QED
  BY <1>1, <1>2, PTL DEF EngineSpec, Spec

\* So the engine's repairs are consistent, the large drifts are the user's, and
\* the Sync Agent keeps to its types beside it.
THEOREM EngineKeepsGuardian ==
    EngineSpec => [](TypeOK /\ RepairedMeansConsistent) /\ LargeDriftsAreKept /\ []Agent!Inv
<1>1. EngineSpec => Spec
  BY EngineIsGuardian
<1>2. EngineSpec => []Agent!Inv
  <2>1. EngineInit => EngineInv
    BY EngineStart
  <2>2. EngineInv /\ [EngineNext]_engineVars => EngineInv'
    BY EngineStep
  <2>3. EngineInv => Agent!Inv
    BY DEF EngineInv
  <2> QED
    BY <2>1, <2>2, <2>3, PTL DEF EngineSpec
<1> QED
  BY <1>1, <1>2, TypeCorrect, RepairsAreConsistent, LargeDriftsStay, PTL
=============================================================================

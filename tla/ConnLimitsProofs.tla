-------------------------- MODULE ConnLimitsProofs --------------------------
(***************************************************************************)
(* Theorems about ConnLimits, for any number of connections, addresses,    *)
(* counters and any limits: the counters are exact and the limits hold     *)
(* however the atomic operations of the connections interleave.            *)
(***************************************************************************)
EXTENDS ConnLimits, FiniteSetTheorems, TLAPS

Counted(k) == Holding(k) \intersect At({"refused", "live"})
LiveOn(k) == Holding(k) \intersect At({"live"})
Present == At(Labels \ {"away"})

(* The connections that were let in and have not started to leave.         *)
AdmittedLabels == {"waiting", "scanning", "found", "refused", "live"}
Admitted == At(AdmittedLabels)

(* Types, but for the signs of the counters, and who has what: a counter   *)
(* in hand from the look-up to the drop, the lock while scanning, and only *)
(* entries left to scan that are there.                                    *)
Shape ==
  /\ total \in Int
  /\ counterOf \in [IPs -> Counters \union {NoCounter}]
  /\ count \in [Counters -> Int]
  /\ lock \in Tasks \union {NoTask} /\ unscanned \in SUBSET IPs
  /\ pc \in [Tasks -> Labels]
  /\ held \in [Tasks -> Counters \union {NoCounter}]
  /\ \A t \in Tasks : pc[t] \in {"found", "refused", "live"} <=> held[t] # NoCounter
  /\ \A t \in Tasks : pc[t] = "scanning" <=> lock = t
  /\ \A ip \in unscanned : counterOf[ip] # NoCounter

Exact ==
  /\ \A k \in Counters : count[k] = Cardinality(Counted(k))
  /\ total >= Cardinality(Present)

(* The limits in the form that is inductive: all that were let in, and not *)
(* only those that have a guard already, are within the limit.             *)
Limits ==
  /\ Cardinality(Admitted) <= MaxTotal
  /\ \A k \in Counters : Cardinality(LiveOn(k)) <= MaxPerIP

LimitsInv == Shape /\ Exact /\ Limits

-----------------------------------------------------------------------------
(* Sets of tasks *)

LEMMA TasksFinite ==
  ASSUME NEW S \in SUBSET Tasks
  PROVE  IsFiniteSet(S) /\ Cardinality(S) \in Nat
BY LimitsAssumption, FS_Subset, FS_CardinalityType

LEMMA OneMore ==
  ASSUME NEW S \in SUBSET Tasks, NEW t \in Tasks, t \notin S
  PROVE  Cardinality(S \union {t}) = Cardinality(S) + 1
BY TasksFinite, FS_AddElement

LEMMA OneLess ==
  ASSUME NEW S \in SUBSET Tasks, NEW t \in S
  PROVE  Cardinality(S \ {t}) = Cardinality(S) - 1
BY TasksFinite, FS_RemoveElement

LEMMA NotMore ==
  ASSUME NEW S \in SUBSET Tasks, NEW T \in SUBSET S
  PROVE  Cardinality(T) <= Cardinality(S)
BY TasksFinite, FS_Subset

-----------------------------------------------------------------------------
(* Types *)

LEMMA ShapeInit == Init => Shape
BY LimitsAssumption DEF Init, Shape, Labels

LEMMA ShapeStep == ASSUME Shape, [Next]_vars PROVE Shape'
<1> USE LimitsAssumption
<1>1. ASSUME NEW t \in Tasks, Arrive(t) PROVE Shape'
  BY <1>1 DEF Arrive, Shape, Goto, locked, Labels
<1>2. ASSUME NEW t \in Tasks, Cancel(t) PROVE Shape'
  BY <1>2 DEF Cancel, Shape, Goto, locked, Labels
<1>3. ASSUME NEW t \in Tasks, TakeLock(t) PROVE Shape'
  BY <1>3 DEF TakeLock, Shape, Goto, Labels
<1>4. ASSUME NEW t \in Tasks, NEW ip \in IPs, Prune(t, ip) PROVE Shape'
  BY <1>4 DEF Prune, Shape, Labels
<1>5. ASSUME NEW t \in Tasks, LookUp(t) PROVE Shape'
  BY <1>5 DEF LookUp, Shape, Goto, Put, Unused, Labels
<1>6. ASSUME NEW t \in Tasks, Count(t) PROVE Shape'
  BY <1>6 DEF Count, Shape, Goto, locked, Labels
<1>7. ASSUME NEW t \in Tasks, Uncount(t) PROVE Shape'
  BY <1>7 DEF Uncount, Shape, Goto, Put, locked, Labels
<1>8. ASSUME NEW t \in Tasks, Release(t) PROVE Shape'
  BY <1>8 DEF Release, Shape, Goto, locked, Labels
<1>9. CASE UNCHANGED vars
  BY <1>9 DEF vars, locked, Shape
<1> QED BY <1>1, <1>2, <1>3, <1>4, <1>5, <1>6, <1>7, <1>8, <1>9 DEF Next

-----------------------------------------------------------------------------
(* The sets the counters stand for *)

(* A task that moves to a label enters or leaves the sets of labels.       *)
LEMMA Moves ==
  ASSUME Shape, NEW t \in Tasks, NEW l, NEW L, Goto(t, l)
  PROVE  At(L)' = IF l \in L THEN At(L) \union {t} ELSE At(L) \ {t}
BY DEF Shape, Goto, At

(* Between two counts a counter keeps those who are counted in it.         *)
LEMMA SameCount ==
  ASSUME Shape, Exact, NEW t \in Tasks, NEW l,
         Goto(t, l), pc[t] \notin {"refused", "live"}, l \notin {"refused", "live"},
         \A u \in Tasks : u # t => held'[u] = held[u],
         NEW k \in Counters, count'[k] = count[k]
  PROVE  count'[k] = Cardinality(Counted(k)') /\ LiveOn(k)' = LiveOn(k)
<1>1. Counted(k)' = Counted(k) /\ LiveOn(k)' = LiveOn(k)
  BY DEF Counted, LiveOn, Holding, At, Goto, Shape
<1> QED BY <1>1 DEF Exact

(* A step inside the handling of a connection changes no set that the      *)
(* total and its limit are about.                                          *)
LEMMA StillThere ==
  ASSUME Shape, NEW t \in Tasks, NEW l, Goto(t, l),
         pc[t] \in AdmittedLabels, l \in AdmittedLabels
  PROVE  Present' = Present /\ Admitted' = Admitted
<1>1. \A u \in Tasks : pc'[u] = IF u = t THEN l ELSE pc[u]
  BY DEF Goto, Shape
<1>2. Present' = Present
  BY <1>1 DEF Present, At, AdmittedLabels, Labels
<1>3. Admitted' = Admitted
  BY <1>1 DEF Admitted, At, AdmittedLabels
<1> QED BY <1>2, <1>3

LEMMA CountsInit == Init => Exact /\ Limits
<1> SUFFICES ASSUME Init PROVE Exact /\ Limits
  OBVIOUS
<1>1. Present = {} /\ Admitted = {} /\ \A k \in Counters : Counted(k) = {} /\ LiveOn(k) = {}
  BY DEF Init, Present, Admitted, AdmittedLabels, Counted, LiveOn, At, Labels
<1> QED BY <1>1, FS_EmptySet, LimitsAssumption DEF Init, Exact, Limits

(* Arrivals: the total is taken before anything else is looked at.         *)
LEMMA ArriveCounts ==
  ASSUME LimitsInv, NEW t \in Tasks, Arrive(t) PROVE Exact' /\ Limits'
<1> USE DEF LimitsInv
<1> DEFINE l == IF total >= MaxTotal THEN "releasing" ELSE "waiting"
<1>1. Goto(t, l) /\ pc[t] = "away" /\ total' = total + 1 /\ count' = count /\ held' = held
  BY DEF Arrive
<1>2. t \notin Present /\ t \notin Admitted /\ l \in Labels \ {"away"}
  BY <1>1 DEF Present, Admitted, AdmittedLabels, At, Labels
<1>3. \A k \in Counters : count'[k] = Cardinality(Counted(k)') /\ LiveOn(k)' = LiveOn(k)
  BY <1>1, SameCount
<1>4. Present' = Present \union {t}
  BY <1>1, <1>2, Moves DEF Present
<1>5. Present \in SUBSET Tasks /\ Admitted \in SUBSET Present
  BY DEF Present, Admitted, AdmittedLabels, At, Labels
<1>6. total' >= Cardinality(Present')
  BY <1>1, <1>2, <1>4, <1>5, OneMore, TasksFinite DEF Exact, Shape
<1>7. Cardinality(Admitted') <= MaxTotal
  <2>1. CASE total >= MaxTotal
    <3>1. l = "releasing" /\ l \notin AdmittedLabels
      BY <2>1 DEF AdmittedLabels
    <3>2. Admitted' = Admitted \ {t}
      BY <3>1, <1>1, Moves DEF Admitted
    <3> QED BY <3>2, <1>2 DEF Limits
  <2>2. CASE ~(total >= MaxTotal)
    <3>1. Admitted' = Admitted \union {t}
      BY <2>2, <1>1, Moves DEF Admitted, AdmittedLabels
    <3>2. Cardinality(Admitted') = Cardinality(Admitted) + 1
      BY <3>1, <1>2, <1>5, OneMore
    <3>3. Cardinality(Admitted) <= Cardinality(Present)
      BY <1>5, NotMore
    <3> QED BY <2>2, <3>2, <3>3, <1>5, TasksFinite, LimitsAssumption DEF Exact, Shape
  <2> QED BY <2>1, <2>2
<1> QED BY <1>3, <1>6, <1>7 DEF Exact, Limits

(* Departures: the total is given back last, or never.                     *)
LEMMA DepartCounts ==
  ASSUME LimitsInv, NEW t \in Tasks, Cancel(t) \/ Release(t) PROVE Exact' /\ Limits'
<1> USE DEF LimitsInv
<1>1. /\ Goto(t, "away") /\ pc[t] \in {"waiting", "releasing"}
      /\ count' = count /\ held' = held /\ total' \in {total, total - 1}
  BY DEF Cancel, Release, locked
<1>2. \A k \in Counters : count'[k] = Cardinality(Counted(k)') /\ LiveOn(k)' = LiveOn(k)
  BY <1>1, SameCount
<1>3. Present' = Present \ {t} /\ Admitted' = Admitted \ {t} /\ t \in Present
  <2>1. "away" \notin Labels \ {"away"} /\ "away" \notin AdmittedLabels
    BY DEF AdmittedLabels
  <2>2. t \in Present
    BY <1>1 DEF Present, At, Labels
  <2> QED BY <1>1, <2>1, <2>2, Moves DEF Present, Admitted
<1>4. Present \in SUBSET Tasks /\ Admitted \in SUBSET Tasks
  BY DEF Present, Admitted, At
<1>5. total' >= Cardinality(Present')
  BY <1>1, <1>3, <1>4, OneLess, TasksFinite DEF Exact, Shape
<1>6. Cardinality(Admitted') <= MaxTotal
  <2>1. Cardinality(Admitted') <= Cardinality(Admitted)
    BY <1>3, <1>4, NotMore
  <2> QED BY <2>1, <1>3, <1>4, TasksFinite, LimitsAssumption DEF Limits
<1> QED BY <1>2, <1>5, <1>6 DEF Exact, Limits

(* Finding a counter: a new one is in nobody's hands.                      *)
LEMMA LookUpCounts ==
  ASSUME LimitsInv, NEW t \in Tasks, TakeLock(t) \/ LookUp(t) PROVE Exact' /\ Limits'
<1> USE DEF LimitsInv
<1> DEFINE l == IF TakeLock(t) THEN "scanning" ELSE "found"
<1>1. /\ Goto(t, l) /\ pc[t] \in {"waiting", "scanning"} /\ total' = total
      /\ \A u \in Tasks : u # t => held'[u] = held[u]
      /\ \A k \in Counters : count'[k] = count[k] \/ (k \in Unused /\ count'[k] = 0)
  <2>1. CASE TakeLock(t)
    BY <2>1 DEF TakeLock
  <2>2. CASE LookUp(t)
    <3>1. pc[t] = "scanning" /\ Goto(t, "found") /\ total' = total /\ ~TakeLock(t)
      BY <2>2 DEF LookUp, TakeLock
    <3> QED BY <2>2, <3>1 DEF LookUp, Put, Shape
  <2> QED BY <2>1, <2>2
<1>2. \A k \in Counters : count'[k] = count[k]
  <2> SUFFICES ASSUME NEW k \in Unused, count'[k] = 0 PROVE count'[k] = count[k]
    BY <1>1 DEF Unused
  <2>1. Counted(k) = {} /\ k \in Counters
    BY DEF Unused, Counted, Holding
  <2> QED BY <2>1, FS_EmptySet DEF Exact
<1>3. \A k \in Counters : count'[k] = Cardinality(Counted(k)') /\ LiveOn(k)' = LiveOn(k)
  BY <1>1, <1>2, SameCount
<1>4. Present' = Present /\ Admitted' = Admitted
  BY <1>1, StillThere DEF AdmittedLabels
<1> QED BY <1>1, <1>3, <1>4 DEF Exact, Limits

(* The count: the value it found is the number of those counted before.    *)
LEMMA CountCounts ==
  ASSUME LimitsInv, NEW t \in Tasks, Count(t) PROVE Exact' /\ Limits'
<1> USE DEF LimitsInv
<1> DEFINE h == held[t]
           l == IF count[h] >= MaxPerIP THEN "refused" ELSE "live"
<1>1. /\ Goto(t, l) /\ pc[t] = "found" /\ total' = total /\ held' = held
      /\ count' = [count EXCEPT ![h] = @ + 1] /\ h \in Counters
  BY DEF Count, Shape
<1>2. Present' = Present /\ Admitted' = Admitted
  BY <1>1, StillThere DEF AdmittedLabels
<1>3. \A k \in Counters : k # h => Counted(k)' = Counted(k) /\ LiveOn(k)' = LiveOn(k)
  BY <1>1 DEF Counted, LiveOn, Holding, At, Goto, Shape
<1>4. Counted(h)' = Counted(h) \union {t} /\ t \notin Counted(h)
  BY <1>1 DEF Counted, Holding, At, Goto, Shape
<1>5. Counted(h) \in SUBSET Tasks /\ LiveOn(h) \in SUBSET Counted(h)
  BY DEF Counted, LiveOn, Holding, At
<1>6. \A k \in Counters : count'[k] = Cardinality(Counted(k)')
  BY <1>1, <1>3, <1>4, <1>5, OneMore DEF Exact, Shape
<1>7. Cardinality(LiveOn(h)') <= MaxPerIP
  <2>1. CASE count[h] >= MaxPerIP
    <3>1. LiveOn(h)' = LiveOn(h)
      BY <2>1, <1>1 DEF LiveOn, Holding, At, Goto, Shape
    <3> QED BY <3>1, <1>1 DEF Limits
  <2>2. CASE ~(count[h] >= MaxPerIP)
    <3>1. LiveOn(h)' = LiveOn(h) \union {t} /\ t \notin LiveOn(h)
      BY <2>2, <1>1 DEF LiveOn, Holding, At, Goto, Shape
    <3>2. Cardinality(LiveOn(h)') = Cardinality(LiveOn(h)) + 1
      BY <3>1, <1>5, OneMore
    <3>3. Cardinality(LiveOn(h)) <= count[h]
      BY <1>1, <1>5, NotMore DEF Exact
    <3> QED BY <2>2, <3>2, <3>3, <1>1, <1>5, TasksFinite, LimitsAssumption DEF Shape
  <2> QED BY <2>1, <2>2
<1> QED BY <1>1, <1>2, <1>3, <1>6, <1>7 DEF Exact, Limits

(* The drop: the counter is left before the total.                         *)
LEMMA UncountCounts ==
  ASSUME LimitsInv, NEW t \in Tasks, Uncount(t) PROVE Exact' /\ Limits'
<1> USE DEF LimitsInv
<1>h. PICK h \in Counters : h = held[t]
  BY DEF Uncount, Shape
<1>1. /\ Goto(t, "releasing") /\ pc[t] \in {"refused", "live"} /\ total' = total
      /\ held' = [held EXCEPT ![t] = NoCounter]
      /\ count' = [count EXCEPT ![h] = @ - 1] /\ held[t] = h
  BY <1>h DEF Uncount, Put, Shape
<1>2. Present' = Present /\ Admitted' = Admitted \ {t}
  <2>1. \A u \in Tasks : pc'[u] = IF u = t THEN "releasing" ELSE pc[u]
    BY <1>1 DEF Goto, Shape
  <2>2. Present' = Present
    BY <1>1, <2>1 DEF Present, At, Labels
  <2>3. Admitted' = Admitted \ {t}
    BY <1>1, <2>1 DEF Admitted, At, AdmittedLabels
  <2> QED BY <2>2, <2>3
<1>3. \A k \in Counters : k # h => Counted(k)' = Counted(k)
  BY <1>1, LimitsAssumption DEF Counted, Holding, At, Goto, Shape
<1>4. Counted(h)' = Counted(h) \ {t} /\ t \in Counted(h)
  <2>1. \A u \in Tasks : /\ held'[u] = IF u = t THEN NoCounter ELSE held[u]
                        /\ pc'[u] = IF u = t THEN "releasing" ELSE pc[u]
    BY <1>1 DEF Goto, Shape
  <2>2. h # NoCounter
    BY <1>1, LimitsAssumption
  <2>3. t \in Counted(h)
    BY <1>1 DEF Counted, Holding, At
  <2>4. \A u \in Tasks : held'[u] = h /\ pc'[u] \in {"refused", "live"}
                       <=> u # t /\ held[u] = h /\ pc[u] \in {"refused", "live"}
    BY <2>1, <2>2
  <2>5. {u \in Tasks : held'[u] = h} \intersect {u \in Tasks : pc'[u] \in {"refused", "live"}}
        = Counted(h) \ {t}
    BY <2>4 DEF Counted, Holding, At
  <2> QED BY <2>3, <2>5 DEF Counted, Holding, At
<1>5. \A k \in Counters : LiveOn(k)' \in SUBSET LiveOn(k) /\ LiveOn(k) \in SUBSET Tasks
  BY <1>1, LimitsAssumption DEF LiveOn, Holding, At, Goto, Shape
<1>6. \A k \in Counters : count'[k] = Cardinality(Counted(k)')
  <2>1. Counted(h) \in SUBSET Tasks
    BY DEF Counted, Holding
  <2> QED BY <1>1, <1>3, <1>4, <2>1, OneLess DEF Exact, Shape
<1>7. \A k \in Counters : Cardinality(LiveOn(k)') <= MaxPerIP
  <2> SUFFICES ASSUME NEW k \in Counters PROVE Cardinality(LiveOn(k)') <= MaxPerIP
    OBVIOUS
  <2>1. Cardinality(LiveOn(k)') <= Cardinality(LiveOn(k))
    BY <1>5, NotMore
  <2> QED BY <2>1, <1>5, TasksFinite, LimitsAssumption DEF Limits
<1>8. Cardinality(Admitted') <= MaxTotal
  <2>1. Admitted \in SUBSET Tasks
    BY DEF Admitted, At
  <2>2. Cardinality(Admitted') <= Cardinality(Admitted)
    BY <1>2, <2>1, NotMore
  <2> QED BY <2>1, <2>2, <1>2, TasksFinite, LimitsAssumption DEF Limits
<1> QED BY <1>1, <1>2, <1>6, <1>7, <1>8 DEF Exact, Limits

LEMMA LimitsStep == ASSUME LimitsInv, [Next]_vars PROVE LimitsInv'
<1>1. Shape'
  BY ShapeStep DEF LimitsInv
<1>2. ASSUME NEW t \in Tasks, NEW ip \in IPs, Prune(t, ip) PROVE Exact' /\ Limits'
  BY <1>2 DEF Prune, LimitsInv, Exact, Limits, Counted, LiveOn, Present, Admitted, Holding, At
<1>3. ASSUME UNCHANGED vars PROVE Exact' /\ Limits'
  BY <1>3 DEF vars, LimitsInv, Exact, Limits, Counted, LiveOn, Present, Admitted, Holding, At
<1>4. Exact' /\ Limits'
  <2> SUFFICES ASSUME Next PROVE Exact' /\ Limits'
    BY <1>3
  <2>1. PICK t \in Tasks : \/ Arrive(t) \/ Cancel(t) \/ TakeLock(t)
                          \/ (\E ip \in IPs : Prune(t, ip))
                          \/ LookUp(t) \/ Count(t) \/ Uncount(t) \/ Release(t)
    BY DEF Next
  <2>2. CASE Arrive(t)
    BY <2>2, ArriveCounts
  <2>3. CASE Cancel(t) \/ Release(t)
    BY <2>3, DepartCounts
  <2>4. CASE TakeLock(t) \/ LookUp(t)
    BY <2>4, LookUpCounts
  <2>5. CASE \E ip \in IPs : Prune(t, ip)
    BY <2>5, <1>2
  <2>6. CASE Count(t)
    BY <2>6, CountCounts
  <2>7. CASE Uncount(t)
    BY <2>7, UncountCounts
  <2> QED BY <2>1, <2>2, <2>3, <2>4, <2>5, <2>6, <2>7
<1> QED BY <1>1, <1>4 DEF LimitsInv

-----------------------------------------------------------------------------
(* The theorems *)

LEMMA LimitsInvariant == Spec => []LimitsInv
<1>1. Init => LimitsInv
  BY ShapeInit, CountsInit DEF LimitsInv
<1> QED BY <1>1, LimitsStep, PTL DEF Spec

(* No counter is ever negative: what is given back was taken.              *)
THEOREM LimitsTypeCorrect == Spec => []TypeOK
<1>1. LimitsInv => TypeOK
  <2> SUFFICES ASSUME LimitsInv PROVE TypeOK
    OBVIOUS
  <2>1. total \in Nat
    <3>1. Present \in SUBSET Tasks
      BY DEF Present, At
    <3> QED BY <3>1, TasksFinite DEF LimitsInv, Shape, Exact
  <2>2. \A k \in Counters : count[k] \in Nat
    <3>1. \A k \in Counters : Counted(k) \in SUBSET Tasks
      BY DEF Counted, Holding
    <3> QED BY <3>1, TasksFinite DEF LimitsInv, Exact
  <2> QED BY <2>1, <2>2 DEF LimitsInv, Shape, TypeOK
<1> QED BY <1>1, LimitsInvariant, PTL

(* The counters of room.rs are exact between the steps of acquire_ip_slot  *)
(* and of the guards, and the total is never too low.                      *)
THEOREM CountersExact == Spec => []CountersMatchTasks
<1>1. LimitsInv => CountersMatchTasks
  BY DEF LimitsInv, Exact, CountersMatchTasks, Counted, Present
<1> QED BY <1>1, LimitsInvariant, PTL

(* However the requests interleave, the limits in all and per counter      *)
(* hold.                                                                   *)
THEOREM LimitsHold == Spec => []GuardsWithinLimits
<1>1. LimitsInv => GuardsWithinLimits
  <2> SUFFICES ASSUME LimitsInv PROVE GuardsWithinLimits
    OBVIOUS
  <2>1. Admitted \in SUBSET Tasks /\ At({"live"}) \in SUBSET Admitted
    BY DEF Admitted, AdmittedLabels, At
  <2>2. Cardinality(At({"live"})) <= Cardinality(Admitted)
    BY <2>1, NotMore
  <2>3. Cardinality(At({"live"})) <= MaxTotal
    BY <2>1, <2>2, TasksFinite, LimitsAssumption DEF LimitsInv, Limits
  <2> QED BY <2>3 DEF LimitsInv, Limits, GuardsWithinLimits, LiveOn
<1> QED BY <1>1, LimitsInvariant, PTL

(* A counter with a connection in it keeps its entry in the map.           *)
THEOREM EntriesAreKept == Spec => CountedKeepsItsEntry
<1> DEFINE Keeps == \A ip \in IPs :
             LET k == counterOf[ip] IN
             k # NoCounter /\ counterOf'[ip] # k => Holding(k) \intersect At({"refused", "live"}) = {}
<1>1. ASSUME LimitsInv, [Next]_vars PROVE Keeps
  <2> SUFFICES ASSUME NEW ip \in IPs, counterOf[ip] # NoCounter, counterOf'[ip] # counterOf[ip]
               PROVE  Counted(counterOf[ip]) = {}
    BY DEF Counted
  <2>1. PICK t \in Tasks : (\E i \in IPs : Prune(t, i)) \/ LookUp(t)
    BY <1>1 DEF Next, vars, locked, Arrive, Cancel, TakeLock, Count, Uncount, Release
  <2>2. ~LookUp(t)
    BY <1>1, LimitsAssumption DEF LookUp, LimitsInv, Shape
  <2>3. counterOf[ip] \in Counters /\ ~(count[counterOf[ip]] > 0)
    BY <1>1, <2>1, <2>2 DEF Prune, LimitsInv, Shape
  <2>4. Counted(counterOf[ip]) \in SUBSET Tasks
    BY DEF Counted, Holding
  <2>5. Cardinality(Counted(counterOf[ip])) = 0
    BY <1>1, <2>3, <2>4, TasksFinite DEF LimitsInv, Exact
  <2> QED BY <2>4, <2>5, TasksFinite, FS_EmptySet
<1> QED BY <1>1, LimitsInvariant, PTL DEF Spec, CountedKeepsItsEntry
=============================================================================

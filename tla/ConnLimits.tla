----------------------------- MODULE ConnLimits -----------------------------
(***************************************************************************)
(* Connection slots: acquire_ip_slot and IpConnectionGuard of room.rs.     *)
(*                                                                         *)
(* A task is the handling of one connection, from its request to the drop  *)
(* of its guard, and then of another one.  The two kinds of counters are   *)
(* atomics that any task may touch at any time, so every fetch_add and     *)
(* fetch_sub is a step of its own; only the map from addresses to counters *)
(* is under a lock, and under it the entries are pruned one by one.  A     *)
(* counter is a heap object that outlives its entry in the map: its        *)
(* identity is what the tasks that hold it share.                          *)
(***************************************************************************)
EXTENDS Integers, FiniteSets

CONSTANTS
  Tasks,         (* connections being handled at the same time             *)
  IPs,           (* client addresses                                       *)
  AddressOf,     (* the address each task's connections come from          *)
  Counters,      (* identities for the Arc<AtomicUsize> that are allocated *)
  NoTask,        (* nobody has the write lock                              *)
  NoCounter,     (* no entry in the map, no counter in hand                *)
  MaxTotal,      (* MAX_TOTAL_CONNECTIONS                                  *)
  MaxPerIP       (* MAX_CONNECTIONS_PER_IP                                 *)

ASSUME LimitsAssumption ==
  /\ AddressOf \in [Tasks -> IPs]
  /\ IsFiniteSet(Tasks)
  /\ NoTask \notin Tasks /\ NoCounter \notin Counters
  /\ MaxTotal \in Nat \ {0} /\ MaxPerIP \in Nat \ {0}

VARIABLES
  total,       (* total_connections                                        *)
  counterOf,   (* ip_connections: the counter of an address                *)
  count,       (* the value of a counter                                   *)
  lock,        (* who has the write lock of ip_connections                 *)
  unscanned,   (* the entries retain has yet to look at                    *)
  pc,          (* where a task is                                          *)
  held         (* the counter it has a reference to                        *)

vars == <<total, counterOf, count, lock, unscanned, pc, held>>
locked == <<lock, unscanned, counterOf>>

Init ==
  /\ total = 0
  /\ counterOf = [ip \in IPs |-> NoCounter]
  /\ count = [k \in Counters |-> 0]
  /\ lock = NoTask /\ unscanned = {}
  /\ pc = [t \in Tasks |-> "away"]
  /\ held = [t \in Tasks |-> NoCounter]

Goto(t, label) == pc' = [pc EXCEPT ![t] = label]
Put(t, k) == held' = [held EXCEPT ![t] = k]

(* Counters nobody has a reference to: what or_insert_with can allocate.   *)
Unused == {k \in Counters : (\A ip \in IPs : counterOf[ip] # k) /\ \A t \in Tasks : held[t] # k}

-----------------------------------------------------------------------------
(* acquire_ip_slot *)

(* A slip: one connection more than the limit is let in.                   *)
ArriveOffByOne(t) ==
  /\ pc[t] = "away"
  /\ total' = total + 1
  /\ Goto(t, IF total > MaxTotal THEN "releasing" ELSE "waiting")
  /\ UNCHANGED <<locked, count, held>>

Arrive(t) ==
  /\ pc[t] = "away"
  /\ total' = total + 1
  /\ Goto(t, IF total >= MaxTotal THEN "releasing" ELSE "waiting")
  /\ UNCHANGED <<locked, count, held>>

(* The peer is gone while its handler waits for the lock: hyper drops the  *)
(* future at its await, and nobody takes the connection off the total.     *)
Cancel(t) ==
  /\ pc[t] = "waiting" /\ lock # NoTask
  /\ Goto(t, "away")
  /\ UNCHANGED <<locked, total, count, held>>

TakeLock(t) ==
  /\ pc[t] = "waiting" /\ lock = NoTask
  /\ lock' = t
  /\ unscanned' = {ip \in IPs : counterOf[ip] # NoCounter}
  /\ Goto(t, "scanning")
  /\ UNCHANGED <<total, counterOf, count, held>>

(* retain: an entry whose counter is zero right now is removed.            *)
Prune(t, ip) ==
  /\ pc[t] = "scanning" /\ ip \in unscanned
  /\ unscanned' = unscanned \ {ip}
  /\ counterOf' = IF count[counterOf[ip]] > 0 THEN counterOf
                  ELSE [counterOf EXCEPT ![ip] = NoCounter]
  /\ UNCHANGED <<total, count, lock, pc, held>>

(* A slip: every connection gets a counter of its own.                     *)
LookUpAlwaysNew(t) ==
  /\ pc[t] = "scanning" /\ unscanned = {}
  /\ \E k \in Unused :
       /\ Put(t, k)
       /\ count' = [count EXCEPT ![k] = 0]
       /\ counterOf' = [counterOf EXCEPT ![AddressOf[t]] = k]
  /\ lock' = NoTask
  /\ Goto(t, "found")
  /\ UNCHANGED <<total, unscanned>>

(* entry(ip).or_insert_with: the counter of the address, or a new one.     *)
LookUp(t) ==
  LET k == counterOf[AddressOf[t]] IN
  /\ pc[t] = "scanning" /\ unscanned = {}
  /\ \/ k # NoCounter /\ Put(t, k) /\ UNCHANGED <<count, counterOf>>
     \/ /\ k = NoCounter
        /\ \E new \in Unused :
             /\ Put(t, new)
             /\ count' = [count EXCEPT ![new] = 0]
             /\ counterOf' = [counterOf EXCEPT ![AddressOf[t]] = new]
  /\ lock' = NoTask
  /\ Goto(t, "found")
  /\ UNCHANGED <<total, unscanned>>

(* A guard, or one connection too many from this address.                  *)
Count(t) ==
  /\ pc[t] = "found"
  /\ count' = [count EXCEPT ![held[t]] = @ + 1]
  /\ Goto(t, IF count[held[t]] >= MaxPerIP THEN "refused" ELSE "live")
  /\ UNCHANGED <<locked, total, held>>

(* A slip: the refused connection is taken off the total only.             *)
UncountRefusedOnlyTotal(t) ==
  /\ pc[t] \in {"refused", "live"}
  /\ count' = IF pc[t] = "live" THEN [count EXCEPT ![held[t]] = @ - 1] ELSE count
  /\ Put(t, NoCounter)
  /\ Goto(t, "releasing")
  /\ UNCHANGED <<locked, total>>

(* A slip: the guard gives its place in the total back twice, on release   *)
(* and on drop.                                                            *)
UncountTwice(t) ==
  /\ pc[t] \in {"refused", "live"}
  /\ count' = [count EXCEPT ![held[t]] = @ - 1]
  /\ Put(t, NoCounter)
  /\ total' = total - 1
  /\ Goto(t, "releasing")
  /\ UNCHANGED locked

(* The refusal, and the drop of the guard, begin alike ...                 *)
Uncount(t) ==
  /\ pc[t] \in {"refused", "live"}
  /\ count' = [count EXCEPT ![held[t]] = @ - 1]
  /\ Put(t, NoCounter)
  /\ Goto(t, "releasing")
  /\ UNCHANGED <<locked, total>>

(* ... and end like the refusal of one connection too many in all.         *)
Release(t) ==
  /\ pc[t] = "releasing"
  /\ total' = total - 1
  /\ Goto(t, "away")
  /\ UNCHANGED <<locked, count, held>>

Next ==
  \E t \in Tasks :
    \/ Arrive(t)
    \/ Cancel(t)
    \/ TakeLock(t)
    \/ \E ip \in IPs : Prune(t, ip)
    \/ LookUp(t)
    \/ Count(t)
    \/ Uncount(t)
    \/ Release(t)

Spec == Init /\ [][Next]_vars

-----------------------------------------------------------------------------
(* Properties *)

Labels == {"away", "waiting", "scanning", "found", "refused", "live", "releasing"}

(* Every counter, entry and task has its type.                             *)
TypeOK ==
  /\ total \in Nat
  /\ counterOf \in [IPs -> Counters \union {NoCounter}]
  /\ count \in [Counters -> Nat]
  /\ lock \in Tasks \union {NoTask} /\ unscanned \in SUBSET IPs
  /\ pc \in [Tasks -> Labels]
  /\ held \in [Tasks -> Counters \union {NoCounter}]

At(labels) == {t \in Tasks : pc[t] \in labels}
Holding(k) == {t \in Tasks : held[t] = k}

(* The counters are exact: each is the number of tasks that have counted   *)
(* themselves in it and not yet out, whatever was pruned or re-created in  *)
(* between; and the total is never less than the connections under way.    *)
(* (It may be more: a cancelled handler stays in it.)                      *)
CountersMatchTasks ==
  /\ \A k \in Counters :
       count[k] = Cardinality(Holding(k) \intersect At({"refused", "live"}))
  /\ total >= Cardinality(At(Labels \ {"away"}))

(* However the requests interleave, never more than MAX_TOTAL_CONNECTIONS  *)
(* guards exist, nor more than MAX_CONNECTIONS_PER_IP on one counter.      *)
GuardsWithinLimits ==
  /\ Cardinality(At({"live"})) <= MaxTotal
  /\ \A k \in Counters : Cardinality(Holding(k) \intersect At({"live"})) <= MaxPerIP

(* A counter that somebody is counted in keeps its entry: neither pruning  *)
(* nor another look-up separates an address from the counter its live      *)
(* connections are in, so later ones are counted with them.                *)
CountedKeepsItsEntry ==
  [][\A ip \in IPs :
       LET k == counterOf[ip] IN
       k # NoCounter /\ counterOf'[ip] # k => Holding(k) \intersect At({"refused", "live"}) = {}]_vars

(* DESIGN.md, Per-IP limits: so many connections per address.  A counter   *)
(* can lose its entry between a look-up and the count that follows it.     *)
GuardsPerAddress ==
  \A ip \in IPs : Cardinality({t \in At({"live"}) : AddressOf[t] = ip}) <= MaxPerIP
=============================================================================

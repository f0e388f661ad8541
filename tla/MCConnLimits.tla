---------------------------- MODULE MCConnLimits ----------------------------
(***************************************************************************)
(* ConnLimits for TLC: three tasks from one address and one from another.  *)
(***************************************************************************)
EXTENDS ConnLimits, TLC

CONSTANTS t1, t2, t3, t4, ip1, ip2, k1, k2, k3, k4, k5

MCTasks == {t1, t2, t3, t4}
MCIPs == {ip1, ip2}
MCAddressOf == [t \in MCTasks |-> IF t = t4 THEN ip2 ELSE ip1]
MCCounters == {k1, k2, k3, k4, k5}

Symmetry == Permutations({t1, t2, t3}) \union Permutations(MCCounters)
=============================================================================

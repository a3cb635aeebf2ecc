-------------------------- MODULE MCStreamManager --------------------------
(***************************************************************************)
(* Instances of StreamManager for TLC: node 1, which connects to port 1 of *)
(* nodes 2 and 3, and which node 2 connects to.                            *)
(***************************************************************************)
EXTENDS StreamManager

CONSTANTS t1, t2

None == {}

OneTarget == {[dst |-> 2, dstPort |-> 1]}
TwoTargets == {[dst |-> 2, dstPort |-> 1], [dst |-> 3, dstPort |-> 1]}

OnePort == {1}

OneRemote == {[src |-> 2, dst |-> 1, srcPort |-> 0, dstPort |-> 1]}

OneThread == {t1}
TwoThreads == {t1, t2}

ThreadSymmetry == Permutations(TwoThreads)
=============================================================================

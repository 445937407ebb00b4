---------------------- MODULE MCTransactionForwarder ----------------------
(* t1 is in the protocol that the endpoints take, and t2, which is for the *)
(* metrics endpoint, in the other one; t3 is addressed to e1; t4 is larger *)
(* than the retry queue.                                                   *)
EXTENDS TransactionForwarder

CONSTANTS t1, t2, t3, t4, e1, e2

MCTxnsFaults == {t1, t2, t3, t4}
MCTxnsDrain == {t2, t3, t4}
MCTxnsStall == {t1}
MCOversize == {t4} \cap Txns
MCEndpoints1 == <<e1>>
MCEndpoints2 == <<e1, e2>>
MCIsMetrics == [t \in Txns |-> t = t2]
MCVersion == [t \in Txns |-> IF t = t1 THEN "v3" ELSE IF t = t2 THEN "v2" ELSE "none"]
MCTargetsOf == [t \in Txns |-> IF t = t3 THEN {"x"} ELSE NoTarget]
MCRouteOf == [e \in E |-> IF e = e1 THEN "Primary" ELSE "MetricsPrimary"]
MCTargetOf == [e \in E |-> IF e = e1 THEN "x" ELSE NoTarget]
MCUseV3 == [e \in E |-> TRUE]
=============================================================================

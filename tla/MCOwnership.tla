---------------------------- MODULE MCOwnership ----------------------------
(***************************************************************************)
(* An instance of Ownership for TLC: enough objects of each class for one  *)
(* to be copied or moved from another, assigned over and assigned back,    *)
(* and memory that is handed out a second time.                            *)
(***************************************************************************)
EXTENDS Ownership, TLC

CONSTANTS p1, p2, p3, pool1, pool2, log1, log2, log3,  e1, e2, t1, t2, s1, s2, s3

ProcessThings == {p1, p2, p3, e1, e2}
PoolThings    == {pool1, pool2, t1, t2}
AllHandles    == {p1, p2, p3, pool1, pool2, log1, log2, log3}
AllCells      == {e1, e2, t1, t2, s1, s2, s3}
ClassOf ==
  [x \in AllHandles \cup AllCells |->
     CASE x \in ProcessThings -> "process"
       [] x \in PoolThings    -> "process_pool"
       [] OTHER               -> "json_log"]

Interchangeable ==
  UNION {Permutations(S) : S \in {{p1, p2, p3}, {e1, e2}, {pool1, pool2}, {t1, t2},
                                  {log1, log2, log3}, {s1, s2, s3}}}
=============================================================================

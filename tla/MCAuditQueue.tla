--------------------------- MODULE MCAuditQueue ---------------------------
EXTENDS AuditQueue

\* The random part of a name sorts the second review of a day first, or last.
MCPlace == <<3, 1, 2>>
Row(c, t, f) == [cost |-> c, top |-> t, facts |-> f]
Worker(s, rc, t, status) == [session |-> s, rc |-> rc, truncated |-> t, status |-> status]
MCWorkers == <<Worker(1, 1, TRUE, "truncated"), Worker(2, 1, FALSE, "failed"),
               Worker(7, 1, TRUE, "failed"), Worker(1, 0, FALSE, "ok"),
               Worker(2, 0, FALSE, "ok"), Worker(7, 0, FALSE, "ok")>>
\* The worker of session 7, which no summary has, tells a failure and a success.
\* Sessions of two classes, of the same class with other costs, dear but of a less
\* urgent class, one that nothing singles out, and a summary where all are free.
MCSummaries ==
  {[rows |-> << Row(1, 0, {"cost-outlier", "spec"}), Row(9, 0, {"maturity-F", "spec"}),
                Row(2, 0, {"maturity-F", "spec"}) >>, workers |-> MCWorkers],
   [rows |-> << Row(3, 1, {"loop"}), Row(1, 2, {"loop", "cache-gap", "spec"}),
                Row(4, 0, {"spec"}), Row(2, 0, {"repeated-prompts", "code-non-relu"}) >>,
    workers |-> Reverse(MCWorkers)],
   [rows |-> [s \in 4 .. 5 |-> Row(s, 0, {"code-non-relu", "spec"})], workers |-> << >>],
   [rows |-> [s \in {6, 8, 9} |-> Row(0, 0, IF s = 6 THEN {"code-non-relu"} ELSE {"cost-outlier"})],
    workers |-> << >>]}
=============================================================================

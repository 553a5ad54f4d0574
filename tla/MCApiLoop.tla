------------------------------- MODULE MCApiLoop -------------------------------
(* Instances of ApiLoop for TLC. *)
EXTENDS ApiLoop

CONSTANTS j1, r1, r2, r3

OneJob == [r \in Requests |-> j1]

\* Requests that leave their writes to the commit.
Unflushed ==
  [r \in Requests |-> CASE r = r1 -> {"get", "delete"}
                        [] r = r2 -> {"submissions", "delete"}
                        [] r = r3 -> {"list", "retry"}]

\* One request that flushes, a reader, and one that leaves its write to the commit.
OneFlush ==
  [r \in Requests |-> CASE r = r1 -> {"create", "update"}
                        [] r = r2 -> {"get", "list", "submissions"}
                        [] r = r3 -> {"delete", "retry"}]

\* Edits of one job.
Edits == [r \in Requests |-> {"update"}]
===============================================================================

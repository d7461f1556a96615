----------------------------- MODULE MCBulkJobs -----------------------------
(* A small instance of BulkJobsCached for TLC. *)
EXTENDS BulkJobsCached

CONSTANTS a, x, long, short, tiny, w1, w2, web, rd

(* The long job: two chunks of three lines; one that applies, one with an   *)
(* unknown code, one whose units are promised, so that it applies only      *)
(* after the first has.  The short job runs against readers and a service,  *)
(* or at once with the tiny one, each taking the other's workers and units. *)
MCLines == [j \in Jobs |->
    CASE j = long -> <<[pair |-> a, delta |-> 1], [pair |-> x, delta |-> 1],
                       [pair |-> a, delta |-> -1]>>
      [] j = short -> <<[pair |-> a, delta |-> 1], [pair |-> a, delta |-> -1]>>
      [] j = tiny -> <<[pair |-> a, delta |-> -1]>>]
MCMaxAttempts == [j \in Jobs |-> IF j = long THEN 2 ELSE 1]
MCMaxStalls == [j \in Jobs |-> IF j = short THEN 0 ELSE 1]
MCBeside == [j \in Jobs |-> IF j = long THEN {} ELSE {short, tiny}]
MCOpening == [p \in Pairs |-> [quantity |-> 1, reserved |-> 1]]
=============================================================================

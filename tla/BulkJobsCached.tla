--------------------------- MODULE BulkJobsCached ---------------------------
(***************************************************************************)
(* Bulk jobs and the organisation's cache together.  A job commits a write *)
(* with every line and invalidates once, when all of them are done; a      *)
(* worker that fails before leaves its writes without an invalidation.     *)
(* The other writers are the requests of the services, which invalidate    *)
(* after each change.                                                      *)
(***************************************************************************)
EXTENDS BulkJobs, OrgCache

CONSTANTS Services,  \* the services' requests among the writers
          ServiceMax,  \* bound: the services write up to this version
          Alone,     \* bound: jobs that run while the cache and everyone else is idle
          Beside     \* bound: the jobs that may be there when a job is submitted

ASSUME AloneAssumption == Alone \subseteq Jobs
ASSUME BesideAssumption == Beside \in [Jobs -> SUBSET Jobs]
ASSUME WritersAssumption == Writers = Workers \cup Services /\ Workers \cap Services = {}

vars == <<levels, rows, queue, runs, applied, deliveries,
          version, cache, fills, owed, scan, settled>>

Init == BulkInit /\ CacheInit

(* A run that is given up never invalidates what it has committed. *)
Forget(w) == IF owed[w] = 0 THEN UNCHANGED cacheVars ELSE AbandonScan(w)

AtInvalidation(w) == \E run \in runs[w] : run.stage = "invalidate"

(* A worker's own steps, in order. *)
WorkerStep(w) ==
    \/ (Start(w) \/ FailLine(w) \/ Progress(w) \/ Finish(w) \/ Return(w)) /\ UNCHANGED cacheVars
    \/ ApplyLine(w) /\ Commit(w)
    \/ AtInvalidation(w) /\ Invalidating(w) /\ UNCHANGED bulkVars
    \/ owed[w] = 0 /\ Invalidate(w) /\ UNCHANGED cacheVars

WorkerLost(w) == (Throw(w) \/ Crash(w)) /\ Forget(w)

(* The bounds on jobs.  One is submitted beside jobs of its Beside only; one *)
(* of Alone finds the cache idle and keeps the readers and services out.    *)
(* With Alone = {} and Beside = [j \in Jobs |-> Jobs] there is no bound.     *)
Quiet(j) ==
    /\ \A other \in Jobs \ (Beside[j] \cup {j}) : rows[other] = NoJob
    /\ j \in Alone => version = 1 /\ \A r \in Readers, k \in Keys : fills[r][k] = {} /\ cache[k] = {}
Open == \A j \in Alone : rows[j] = NoJob

Submit(j) == ((Quiet(j) /\ CreateRow(j)) \/ Enqueue(j) \/ EnqueueFails(j)) /\ UNCHANGED cacheVars
Deliver(j) == (\E w \in Workers : Take(w, j)) /\ UNCHANGED cacheVars
LockGone(j) == LockExpires(j) /\ UNCHANGED cacheVars

ServiceStep(s) == Invalidating(s) /\ UNCHANGED bulkVars
ReaderStep(r) == Reading(r) /\ UNCHANGED bulkVars
EntryExpires(k) == Expire(k) /\ UNCHANGED bulkVars

Next ==
    \/ \E j \in Jobs : Submit(j) \/ Deliver(j) \/ LockGone(j)
    \/ \E j \in Jobs : LoseLock(j) /\ UNCHANGED cacheVars
    \/ \E w \in Workers : WorkerStep(w) \/ WorkerLost(w)
    \/ \E s \in Services : ServiceStep(s) \/ (Open /\ version < ServiceMax /\ Commit(s) /\ UNCHANGED bulkVars)
    \/ \E r \in Readers : ReaderStep(r)
    \/ \E r \in Readers, k \in Keys : Open /\ LookUp(r, k) /\ UNCHANGED bulkVars
    \/ \E k \in Keys : EntryExpires(k)

(* Workers run, BullMQ delivers and lets locks run out, what has begun in a *)
(* service or a reader goes on, and time passes.  Nothing has to fail, and  *)
(* nobody has to ask or to write.                                           *)
Fairness ==
    /\ \A w \in Workers : WF_vars(WorkerStep(w))
    /\ \A j \in Jobs : WF_vars(Deliver(j)) /\ WF_vars(LockGone(j))
    /\ \A s \in Services : WF_vars(ServiceStep(s))
    /\ \A r \in Readers : WF_vars(ReaderStep(r))
    /\ \A k \in Keys : WF_vars(EntryExpires(k))

Spec == Init /\ [][Next]_vars /\ Fairness

TypeOK == BulkTypeOK /\ CacheTypeOK
=============================================================================

------------------------- MODULE IdempotencyService -------------------------
(***************************************************************************)
(* The Redis side of idempotency: a processing lock and a cached result    *)
(* per idempotency key.  Each operation is one Redis command (or one       *)
(* MULTI), hence one atomic step.  The lock value is the constant '1': it  *)
(* does not say who holds it, so any caller's DEL removes it.  The cached  *)
(* value is always a success, so only its presence is kept.                *)
(***************************************************************************)
CONSTANT Keys         \* idempotency keys

VARIABLES locks,      \* keys whose idem:lock:<key> entry exists
          results     \* keys whose idem:result:<key> entry exists

redis == <<locks, results>>

RedisTypeOK == locks \subseteq Keys /\ results \subseteq Keys

RedisInit == locks = {} /\ results = {}

\* SET NX: succeeds only when the entry does not exist.
AcquireLock(k) == /\ k \notin locks
                  /\ locks' = locks \cup {k}
                  /\ UNCHANGED results

\* Unconditional DEL of the lock entry, whoever created it.
ReleaseLock(k) == locks' = locks \ {k} /\ UNCHANGED results

HasLock(k) == k \in locks

\* getResult(k) answers a cached response.
HasResult(k) == k \in results

\* MULTI: SET the result and DEL the lock, together.
StoreResult(k) == /\ results' = results \cup {k}
                  /\ locks' = locks \ {k}

\* Redis drops an entry whose TTL has elapsed, or evicts a result.
DropLock(k) == k \in locks /\ locks' = locks \ {k} /\ UNCHANGED results
DropResult(k) == k \in results /\ results' = results \ {k} /\ UNCHANGED locks
=============================================================================

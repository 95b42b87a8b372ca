---------------------------- MODULE SnapshotCache ----------------------------
(***************************************************************************)
(* runtime/cache.py: one Redis key with the dashboard's current snapshot   *)
(* and a TTL.  Redis is allowed to fail every call: a read then counts as  *)
(* a miss, a write or an invalidation is skipped.                          *)
(***************************************************************************)
EXTENDS SnapshotStore

CONSTANT CacheTTL      \* dashboard_cache_ttl_seconds, in ticks

ASSUME CacheAssumption == CacheTTL \in Nat \ {0}

VARIABLES
    cache,     \* the run whose snapshot is stored at CURRENT_KEY, or NoRun
    age        \* ticks since the entry was written

cacheVars == <<cache, age>>

CacheTypeOK ==
    /\ cache \in Runs \cup {NoRun}
    /\ age \in 0 .. CacheTTL
    /\ cache = NoRun => age = 0

CacheInit ==
    /\ cache = NoRun
    /\ age = 0

(* set_current_snapshot: only published snapshots are cached, with a new TTL. *)
SetCurrent(r) ==
    \/ cache' = r /\ age' = 0
    \/ UNCHANGED cacheVars

(* invalidate_current_snapshot.                                               *)
Invalidate ==
    \/ cache' = NoRun /\ age' = 0
    \/ UNCHANGED cacheVars

(* One tick of the TTL; at its end Redis drops the key.                       *)
CacheTick ==
    /\ cache # NoRun
    /\ IF age + 1 >= CacheTTL
       THEN cache' = NoRun /\ age' = 0
       ELSE age' = age + 1 /\ UNCHANGED cache
=============================================================================

------------------------------ MODULE UrlCache ------------------------------
(***************************************************************************)
(* app/cache/url_cache.py over Redis.  An entry is the row it is a copy    *)
(* of.  Every method swallows its errors: with RedisFaults a read may      *)
(* answer a miss and a write may do nothing, and the caller is not told.   *)
(***************************************************************************)
EXTENDS UrlModel

CONSTANT
    RedisFaults     \* may calls to Redis fail?

ASSUME RedisFaultsAssumption == RedisFaults \in BOOLEAN

VARIABLE
    cache           \* cache[c]: the row whose copy is stored under url:c

Reachable == IF RedisFaults THEN BOOLEAN ELSE {TRUE}

(* The possible answers of URLCache.get: an error is reported as a miss.   *)
CacheGet(c) == {IF up THEN cache[c] ELSE NoRow : up \in Reachable}

CacheSet(c, row) ==
    \E up \in Reachable : cache' = IF up THEN [cache EXCEPT ![c] = row] ELSE cache

CacheDelete(c) ==
    \E up \in Reachable : cache' = IF up THEN [cache EXCEPT ![c] = NoRow] ELSE cache

=============================================================================

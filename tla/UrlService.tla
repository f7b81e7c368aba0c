----------------------------- MODULE UrlService -----------------------------
(***************************************************************************)
(* app/services/url_service.py: the handlers that create, look up,         *)
(* redirect and delete short URLs against PostgreSQL (UrlRepository) and   *)
(* Redis (UrlCache).  Each request runs its handler as a sequence of steps *)
(* split at the awaits on the database and on Redis; the steps of          *)
(* different requests, of one replica or of several, interleave.           *)
(***************************************************************************)
EXTENDS Naturals, UrlRepository, UrlCache

CONSTANTS
    Kinds,          \* the kinds of requests clients make
    MaxAttempts,    \* codes tried by _generate_unique_code (10 in the code)
    MaxInFlight,    \* bound: requests being served at the same time
    Aborts          \* may a request die half way (crash, database error,
                    \* cancellation)?

AllKinds == {"custom", "generate", "details", "redirect", "delete"}

ASSUME ServiceAssumption ==
    /\ Kinds \subseteq AllKinds
    /\ MaxAttempts \in Nat \ {0}
    /\ MaxInFlight \in Nat \ {0}
    /\ Aborts \in BOOLEAN

VARIABLES
    kind,       \* kind[r]: what request r asks for
    pc,         \* pc[r]: the next step of its handler
    code,       \* code[r]: the short code it works on
    attempts,   \* attempts[r]: generated codes found taken so far
    url,        \* url[r]: the row its handler has in hand; for a delete
                \* request, the row the DELETE removed
    outcome,    \* outcome[r]: how the handler ended
    before      \* history: what had happened when request r began

requestVars == <<kind, pc, code, attempts, url, outcome, before>>
vars == <<expired, db, removed, credit, cache, requestVars>>

Steps == {"idle", "check", "insert", "refresh", "prewarm", "lookup", "fetch",
          "populate", "evict", "purge_cache", "purge_row", "count",
          "delete_row", "invalidate", "done"}

(* "returned" is a normal return, the others name the exception raised:    *)
(* ShortCodeConflictError, the driver's IntegrityError, the error of       *)
(* session.refresh on a vanished row, the RuntimeError of a code           *)
(* generator out of attempts, URLNotFoundError, URLExpiredError; a request *)
(* that died half way is "aborted".                                        *)
Outcomes == {"none", "returned", "conflict", "integrity", "refresh",
             "exhausted", "not_found", "expired", "aborted"}

IsCreate(r) == kind[r] \in {"custom", "generate"}
InFlight == {r \in Requests : pc[r] \notin {"idle", "done"}}
Returned(r, k) == kind[r] = k /\ outcome[r] = "returned"

History == [removed |-> removed, expired |-> expired]

-----------------------------------------------------------------------------
(* What the route handlers of app/routes/url.py answer for an outcome.     *)

CreateStatus(o) ==
    CASE o = "returned" -> 201 [] o = "conflict" -> 409 [] OTHER -> 500

DetailsStatus(o) ==
    CASE o = "returned" -> 200 [] o \in {"not_found", "expired"} -> 404 [] OTHER -> 500

DeleteStatus(o) ==
    CASE o = "returned" -> 200 [] o = "not_found" -> 404 [] OTHER -> 500

RedirectStatus(o) ==
    CASE o = "returned" -> 307 [] o \in {"not_found", "expired"} -> 404 [] OTHER -> 500

Status(r) ==
    CASE IsCreate(r)           -> CreateStatus(outcome[r])
      [] kind[r] = "details"   -> DetailsStatus(outcome[r])
      [] kind[r] = "delete"    -> DeleteStatus(outcome[r])
      [] kind[r] = "redirect"  -> RedirectStatus(outcome[r])

-----------------------------------------------------------------------------
Init ==
    /\ expired = {}
    /\ db = [c \in Codes |-> NoRow]
    /\ removed = {}
    /\ credit = [r \in Requests |-> NoRow]
    /\ cache = [c \in Codes |-> NoRow]
    /\ kind = [r \in Requests |-> "none"]
    /\ pc = [r \in Requests |-> "idle"]
    /\ \E c \in Codes : code = [r \in Requests |-> c]
    /\ attempts = [r \in Requests |-> 0]
    /\ url = [r \in Requests |-> NoRow]
    /\ outcome = [r \in Requests |-> "none"]
    /\ before = [r \in Requests |-> History]

(* Request r is at the step s of a handler of one of the kinds K.          *)
At(r, K, s) == kind[r] \in K /\ pc[r] = s

GoTo(r, s) == pc' = [pc EXCEPT ![r] = s] /\ UNCHANGED outcome

Finish(r, o) ==
    /\ pc' = [pc EXCEPT ![r] = "done"]
    /\ outcome' = [outcome EXCEPT ![r] = o]

Hold(r, row) == url' = [url EXCEPT ![r] = row]

FirstStep == [custom |-> "check", generate |-> "check", details |-> "lookup",
              redirect |-> "lookup", delete |-> "delete_row"]

(* A request of kind k arrives, for the code c (a custom code, the first   *)
(* code the generator draws, or the code in the path).                     *)
Start(r, k, c) ==
    /\ pc[r] = "idle"
    /\ Cardinality(InFlight) < MaxInFlight
    /\ kind' = [kind EXCEPT ![r] = k]
    /\ code' = [code EXCEPT ![r] = c]
    /\ GoTo(r, FirstStep[k])
    /\ before' = [before EXCEPT ![r] = History]
    /\ UNCHANGED <<expired, repositoryVars, cache, attempts, url>>

-----------------------------------------------------------------------------
(* create_short_url and _generate_unique_code                              *)

CreateKinds == {"custom", "generate"}
requestConst == <<kind, before>>

(* Variant: the cache is filled before the row is committed.               *)
CheckCustom_PrewarmFirst(r) ==
    /\ At(r, {"custom"}, "check")
    /\ IF ShortCodeExists(code[r])
       THEN Finish(r, "conflict") /\ UNCHANGED cache
       ELSE GoTo(r, "insert") /\ CacheSet(code[r], r)
    /\ UNCHANGED <<expired, repositoryVars, requestConst, code, attempts, url>>

CheckCustom(r) ==
    /\ At(r, {"custom"}, "check")
    /\ IF ShortCodeExists(code[r]) THEN Finish(r, "conflict") ELSE GoTo(r, "insert")
    /\ UNCHANGED <<expired, repositoryVars, cache, requestConst, code, attempts, url>>

(* Variant: a generated code is taken to be free.                          *)
AcceptGenerated_Unchecked(r) ==
    /\ At(r, {"generate"}, "check")
    /\ GoTo(r, "insert")
    /\ UNCHANGED <<expired, repositoryVars, cache, requestConst, code, attempts, url>>

(* The generator found its code free.                                      *)
AcceptGenerated(r) ==
    /\ At(r, {"generate"}, "check")
    /\ ~ShortCodeExists(code[r])
    /\ GoTo(r, "insert")
    /\ UNCHANGED <<expired, repositoryVars, cache, requestConst, code, attempts, url>>

(* Variant: the generator never gives up.                                  *)
RejectGenerated_Forever(r, c) ==
    /\ At(r, {"generate"}, "check")
    /\ ShortCodeExists(code[r])
    /\ code' = [code EXCEPT ![r] = c]
    /\ GoTo(r, "check")
    /\ UNCHANGED <<expired, repositoryVars, cache, requestConst, attempts, url>>

(* The code is taken: draw another one, or give up.                        *)
RejectGenerated(r, c) ==
    /\ At(r, {"generate"}, "check")
    /\ ShortCodeExists(code[r])
    /\ attempts' = [attempts EXCEPT ![r] = @ + 1]
    /\ IF attempts[r] + 1 < MaxAttempts
       THEN code' = [code EXCEPT ![r] = c] /\ GoTo(r, "check")
       ELSE Finish(r, "exhausted") /\ UNCHANGED code
    /\ UNCHANGED <<expired, repositoryVars, cache, requestConst, url>>

(* Variant: no unique index, the later row replaces the earlier one.       *)
Insert_Upsert(r) ==
    /\ At(r, CreateKinds, "insert")
    /\ db' = [db EXCEPT ![code[r]] = r]
    /\ Hold(r, r)
    /\ GoTo(r, "refresh")
    /\ UNCHANGED <<expired, removed, credit, cache, requestConst, code, attempts>>

(* repository.create up to its commit: the unique index has the last word. *)
Insert(r) ==
    /\ At(r, CreateKinds, "insert")
    /\ IF ShortCodeExists(code[r])
       THEN Finish(r, "integrity") /\ UNCHANGED <<repositoryVars, url>>
       ELSE Create(code[r], r) /\ Hold(r, r) /\ GoTo(r, "refresh")
    /\ UNCHANGED <<expired, cache, requestConst, code, attempts>>

(* session.refresh reads the row back by its key.                          *)
Refresh(r) ==
    /\ At(r, CreateKinds, "refresh")
    /\ IF GetByShortCode(code[r]) = r THEN GoTo(r, "prewarm") ELSE Finish(r, "refresh")
    /\ UNCHANGED <<expired, repositoryVars, cache, requestConst, code, attempts, url>>

Prewarm(r) ==
    /\ At(r, CreateKinds, "prewarm")
    /\ CacheSet(code[r], url[r])
    /\ Finish(r, "returned")
    /\ UNCHANGED <<expired, repositoryVars, requestConst, code, attempts, url>>

-----------------------------------------------------------------------------
(* get_url: a valid cache entry is not used, the row is read all the same. *)

(* Variant: a valid cache entry answers the request.                       *)
DetailsLookup_TrustCache(r) ==
    /\ At(r, {"details"}, "lookup")
    /\ \E hit \in CacheGet(code[r]) :
         CASE hit = NoRow    -> GoTo(r, "fetch") /\ UNCHANGED url
           [] IsExpired(hit) -> GoTo(r, "evict") /\ UNCHANGED url
           [] OTHER          -> Hold(r, hit) /\ Finish(r, "returned")
    /\ UNCHANGED <<expired, repositoryVars, cache, requestConst, code, attempts>>

DetailsLookup(r) ==
    /\ At(r, {"details"}, "lookup")
    /\ \E hit \in CacheGet(code[r]) :
         GoTo(r, IF IsExpired(hit) THEN "evict" ELSE "fetch")
    /\ UNCHANGED <<expired, repositoryVars, cache, requestConst, code, attempts, url>>

DetailsFetch(r) ==
    /\ At(r, {"details"}, "fetch")
    /\ LET row == GetByShortCode(code[r]) IN
         IF row = NoRow
         THEN Finish(r, "not_found") /\ UNCHANGED url
         ELSE Hold(r, row) /\ GoTo(r, IF IsExpired(row) THEN "evict" ELSE "populate")
    /\ UNCHANGED <<expired, repositoryVars, cache, requestConst, code, attempts>>

DetailsEvict(r) ==
    /\ At(r, {"details"}, "evict")
    /\ CacheDelete(code[r])
    /\ Finish(r, "expired")
    /\ UNCHANGED <<expired, repositoryVars, requestConst, code, attempts, url>>

DetailsPopulate(r) ==
    /\ At(r, {"details"}, "populate")
    /\ CacheSet(code[r], url[r])
    /\ Finish(r, "returned")
    /\ UNCHANGED <<expired, repositoryVars, requestConst, code, attempts, url>>

-----------------------------------------------------------------------------
(* redirect_url                                                            *)

(* Variant: the expires_at of a cache entry is not looked at.              *)
RedirectLookup_NoExpiryCheck(r) ==
    /\ At(r, {"redirect"}, "lookup")
    /\ \E hit \in CacheGet(code[r]) :
         IF hit = NoRow
         THEN GoTo(r, "fetch") /\ UNCHANGED url
         ELSE Hold(r, hit) /\ GoTo(r, "count")
    /\ UNCHANGED <<expired, repositoryVars, cache, requestConst, code, attempts>>

(* Variant: a hit renews the TTL by setting the entry again.               *)
RedirectLookup_Renew(r) ==
    /\ At(r, {"redirect"}, "lookup")
    /\ \E hit \in CacheGet(code[r]) :
         IF hit = NoRow
         THEN GoTo(r, "fetch") /\ UNCHANGED url
         ELSE Hold(r, hit) /\ GoTo(r, IF IsExpired(hit) THEN "purge_cache" ELSE "populate")
    /\ UNCHANGED <<expired, repositoryVars, cache, requestConst, code, attempts>>

RedirectLookup(r) ==
    /\ At(r, {"redirect"}, "lookup")
    /\ \E hit \in CacheGet(code[r]) :
         IF hit = NoRow
         THEN GoTo(r, "fetch") /\ UNCHANGED url
         ELSE Hold(r, hit) /\ GoTo(r, IF IsExpired(hit) THEN "purge_cache" ELSE "count")
    /\ UNCHANGED <<expired, repositoryVars, cache, requestConst, code, attempts>>

RedirectFetch(r) ==
    /\ At(r, {"redirect"}, "fetch")
    /\ LET row == GetByShortCode(code[r]) IN
         IF row = NoRow
         THEN Finish(r, "not_found") /\ UNCHANGED url
         ELSE Hold(r, row) /\ GoTo(r, IF IsExpired(row) THEN "purge_cache" ELSE "populate")
    /\ UNCHANGED <<expired, repositoryVars, cache, requestConst, code, attempts>>

RedirectPopulate(r) ==
    /\ At(r, {"redirect"}, "populate")
    /\ CacheSet(code[r], url[r])
    /\ GoTo(r, "count")
    /\ UNCHANGED <<expired, repositoryVars, requestConst, code, attempts, url>>

(* The lazy expiry cleanup: the cache entry first, then the row.           *)
PurgeCache(r) ==
    /\ At(r, {"redirect"}, "purge_cache")
    /\ CacheDelete(code[r])
    /\ GoTo(r, "purge_row")
    /\ UNCHANGED <<expired, repositoryVars, requestConst, code, attempts, url>>

PurgeRow(r) ==
    /\ At(r, {"redirect"}, "purge_row")
    /\ DeleteByShortCode(code[r])
    /\ Finish(r, "expired")
    /\ UNCHANGED <<expired, cache, requestConst, code, attempts, url>>

(* increment_click, then the answer; the row found may be gone or another. *)
Count(r) ==
    /\ At(r, {"redirect"}, "count")
    /\ IncrementClick(code[r], r)
    /\ Finish(r, "returned")
    /\ UNCHANGED <<expired, cache, requestConst, code, attempts, url>>

-----------------------------------------------------------------------------
(* delete_url                                                              *)

(* Variant: the answer goes out and the cache entry stays.                 *)
DeleteRow_KeepEntry(r) ==
    /\ At(r, {"delete"}, "delete_row")
    /\ DeleteByShortCode(code[r])
    /\ Hold(r, db[code[r]])
    /\ Finish(r, IF ShortCodeExists(code[r]) THEN "returned" ELSE "not_found")
    /\ UNCHANGED <<expired, cache, requestConst, code, attempts>>

DeleteRow(r) ==
    /\ At(r, {"delete"}, "delete_row")
    /\ DeleteByShortCode(code[r])
    /\ Hold(r, db[code[r]])
    /\ IF ShortCodeExists(code[r]) THEN GoTo(r, "invalidate") ELSE Finish(r, "not_found")
    /\ UNCHANGED <<expired, cache, requestConst, code, attempts>>

Invalidate(r) ==
    /\ At(r, {"delete"}, "invalidate")
    /\ CacheDelete(code[r])
    /\ Finish(r, "returned")
    /\ UNCHANGED <<expired, repositoryVars, requestConst, code, attempts, url>>

-----------------------------------------------------------------------------
(* The row was committed to the database, and perhaps deleted since.       *)
Registered(row) == row \in Requests /\ IsCreate(row) /\ url[row] = row

(* The clock passes the expires_at of a registered row and its copies.     *)
Expire(row) ==
    /\ Registered(row)
    /\ row \notin expired
    /\ expired' = expired \cup {row}
    /\ UNCHANGED <<repositoryVars, cache, requestVars>>

(* Redis drops an entry: its TTL ran out, or memory was short.             *)
CacheTTL(c) ==
    /\ cache[c] # NoRow
    /\ cache' = [cache EXCEPT ![c] = NoRow]
    /\ UNCHANGED <<expired, repositoryVars, requestVars>>

(* The request dies before its next step; what it committed stays.         *)
Abort(r) ==
    /\ Aborts
    /\ r \in InFlight
    /\ Finish(r, "aborted")
    /\ UNCHANGED <<expired, repositoryVars, cache, requestConst, code, attempts, url>>

CreateStep(r) ==
    \/ CheckCustom(r)
    \/ AcceptGenerated(r)
    \/ \E c \in Codes : RejectGenerated(r, c)
    \/ Insert(r)
    \/ Refresh(r)
    \/ Prewarm(r)

DetailsStep(r) ==
    DetailsLookup(r) \/ DetailsFetch(r) \/ DetailsEvict(r) \/ DetailsPopulate(r)

RedirectStep(r) ==
    \/ RedirectLookup(r)
    \/ RedirectFetch(r)
    \/ RedirectPopulate(r)
    \/ PurgeCache(r)
    \/ PurgeRow(r)
    \/ Count(r)

DeleteStep(r) == DeleteRow(r) \/ Invalidate(r)

Step(r) == CreateStep(r) \/ DetailsStep(r) \/ RedirectStep(r) \/ DeleteStep(r)

Environment ==
    \/ \E r \in Requests, k \in Kinds, c \in Codes : Start(r, k, c)
    \/ \E r \in Requests : Expire(r) \/ Abort(r)
    \/ \E c \in Codes : CacheTTL(c)

Next == Environment \/ \E r \in Requests : Step(r)

Spec == Init /\ [][Next]_vars

(* The event loop runs every coroutine whose await has been answered;      *)
(* clients, clocks and failures are under no obligation.                   *)
Fairness == \A r \in Requests : WF_vars(Step(r))

FairSpec == Spec /\ Fairness

-----------------------------------------------------------------------------
(* The values the state ranges over.                                       *)
TypeOK ==
    /\ expired \subseteq Requests
    /\ db \in [Codes -> RowOrNone]
    /\ removed \subseteq Requests
    /\ credit \in [Requests -> RowOrNone]
    /\ cache \in [Codes -> RowOrNone]
    /\ kind \in [Requests -> AllKinds \cup {"none"}]
    /\ pc \in [Requests -> Steps]
    /\ code \in [Requests -> Codes]
    /\ attempts \in [Requests -> 0..MaxAttempts]
    /\ url \in [Requests -> RowOrNone]
    /\ outcome \in [Requests -> Outcomes]
    /\ before \in [Requests -> [removed : SUBSET Requests, expired : SUBSET Requests]]

-----------------------------------------------------------------------------
(* Properties that hold whatever interleaves and whatever fails.           *)

Answered(r) == \/ Returned(r, "details")
               \/ Returned(r, "redirect")

(* GET /urls/{code} never answers with a row that had been deleted, or had *)
(* expired, before the request came in, however stale the cache is: a      *)
(* cache hit in get_url does not replace the read of the database.         *)
DetailsFresh ==
    \A r \in Requests : Returned(r, "details") =>
        url[r] \notin before[r].removed \cup before[r].expired

(* A redirect never leads to a URL that had expired before the request     *)
(* came in, even from a cache entry whose invalidation failed: redirect_url*)
(* compares the expires_at stored in the entry with the clock.             *)
ExpiredNeverServed ==
    \A r \in Requests : Returned(r, "redirect") => url[r] \notin before[r].expired

(* A row whose creation was answered 201 is the one stored under its code  *)
(* until something deletes it: no concurrent create of the same code can   *)
(* replace it between the existence check and the commit.                  *)
AcknowledgedUrlIsDurable ==
    \A r \in Requests : IsCreate(r) /\ outcome[r] = "returned" /\ r \notin removed =>
        db[code[r]] = r

(* Whatever a lookup or a redirect answers was once committed under the    *)
(* very code asked for: no create that lost the race for its code, or      *)
(* died, leaves its URL in the cache.                                      *)
ServedUrlWasRegistered ==
    \A r \in Requests : Answered(r) => Registered(url[r]) /\ code[url[r]] = code[r]

(* No click is lost by the atomic UPDATE: an answered redirect to a URL    *)
(* that has not been deleted since was counted on that URL, whatever ran   *)
(* between the cache lookup and increment_click.                           *)
NoClickLost ==
    \A r \in Requests : Returned(r, "redirect") /\ url[r] \notin removed =>
        credit[r] = url[r]

(* A copy that is put into the cache comes from the database, not from the *)
(* cache: its row was neither deleted nor expired when the request that    *)
(* puts it there began. So nobody prolongs the life of a stale copy, which *)
(* ends with its TTL (cache_ttl_seconds), however often it is hit, and even*)
(* if it is dropped between the hit and the answer.                        *)
StaleCopyNotRenewed ==
    [][\A c \in Codes : cache'[c] \notin {cache[c], NoRow} =>
          \E r \in InFlight :
              /\ pc'[r] # pc[r] /\ code[r] = c /\ url[r] = cache'[c]
              /\ url[r] \notin before[r].removed \cup before[r].expired]_vars

(* URLs that had the code c, expired, and are gone                         *)
Predecessors(c) == {row \in removed \cap expired : Registered(row) /\ code[row] = c}

(* A URL that has not expired is taken out of the table without a delete of*)
(* its code, or withheld from a lookup or a redirect, only if its code     *)
(* belonged before to a URL that has expired: the cleanup and the stale    *)
(* copies, whatever interleaves and fails, harm no other code.             *)
LiveUrlsAreLeftAlone ==
    [][/\ \A row \in removed' \ removed :
            \/ row \in expired \/ Predecessors(code[row]) # {}
            \/ \E d \in InFlight : At(d, {"delete"}, "delete_row") /\ code[d] = code[row]
                                      /\ pc'[d] # pc[d]
       /\ \A r \in InFlight :
            kind[r] \in {"details", "redirect"} /\ outcome'[r] \in {"not_found", "expired"} =>
                \/ db[code[r]] \in {NoRow} \cup expired
                \/ outcome'[r] = "expired" /\ Predecessors(code[r]) # {}]_vars

(* Rows only disappear because a client deletes their code or because they *)
(* have expired: the lazy cleanup of redirect_url removes nothing else.    *)
OnlyDeletedOrExpiredVanish ==
    [][\A row \in removed' \ removed :
          \/ row \in expired
          \/ \E r \in Requests : At(r, {"delete"}, "delete_row") /\ code[r] = code[row]
                                  /\ pc'[r] # "delete_row"]_vars

-----------------------------------------------------------------------------
(* The abstract registry of links, seen through the handlers: what is      *)
(* bound is what PostgreSQL stores, an answer is the row a handler holds.  *)
Registry == INSTANCE LinkRegistry WITH
    NoLink  <- NoRow,
    role    <- [r \in Requests |-> IF IsCreate(r) THEN "create" ELSE kind[r]],
    target  <- code,
    answer  <- url,
    binding <- db,
    ever    <- [c \in Codes |-> {row \in Requests : Registered(row) /\ code[row] = c}],
    credit  <- credit

(* The handlers, interleaved at every await, with Redis failing and        *)
(* requests dying, implement the atomic registry: a code is bound only when*)
(* free, a lookup answers with what is bound at one instant while it runs, *)
(* a redirect with a link its code once had, a delete releases exactly the *)
(* link it reports.                                                        *)
ImplementsRegistry == Registry!Spec

-----------------------------------------------------------------------------
(* Liveness.                                                               *)

(* Every request that comes in is answered, whatever the others do.        *)
EveryRequestAnswered ==
    \A r \in Requests : pc[r] # "idle" ~> pc[r] = "done"

=============================================================================

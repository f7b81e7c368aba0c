-------------------------- MODULE UrlServiceProofs --------------------------
(***************************************************************************)
(* What UrlService guarantees for every set of requests and codes, every   *)
(* mix of requests and every bound, with Redis failing and requests dying: *)
(* type correctness, the safety properties of the fault run and what there *)
(* is behind errors and stale copies, from inductive invariants, and that  *)
(* the handlers implement the atomic registry of links.                    *)
(***************************************************************************)
EXTENDS UrlOverlap, FiniteSetTheorems, TLAPS

USE NoRowAssumption, RedisFaultsAssumption, ServiceAssumption

-----------------------------------------------------------------------------
(* NoRow is a possible content of a row-or-none cell, and so is every row. *)
LEMMA RowFacts == NoRow \in RowOrNone /\ Requests \subseteq RowOrNone
  BY DEF RowOrNone

(* A request about to look at a code has an attempt left to do so.         *)
AttemptLeft == \A r \in Requests : pc[r] \in {"idle", "check"} => attempts[r] < MaxAttempts

TypeInv == TypeOK /\ AttemptLeft

(* The state keeps its types; in particular _generate_unique_code never    *)
(* finds more than MaxAttempts codes taken.                                *)
THEOREM TypeCorrect == Spec => []TypeOK
<1>1. Init => TypeInv
  BY DEF Init, TypeInv, AttemptLeft, TypeOK, RowOrNone, AllKinds, Steps, Outcomes, History
<1>2. TypeInv /\ [Next]_vars => TypeOK'
  <2> SUFFICES ASSUME TypeInv, [Next]_vars PROVE TypeOK'
    OBVIOUS
  <2> USE RowFacts DEF TypeInv, TypeOK, Steps, Outcomes, repositoryVars, requestConst
  <2>1. ASSUME NEW r \in Requests, NEW k \in Kinds, NEW c \in Codes, Start(r, k, c) PROVE TypeOK'
    <3>1. History \in [removed : SUBSET Requests, expired : SUBSET Requests]
      BY DEF History
    <3>2. k \in AllKinds /\ FirstStep[k] \in Steps
      BY DEF AllKinds, FirstStep
    <3> QED
      BY <2>1, <3>1, <3>2 DEF Start, GoTo
  <2>2. ASSUME NEW r \in Requests, CheckCustom(r) PROVE TypeOK'
    BY <2>2 DEF CheckCustom, GoTo, Finish, ShortCodeExists
  <2>3. ASSUME NEW r \in Requests, AcceptGenerated(r) PROVE TypeOK'
    BY <2>3 DEF AcceptGenerated, GoTo, ShortCodeExists
  <2>4. ASSUME NEW r \in Requests, NEW c \in Codes, RejectGenerated(r, c) PROVE TypeOK'
    <3>1. attempts[r] < MaxAttempts
      BY <2>4 DEF RejectGenerated, At, AttemptLeft
    <3>2. attempts' \in [Requests -> 0..MaxAttempts]
      BY <2>4, <3>1 DEF RejectGenerated
    <3>3. pc' \in [Requests -> Steps] /\ outcome' \in [Requests -> Outcomes]
      BY <2>4 DEF RejectGenerated, GoTo, Finish
    <3>4. code' \in [Requests -> Codes]
      BY <2>4 DEF RejectGenerated
    <3>5. UNCHANGED <<expired, db, removed, credit, cache, kind, url, before>>
      BY <2>4 DEF RejectGenerated
    <3> QED
      BY <3>2, <3>3, <3>4, <3>5
  <2>5. ASSUME NEW r \in Requests, Insert(r) PROVE TypeOK'
    <3>1. CASE ShortCodeExists(code[r])
      BY <2>5, <3>1 DEF Insert, Finish
    <3>2. CASE ~ShortCodeExists(code[r])
      <4>1. pc' \in [Requests -> Steps] /\ UNCHANGED outcome
        BY <2>5, <3>2 DEF Insert, GoTo
      <4>2. url' = [url EXCEPT ![r] = r] /\ r \in RowOrNone
        BY <2>5, <3>2 DEF Insert, Hold
      <4>3. db' = [db EXCEPT ![code[r]] = r]
        BY <2>5, <3>2 DEF Insert, Create
      <4>4. UNCHANGED <<expired, removed, credit, cache, kind, code, attempts, before>>
        BY <2>5, <3>2 DEF Insert, Create
      <4>5. url' \in [Requests -> RowOrNone]
        BY <4>2
      <4>6. db' \in [Codes -> RowOrNone]
        BY <4>2, <4>3
      <4> QED
        BY <4>1, <4>4, <4>5, <4>6
    <3> QED
      BY <3>1, <3>2
  <2>6. ASSUME NEW r \in Requests, Refresh(r) PROVE TypeOK'
    BY <2>6 DEF Refresh, GoTo, Finish
  <2>7. ASSUME NEW r \in Requests, Prewarm(r) PROVE TypeOK'
    BY <2>7 DEF Prewarm, Finish, CacheSet
  <2>8. ASSUME NEW r \in Requests, DetailsLookup(r) PROVE TypeOK'
    BY <2>8 DEF DetailsLookup, GoTo
  <2>9. ASSUME NEW r \in Requests, DetailsFetch(r) PROVE TypeOK'
    <3>1. pc' \in [Requests -> Steps] /\ outcome' \in [Requests -> Outcomes]
      BY <2>9 DEF DetailsFetch, GoTo, Finish
    <3>2. url' \in [Requests -> RowOrNone]
      BY <2>9 DEF DetailsFetch, Hold, GetByShortCode
    <3>3. UNCHANGED <<expired, db, removed, credit, cache, kind, code, attempts, before>>
      BY <2>9 DEF DetailsFetch
    <3> QED
      BY <3>1, <3>2, <3>3
  <2>10. ASSUME NEW r \in Requests, DetailsEvict(r) PROVE TypeOK'
    BY <2>10 DEF DetailsEvict, Finish, CacheDelete
  <2>11. ASSUME NEW r \in Requests, DetailsPopulate(r) PROVE TypeOK'
    BY <2>11 DEF DetailsPopulate, Finish, CacheSet
  <2>12. ASSUME NEW r \in Requests, RedirectLookup(r) PROVE TypeOK'
    <3>1. pc' \in [Requests -> Steps] /\ outcome' \in [Requests -> Outcomes]
      BY <2>12 DEF RedirectLookup, GoTo, Finish
    <3>2. url' \in [Requests -> RowOrNone]
      BY <2>12 DEF RedirectLookup, Hold, CacheGet
    <3>3. UNCHANGED <<expired, db, removed, credit, cache, kind, code, attempts, before>>
      BY <2>12 DEF RedirectLookup
    <3> QED
      BY <3>1, <3>2, <3>3
  <2>13. ASSUME NEW r \in Requests, RedirectFetch(r) PROVE TypeOK'
    <3>1. pc' \in [Requests -> Steps] /\ outcome' \in [Requests -> Outcomes]
      BY <2>13 DEF RedirectFetch, GoTo, Finish
    <3>2. url' \in [Requests -> RowOrNone]
      BY <2>13 DEF RedirectFetch, Hold, GetByShortCode
    <3>3. UNCHANGED <<expired, db, removed, credit, cache, kind, code, attempts, before>>
      BY <2>13 DEF RedirectFetch
    <3> QED
      BY <3>1, <3>2, <3>3
  <2>14. ASSUME NEW r \in Requests, RedirectPopulate(r) PROVE TypeOK'
    BY <2>14 DEF RedirectPopulate, GoTo, CacheSet
  <2>15. ASSUME NEW r \in Requests, PurgeCache(r) PROVE TypeOK'
    BY <2>15 DEF PurgeCache, GoTo, CacheDelete
  <2>16. ASSUME NEW r \in Requests, PurgeRow(r) PROVE TypeOK'
    BY <2>16 DEF PurgeRow, Finish, DeleteByShortCode, RowOrNone
  <2>17. ASSUME NEW r \in Requests, Count(r) PROVE TypeOK'
    BY <2>17 DEF Count, Finish, IncrementClick
  <2>18. ASSUME NEW r \in Requests, DeleteRow(r) PROVE TypeOK'
    <3>1. pc' \in [Requests -> Steps] /\ outcome' \in [Requests -> Outcomes]
      BY <2>18 DEF DeleteRow, GoTo, Finish
    <3>2. url' \in [Requests -> RowOrNone]
      BY <2>18 DEF DeleteRow, Hold
    <3>3. db' \in [Codes -> RowOrNone] /\ removed' \subseteq Requests
      BY <2>18 DEF DeleteRow, DeleteByShortCode, RowOrNone
    <3>4. UNCHANGED <<expired, credit, cache, kind, code, attempts, before>>
      BY <2>18 DEF DeleteRow, DeleteByShortCode
    <3> QED
      BY <3>1, <3>2, <3>3, <3>4
  <2>19. ASSUME NEW r \in Requests, Invalidate(r) PROVE TypeOK'
    BY <2>19 DEF Invalidate, Finish, CacheDelete
  <2>20. ASSUME NEW row \in Requests, Expire(row) PROVE TypeOK'
    BY <2>20 DEF Expire, requestVars
  <2>21. ASSUME NEW r \in Requests, Abort(r) PROVE TypeOK'
    BY <2>21 DEF Abort, Finish
  <2>22. ASSUME NEW c \in Codes, CacheTTL(c) PROVE TypeOK'
    BY <2>22 DEF CacheTTL, requestVars
  <2>23. CASE UNCHANGED vars
    BY <2>23 DEF vars, requestVars
  <2> QED
    BY <2>1, <2>2, <2>3, <2>4, <2>5, <2>6, <2>7, <2>8, <2>9, <2>10, <2>11, <2>12, <2>13, <2>14, <2>15, <2>16, <2>17, <2>18, <2>19, <2>20, <2>21, <2>22, <2>23
       DEF Next, Environment, Step, CreateStep, DetailsStep, RedirectStep, DeleteStep
<1>3. TypeInv /\ [Next]_vars => AttemptLeft'
  <2> SUFFICES ASSUME TypeInv, [Next]_vars, NEW q \in Requests, pc'[q] \in {"idle", "check"}
               PROVE attempts'[q] < MaxAttempts
    BY DEF AttemptLeft
  <2> USE DEF TypeInv, TypeOK, AttemptLeft
  <2>1. ASSUME NEW r \in Requests, NEW k \in Kinds, NEW c \in Codes, Start(r, k, c)
        PROVE attempts'[q] < MaxAttempts
    BY <2>1 DEF Start, GoTo
  <2>2. ASSUME NEW r \in Requests, NEW c \in Codes, RejectGenerated(r, c)
        PROVE attempts'[q] < MaxAttempts
    BY <2>2 DEF RejectGenerated, GoTo, Finish, At
  <2>3. ASSUME UNCHANGED attempts, pc'[q] = pc[q] \/ pc'[q] \notin {"idle", "check"}
        PROVE attempts'[q] < MaxAttempts
    BY <2>3
  <2>4. ASSUME NEW r \in Requests,
               \/ CheckCustom(r) \/ AcceptGenerated(r) \/ Insert(r) \/ Refresh(r) \/ Prewarm(r)
               \/ DetailsStep(r) \/ RedirectStep(r) \/ DeleteStep(r) \/ Abort(r)
        PROVE UNCHANGED attempts /\ (pc'[q] = pc[q] \/ pc'[q] \notin {"idle", "check"})
    <3>1. CASE CheckCustom(r) \/ AcceptGenerated(r) \/ Insert(r) \/ Refresh(r) \/ Prewarm(r)
      BY <3>1 DEF CheckCustom, AcceptGenerated, Insert, Refresh, Prewarm, GoTo, Finish
    <3>2. CASE DetailsStep(r)
      BY <3>2 DEF DetailsStep, DetailsLookup, DetailsFetch, DetailsEvict, DetailsPopulate, GoTo, Finish
    <3>3. CASE RedirectStep(r)
      BY <3>3 DEF RedirectStep, RedirectLookup, RedirectFetch, RedirectPopulate, PurgeCache,
                  PurgeRow, Count, GoTo, Finish
    <3>4. CASE DeleteStep(r) \/ Abort(r)
      BY <3>4 DEF DeleteStep, DeleteRow, Invalidate, Abort, GoTo, Finish
    <3> QED
      BY <2>4, <3>1, <3>2, <3>3, <3>4
  <2>5. CASE \/ UNCHANGED vars
             \/ \E row \in Requests : Expire(row)
             \/ \E c \in Codes : CacheTTL(c)
    BY <2>5 DEF vars, Expire, CacheTTL, requestVars
  <2> QED
    BY <2>1, <2>2, <2>3, <2>4, <2>5 DEF Next, Environment, Step, CreateStep
<1> QED
  BY <1>1, <1>2, <1>3, PTL DEF Spec, TypeInv

-----------------------------------------------------------------------------
(* The inductive invariant.                                                *)

(* A request has no row in hand before it looks for one; a create only     *)
(* ever holds the row it inserts.                                          *)
HandInv == \A r \in Requests :
    /\ pc[r] # "done" => outcome[r] = "none"
    /\ pc[r] = "idle" => url[r] = NoRow
    /\ IsCreate(r) /\ pc[r] \in {"check", "insert"} => url[r] = NoRow
    /\ IsCreate(r) /\ (pc[r] \in {"refresh", "prewarm"} \/ outcome[r] = "returned") => url[r] = r
    /\ IsCreate(r) => url[r] \in {NoRow, r}

(* Deletions and expiries are for ever.                                    *)
HistoryInv == \A r \in Requests :
    before[r].removed \subseteq removed /\ before[r].expired \subseteq expired

(* Every stored row was committed under its code and is not deleted.       *)
StoredInv == \A c \in Codes : db[c] # NoRow =>
    Registered(db[c]) /\ code[db[c]] = c /\ db[c] \notin removed

(* Only committed rows are deleted.                                        *)
RemovedInv == \A row \in removed : Registered(row)

(* Every committed row is stored until it is deleted.                      *)
KeptInv == \A r \in Requests : Registered(r) /\ r \notin removed => db[code[r]] = r

(* Every cache entry is a copy of a row that was committed under its code. *)
CachedInv == \A c \in Codes : cache[c] # NoRow => Registered(cache[c]) /\ code[cache[c]] = c

(* So is every row a lookup or a redirect has found.                       *)
FoundInv == \A r \in Requests : kind[r] \in {"details", "redirect"} /\ url[r] # NoRow =>
    Registered(url[r]) /\ code[url[r]] = code[r]

(* What get_url and redirect_url have established about the row they hold. *)
FreshInv == \A r \in Requests :
    /\ kind[r] = "details" /\ (pc[r] = "populate" \/ outcome[r] = "returned") =>
         url[r] # NoRow /\ url[r] \notin before[r].removed \cup before[r].expired
    /\ kind[r] = "redirect" /\ (pc[r] \in {"populate", "count"} \/ outcome[r] = "returned") =>
         url[r] # NoRow /\ url[r] \notin before[r].expired

SafetyInv == /\ HandInv
             /\ HistoryInv
             /\ StoredInv
             /\ RemovedInv
             /\ KeptInv
             /\ CachedInv
             /\ FoundInv
             /\ FreshInv
             /\ NoClickLost

-----------------------------------------------------------------------------
(* What a step can do to each part of the state.                           *)

(* The database: a create inserts its row under a free code, or the row    *)
(* under a code is deleted, or nothing changes.                            *)
LEMMA DatabaseEffect ==
    ASSUME [Next]_vars
    PROVE  \/ UNCHANGED <<db, removed>>
           \/ \E r \in Requests : Insert(r) /\ Create(code[r], r)
           \/ \E r \in Requests : (PurgeRow(r) \/ DeleteRow(r)) /\ DeleteByShortCode(code[r])
<1>1. ASSUME NEW r \in Requests, CreateStep(r)
      PROVE  UNCHANGED <<db, removed>> \/ (Insert(r) /\ Create(code[r], r))
  BY <1>1 DEF CreateStep, CheckCustom, AcceptGenerated, RejectGenerated, Insert, Refresh, Prewarm,
              repositoryVars
<1>2. ASSUME NEW r \in Requests, DetailsStep(r) PROVE UNCHANGED <<db, removed>>
  BY <1>2 DEF DetailsStep, DetailsLookup, DetailsFetch, DetailsEvict, DetailsPopulate, repositoryVars
<1>3. ASSUME NEW r \in Requests, RedirectStep(r)
      PROVE  UNCHANGED <<db, removed>> \/ (PurgeRow(r) /\ DeleteByShortCode(code[r]))
  BY <1>3 DEF RedirectStep, RedirectLookup, RedirectFetch, RedirectPopulate, PurgeCache, PurgeRow,
              Count, IncrementClick, repositoryVars
<1>4. ASSUME NEW r \in Requests, DeleteStep(r)
      PROVE  UNCHANGED <<db, removed>> \/ (DeleteRow(r) /\ DeleteByShortCode(code[r]))
  BY <1>4 DEF DeleteStep, DeleteRow, Invalidate, repositoryVars
<1>5. Environment \/ UNCHANGED vars => UNCHANGED <<db, removed>>
  BY DEF Environment, Start, Expire, Abort, CacheTTL, repositoryVars, vars
<1> QED
  BY <1>1, <1>2, <1>3, <1>4, <1>5 DEF Next, Step

(* A handler that has just committed or read its row may copy it to the    *)
(* cache.                                                                  *)
Fills(r) == Prewarm(r) \/ DetailsPopulate(r) \/ RedirectPopulate(r)

(* The cache: an entry stays, disappears, or is filled by a handler with   *)
(* the row it holds.                                                       *)
LEMMA CacheEffect ==
    ASSUME TypeOK, [Next]_vars, NEW c \in Codes
    PROVE  \/ cache'[c] \in {cache[c], NoRow}
           \/ \E r \in Requests : Fills(r) /\ code[r] = c /\ cache'[c] = url[r]
<1> USE DEF TypeOK
<1>1. ASSUME NEW r \in Requests, CacheDelete(code[r]) \/ UNCHANGED cache
      PROVE  cache'[c] \in {cache[c], NoRow}
  BY <1>1 DEF CacheDelete
<1>2. ASSUME NEW r \in Requests, Fills(r)
      PROVE  cache'[c] = cache[c] \/ (code[r] = c /\ cache'[c] = url[r])
  BY <1>2 DEF Fills, Prewarm, DetailsPopulate, RedirectPopulate, CacheSet
<1>3. ASSUME NEW r \in Requests, Step(r)
      PROVE  Fills(r) \/ CacheDelete(code[r]) \/ UNCHANGED cache
  <2>1. CASE CreateStep(r)
    BY <2>1 DEF CreateStep, CheckCustom, AcceptGenerated, RejectGenerated, Insert, Refresh, Fills
  <2>2. CASE DetailsStep(r)
    BY <2>2 DEF DetailsStep, DetailsLookup, DetailsFetch, DetailsEvict, Fills
  <2>3. CASE RedirectStep(r)
    BY <2>3 DEF RedirectStep, RedirectLookup, RedirectFetch, PurgeCache, PurgeRow, Count, Fills
  <2>4. CASE DeleteStep(r)
    BY <2>4 DEF DeleteStep, DeleteRow, Invalidate
  <2> QED
    BY <1>3, <2>1, <2>2, <2>3, <2>4 DEF Step
<1>4. Environment \/ UNCHANGED vars => cache'[c] \in {cache[c], NoRow}
  BY DEF Environment, Start, Expire, Abort, CacheTTL, vars
<1> QED
  BY <1>1, <1>2, <1>3, <1>4 DEF Next

(* Everything about request q is left alone.                               *)
Untouched(q) ==
    /\ kind'[q] = kind[q] /\ pc'[q] = pc[q] /\ code'[q] = code[q] /\ url'[q] = url[q]
    /\ outcome'[q] = outcome[q] /\ before'[q] = before[q] /\ credit'[q] = credit[q]

(* A request is only touched by its own steps, its arrival or its death.   *)
LEMMA RequestEffect ==
    ASSUME TypeOK, [Next]_vars, NEW q \in Requests
    PROVE  \/ Untouched(q)
           \/ Step(q)
           \/ Abort(q)
           \/ \E k \in Kinds, c \in Codes : Start(q, k, c)
<1> USE DEF TypeOK, Untouched, requestConst, repositoryVars
<1>1. ASSUME NEW r \in Requests, r # q, CreateStep(r) PROVE Untouched(q)
  <2>1. CASE CheckCustom(r) \/ AcceptGenerated(r) \/ (\E c \in Codes : RejectGenerated(r, c))
    BY <1>1, <2>1 DEF CheckCustom, AcceptGenerated, RejectGenerated, GoTo, Finish
  <2>2. CASE Insert(r) \/ Refresh(r) \/ Prewarm(r)
    BY <1>1, <2>2 DEF Insert, Refresh, Prewarm, GoTo, Finish, Hold, Create
  <2> QED
    BY <1>1, <2>1, <2>2 DEF CreateStep
<1>2. ASSUME NEW r \in Requests, r # q, DetailsStep(r) PROVE Untouched(q)
  BY <1>2 DEF DetailsStep, DetailsLookup, DetailsFetch, DetailsEvict, DetailsPopulate, GoTo, Finish, Hold
<1>3. ASSUME NEW r \in Requests, r # q, RedirectStep(r) PROVE Untouched(q)
  <2>1. CASE RedirectLookup(r) \/ RedirectFetch(r) \/ RedirectPopulate(r)
    BY <1>3, <2>1 DEF RedirectLookup, RedirectFetch, RedirectPopulate, GoTo, Finish, Hold
  <2>2. CASE PurgeCache(r) \/ PurgeRow(r) \/ Count(r)
    BY <1>3, <2>2 DEF PurgeCache, PurgeRow, Count, GoTo, Finish, DeleteByShortCode, IncrementClick
  <2> QED
    BY <1>3, <2>1, <2>2 DEF RedirectStep
<1>4. ASSUME NEW r \in Requests, r # q, DeleteStep(r) PROVE Untouched(q)
  BY <1>4 DEF DeleteStep, DeleteRow, Invalidate, GoTo, Finish, Hold, DeleteByShortCode
<1>5. ASSUME NEW r \in Requests, r # q, Abort(r) PROVE Untouched(q)
  BY <1>5 DEF Abort, Finish
<1>6. ASSUME NEW r \in Requests, r # q, NEW k \in Kinds, NEW c \in Codes, Start(r, k, c) PROVE Untouched(q)
  BY <1>6 DEF Start, GoTo
<1>7. ASSUME NEW r \in Requests, Expire(r) PROVE Untouched(q)
  BY <1>7 DEF Expire, requestVars
<1>8. ASSUME NEW c \in Codes, CacheTTL(c) PROVE Untouched(q)
  BY <1>8 DEF CacheTTL, requestVars
<1>9. CASE UNCHANGED vars
  BY <1>9 DEF vars, requestVars
<1> QED
  BY <1>1, <1>2, <1>3, <1>4, <1>5, <1>6, <1>7, <1>8, <1>9 DEF Next, Environment, Step

-----------------------------------------------------------------------------
(* Each part of the invariant is preserved.                                *)

(* What a handler has in hand fits the step it is at, after every step.    *)
LEMMA HandPreserved ==
    ASSUME TypeOK, HandInv, [Next]_vars
    PROVE  HandInv'
<1> SUFFICES ASSUME NEW q \in Requests
             PROVE  (/\ pc[q] # "done" => outcome[q] = "none"
                     /\ pc[q] = "idle" => url[q] = NoRow
                     /\ IsCreate(q) /\ pc[q] \in {"check", "insert"} => url[q] = NoRow
                     /\ IsCreate(q) /\ (pc[q] \in {"refresh", "prewarm"} \/ outcome[q] = "returned")
                          => url[q] = q
                     /\ IsCreate(q) => url[q] \in {NoRow, q})'
  BY DEF HandInv
<1> USE DEF TypeOK, HandInv, IsCreate, requestConst
<1>1. CASE Untouched(q)
  BY <1>1 DEF Untouched
<1>2. CASE CreateStep(q)
  <2>1. CASE CheckCustom(q) \/ AcceptGenerated(q) \/ \E c \in Codes : RejectGenerated(q, c)
    BY <2>1 DEF CheckCustom, AcceptGenerated, RejectGenerated, GoTo, Finish, At
  <2>2. CASE Insert(q)
    BY <2>2 DEF Insert, GoTo, Finish, Hold, At
  <2>3. CASE Refresh(q) \/ Prewarm(q)
    BY <2>3 DEF Refresh, Prewarm, GoTo, Finish, At
  <2> QED
    BY <1>2, <2>1, <2>2, <2>3 DEF CreateStep
<1>3. CASE DetailsStep(q)
  BY <1>3 DEF DetailsStep, DetailsLookup, DetailsFetch, DetailsEvict, DetailsPopulate, GoTo, Finish, Hold, At
<1>4. CASE RedirectStep(q)
  <2>1. CASE RedirectLookup(q) \/ RedirectFetch(q) \/ RedirectPopulate(q)
    BY <2>1 DEF RedirectLookup, RedirectFetch, RedirectPopulate, GoTo, Finish, Hold, At
  <2>2. CASE PurgeCache(q) \/ PurgeRow(q) \/ Count(q)
    BY <2>2 DEF PurgeCache, PurgeRow, Count, GoTo, Finish, At
  <2> QED
    BY <1>4, <2>1, <2>2 DEF RedirectStep
<1>5. CASE DeleteStep(q)
  BY <1>5 DEF DeleteStep, DeleteRow, Invalidate, GoTo, Finish, Hold, At
<1>6. CASE Abort(q)
  BY <1>6 DEF Abort, Finish, InFlight
<1>7. ASSUME NEW k \in Kinds, NEW c \in Codes, Start(q, k, c)
      PROVE  (/\ pc[q] # "done" => outcome[q] = "none"
              /\ pc[q] = "idle" => url[q] = NoRow
              /\ IsCreate(q) /\ pc[q] \in {"check", "insert"} => url[q] = NoRow
              /\ IsCreate(q) /\ (pc[q] \in {"refresh", "prewarm"} \/ outcome[q] = "returned")
                   => url[q] = q
              /\ IsCreate(q) => url[q] \in {NoRow, q})'
  <2>1. url'[q] = NoRow /\ outcome'[q] = "none"
    BY <1>7 DEF Start, GoTo
  <2>2. pc'[q] \in {"check", "lookup", "delete_row"}
    BY <1>7 DEF Start, GoTo, FirstStep, AllKinds
  <2> QED
    BY <2>1, <2>2
<1> QED
  BY RequestEffect, <1>1, <1>2, <1>3, <1>4, <1>5, <1>6, <1>7 DEF Step

(* What a request remembers of its beginning stays within what happened.   *)
LEMMA HistoryPreserved ==
    ASSUME TypeOK, HistoryInv, [Next]_vars
    PROVE  HistoryInv' /\ removed \subseteq removed' /\ expired \subseteq expired'
<1> USE DEF TypeOK
<1>1. removed \subseteq removed'
  BY DatabaseEffect DEF Create, DeleteByShortCode
<1>2. expired \subseteq expired'
  <2>1. ASSUME NEW r \in Requests, Step(r) PROVE UNCHANGED expired
    <3>1. CASE CreateStep(r)
      BY <3>1 DEF CreateStep, CheckCustom, AcceptGenerated, RejectGenerated, Insert, Refresh, Prewarm
    <3>2. CASE DetailsStep(r)
      BY <3>2 DEF DetailsStep, DetailsLookup, DetailsFetch, DetailsEvict, DetailsPopulate
    <3>3. CASE RedirectStep(r) \/ DeleteStep(r)
      BY <3>3 DEF RedirectStep, RedirectLookup, RedirectFetch, RedirectPopulate, PurgeCache, PurgeRow,
                  Count, DeleteStep, DeleteRow, Invalidate
    <3> QED
      BY <2>1, <3>1, <3>2, <3>3 DEF Step
  <2> QED
    BY <2>1 DEF Next, Environment, Start, Expire, Abort, CacheTTL, vars
<1>3. ASSUME NEW q \in Requests
      PROVE  before'[q] = before[q] \/ (before'[q].removed = removed /\ before'[q].expired = expired)
  <2>1. ASSUME NEW k \in Kinds, NEW c \in Codes, Start(q, k, c)
        PROVE  before'[q].removed = removed /\ before'[q].expired = expired
    BY <2>1 DEF Start, History
  <2>2. Step(q) \/ Abort(q) => before'[q] = before[q]
    <3>1. CreateStep(q) => before'[q] = before[q]
      BY DEF CreateStep, CheckCustom, AcceptGenerated, RejectGenerated, Insert, Refresh, Prewarm, requestConst
    <3>2. DetailsStep(q) => before'[q] = before[q]
      BY DEF DetailsStep, DetailsLookup, DetailsFetch, DetailsEvict, DetailsPopulate, requestConst
    <3>3. RedirectStep(q) \/ DeleteStep(q) \/ Abort(q) => before'[q] = before[q]
      BY DEF RedirectStep, RedirectLookup, RedirectFetch, RedirectPopulate, PurgeCache, PurgeRow,
             Count, DeleteStep, DeleteRow, Invalidate, Abort, requestConst
    <3> QED
      BY <3>1, <3>2, <3>3 DEF Step
  <2> QED
    BY <2>1, <2>2, RequestEffect DEF Untouched
<1> QED
  BY <1>1, <1>2, <1>3 DEF HistoryInv

(* A committed row keeps its code for ever.                                *)
LEMMA RegisteredStable ==
    ASSUME TypeOK, HandInv, [Next]_vars, NEW q, Registered(q)
    PROVE  Registered(q)' /\ code'[q] = code[q] /\ q \in Requests
<1> USE DEF TypeOK, HandInv, Registered, IsCreate, requestConst
<1>1. q \in Requests /\ pc[q] \notin {"idle", "check", "insert"}
  BY NoRowAssumption
<1>2. CASE Untouched(q)
  BY <1>2 DEF Untouched
<1>3. CASE Step(q)
  BY <1>1, <1>3 DEF Step, CreateStep, CheckCustom, AcceptGenerated, RejectGenerated, Insert, Refresh, Prewarm,
                    DetailsStep, DetailsLookup, DetailsFetch, DetailsEvict, DetailsPopulate,
                    RedirectStep, RedirectLookup, RedirectFetch, RedirectPopulate, PurgeCache, PurgeRow, Count,
                    DeleteStep, DeleteRow, Invalidate, At
<1>4. CASE Abort(q)
  BY <1>4 DEF Abort
<1>5. ~ \E k \in Kinds, c \in Codes : Start(q, k, c)
  BY <1>1 DEF Start
<1> QED
  BY <1>1, <1>2, <1>3, <1>4, <1>5, RequestEffect

(* The row a create inserts is new: registered by this step, and by no     *)
(* earlier one, under a code that was free.                                *)
LEMMA InsertFacts ==
    ASSUME TypeOK, HandInv, RemovedInv, NEW r \in Requests, Insert(r), Create(code[r], r)
    PROVE  /\ db[code[r]] = NoRow /\ db' = [db EXCEPT ![code[r]] = r] /\ removed' = removed
           /\ Registered(r)' /\ code'[r] = code[r]
           /\ ~Registered(r) /\ r \notin removed
<1> USE DEF TypeOK
<1>1. IsCreate(r) /\ pc[r] = "insert"
  BY DEF Insert, At, CreateKinds, IsCreate
<1>2. db[code[r]] = NoRow /\ db' = [db EXCEPT ![code[r]] = r] /\ removed' = removed
  BY DEF Create
<1>3. url' = [url EXCEPT ![r] = r] /\ kind' = kind /\ code' = code
  BY <1>2 DEF Insert, Hold, ShortCodeExists, requestConst
<1>4. url[r] = NoRow
  BY <1>1 DEF HandInv
<1> QED
  BY <1>1, <1>2, <1>3, <1>4, NoRowAssumption DEF Registered, IsCreate, RemovedInv

(* A stored row stays a committed row, stored under its own code.          *)
LEMMA StoredPreserved ==
    ASSUME TypeOK, HandInv, StoredInv, RemovedInv, [Next]_vars
    PROVE  StoredInv' /\ RemovedInv'
<1> USE DEF TypeOK
<1>1. \A q : Registered(q) => Registered(q)' /\ code'[q] = code[q]
  BY RegisteredStable
<1>2. CASE UNCHANGED <<db, removed>>
  BY <1>1, <1>2 DEF StoredInv, RemovedInv
<1>3. ASSUME NEW r \in Requests, Insert(r), Create(code[r], r)
      PROVE  StoredInv' /\ RemovedInv'
  <2>1. /\ db' = [db EXCEPT ![code[r]] = r] /\ removed' = removed
        /\ Registered(r)' /\ code'[r] = code[r] /\ r \notin removed
    BY <1>3, InsertFacts
  <2>2. RemovedInv'
    BY <1>1, <2>1 DEF RemovedInv
  <2>3. ASSUME NEW c \in Codes, db'[c] # NoRow
        PROVE  Registered(db[c])' /\ code'[db'[c]] = c /\ db'[c] \notin removed'
    <3>1. CASE c = code[r]
      BY <2>1, <3>1
    <3>2. CASE c # code[r]
      <4>1. db'[c] = db[c]
        BY <2>1, <3>2
      <4>2. Registered(db[c]) /\ code[db[c]] = c /\ db[c] \notin removed
        BY <2>3, <4>1 DEF StoredInv
      <4> QED
        BY <1>1, <2>1, <4>1, <4>2
    <3> QED
      BY <3>1, <3>2
  <2> QED
    BY <2>2, <2>3 DEF StoredInv
<1>4. ASSUME NEW r \in Requests, DeleteByShortCode(code[r])
      PROVE  StoredInv' /\ RemovedInv'
  <2>1. db' = [db EXCEPT ![code[r]] = NoRow] /\ removed' = removed \cup ({db[code[r]]} \ {NoRow})
    BY <1>4 DEF DeleteByShortCode
  <2>2. RemovedInv'
    BY <1>1, <2>1 DEF RemovedInv, StoredInv
  <2>3. ASSUME NEW c \in Codes, db'[c] # NoRow
        PROVE  Registered(db[c])' /\ code'[db'[c]] = c /\ db'[c] \notin removed'
    <3>1. c # code[r] /\ db'[c] = db[c]
      BY <2>1, <2>3
    <3>2. Registered(db[c]) /\ code[db[c]] = c /\ db[c] \notin removed
      BY <2>3, <3>1 DEF StoredInv
    <3>3. db[c] # db[code[r]]
      BY <2>3, <3>1, <3>2 DEF StoredInv
    <3> QED
      BY <1>1, <2>1, <3>1, <3>2, <3>3
  <2> QED
    BY <2>2, <2>3 DEF StoredInv
<1> QED
  BY <1>2, <1>3, <1>4, DatabaseEffect

(* A committed row that nothing deleted stays stored under its code.       *)
LEMMA KeptPreserved ==
    ASSUME TypeOK, HandInv, StoredInv, RemovedInv, KeptInv, [Next]_vars
    PROVE  KeptInv'
<1> SUFFICES ASSUME NEW q \in Requests, Registered(q)', q \notin removed'
             PROVE  db'[code'[q]] = q
  BY DEF KeptInv
<1> USE DEF TypeOK
<1>1. CASE Registered(q)
  <2>1. code'[q] = code[q]
    BY <1>1, RegisteredStable
  <2>2. q \notin removed
    BY DatabaseEffect DEF Create, DeleteByShortCode
  <2>3. db[code[q]] = q
    BY <1>1, <2>2 DEF KeptInv
  <2>4. ASSUME NEW r \in Requests, Create(code[r], r) PROVE db'[code[q]] = q
    BY <2>3, <2>4, NoRowAssumption DEF Create
  <2>5. ASSUME NEW r \in Requests, DeleteByShortCode(code[r]) PROVE db'[code[q]] = q
    BY <2>3, <2>5, NoRowAssumption DEF DeleteByShortCode
  <2> QED
    BY <2>1, <2>3, <2>4, <2>5, DatabaseEffect
<1>2. CASE ~Registered(q)
  <2>1. Insert(q)
    <3>1. ~Untouched(q)
      BY <1>2 DEF Untouched, Registered, IsCreate
    <3>2. ~Abort(q)
      BY <1>2 DEF Abort, Registered, IsCreate, requestConst
    <3>3. ASSUME NEW k \in Kinds, NEW c \in Codes PROVE ~Start(q, k, c)
      BY NoRowAssumption DEF Start, Registered, HandInv
    <3>4. Step(q)
      BY <3>1, <3>2, <3>3, RequestEffect
    <3> QED
      BY <1>2, <3>4 DEF Registered, IsCreate, requestConst, At,
                        Step, CreateStep, CheckCustom, AcceptGenerated, RejectGenerated, Refresh, Prewarm,
                        DetailsStep, DetailsLookup, DetailsFetch, DetailsEvict, DetailsPopulate,
                        RedirectStep, RedirectLookup, RedirectFetch, RedirectPopulate, PurgeCache, PurgeRow, Count,
                        DeleteStep, DeleteRow, Invalidate
  <2>2. Create(code[q], q)
    BY <1>2, <2>1 DEF Insert, Registered, IsCreate, requestConst
  <2> QED
    BY <2>1, <2>2, InsertFacts
<1> QED
  BY <1>1, <1>2

(* The row a handler that fills the cache holds is committed under the     *)
(* code it works on.                                                       *)
LEMMA FillsRegistered ==
    ASSUME TypeOK, HandInv, FoundInv, FreshInv, NEW r \in Requests, Fills(r)
    PROVE  Registered(url[r]) /\ code[url[r]] = code[r]
<1>1. CASE Prewarm(r)
  BY <1>1 DEF Prewarm, At, CreateKinds, IsCreate, HandInv, Registered
<1>2. CASE DetailsPopulate(r)
  BY <1>2 DEF DetailsPopulate, At, FoundInv, FreshInv
<1>3. CASE RedirectPopulate(r)
  BY <1>3 DEF RedirectPopulate, At, FoundInv, FreshInv
<1> QED
  BY <1>1, <1>2, <1>3 DEF Fills

(* A cache entry stays the copy of a committed row, under its own code.    *)
LEMMA CachedPreserved ==
    ASSUME TypeOK, HandInv, CachedInv, FoundInv, FreshInv, [Next]_vars
    PROVE  CachedInv'
<1> SUFFICES ASSUME NEW c \in Codes, cache'[c] # NoRow
             PROVE  Registered(cache[c])' /\ code'[cache'[c]] = c
  BY DEF CachedInv
<1>1. Registered(cache'[c]) /\ code[cache'[c]] = c
  BY CacheEffect, FillsRegistered DEF CachedInv
<1> QED
  BY <1>1, RegisteredStable DEF Registered, IsCreate

(* The row a lookup or a redirect has found stays committed under the code *)
(* it was asked for.                                                       *)
LEMMA FoundPreserved ==
    ASSUME TypeOK, HandInv, StoredInv, CachedInv, FoundInv, [Next]_vars
    PROVE  FoundInv'
<1> SUFFICES ASSUME NEW q \in Requests, kind'[q] \in {"details", "redirect"}, url'[q] # NoRow
             PROVE  Registered(url[q])' /\ code'[url'[q]] = code'[q]
  BY DEF FoundInv
<1> USE DEF TypeOK
<1>1. Registered(url'[q]) /\ code[url'[q]] = code'[q]
  <2>1. CASE kind'[q] = kind[q] /\ url'[q] = url[q] /\ code'[q] = code[q]
    BY <2>1 DEF FoundInv
  <2>2. CASE DetailsFetch(q) \/ RedirectFetch(q)
    BY <2>2 DEF DetailsFetch, RedirectFetch, GetByShortCode, Hold, StoredInv, FoundInv, requestConst
  <2>3. CASE RedirectLookup(q)
    <3>1. PICK hit \in CacheGet(code[q]) :
             IF hit = NoRow THEN UNCHANGED url ELSE Hold(q, hit)
      BY <2>3 DEF RedirectLookup
    <3>2. CASE hit = NoRow
      BY <2>3, <3>1, <3>2 DEF RedirectLookup, FoundInv, requestConst
    <3>3. CASE hit # NoRow
      <4>1. hit = cache[code[q]] /\ url'[q] = hit
        BY <3>1, <3>3 DEF CacheGet, Hold
      <4> QED
        BY <2>3, <3>3, <4>1 DEF RedirectLookup, CachedInv, requestConst
    <3> QED
      BY <3>2, <3>3
  <2>4. ASSUME NEW k \in Kinds, NEW c \in Codes, Start(q, k, c) PROVE FALSE
    BY <2>4 DEF Start, HandInv
  <2>5. CASE Step(q) \/ Abort(q)
    <3>1. kind'[q] = kind[q]
      BY <2>5 DEF Step, CreateStep, CheckCustom, AcceptGenerated, RejectGenerated, Insert, Refresh, Prewarm,
                  DetailsStep, DetailsLookup, DetailsFetch, DetailsEvict, DetailsPopulate,
                  RedirectStep, RedirectLookup, RedirectFetch, RedirectPopulate, PurgeCache, PurgeRow, Count,
                  DeleteStep, DeleteRow, Invalidate, Abort, requestConst
    <3>2. \/ DetailsFetch(q) \/ RedirectFetch(q) \/ RedirectLookup(q)
          \/ url'[q] = url[q] /\ code'[q] = code[q]
      <4>1. ~CreateStep(q) /\ ~DeleteStep(q)
        BY <3>1 DEF CreateStep, CheckCustom, AcceptGenerated, RejectGenerated, Insert, Refresh, Prewarm,
                    DeleteStep, DeleteRow, Invalidate, At, CreateKinds
      <4> QED
        BY <2>5, <4>1 DEF Step, DetailsStep, DetailsLookup, DetailsEvict, DetailsPopulate,
                          RedirectStep, RedirectPopulate, PurgeCache, PurgeRow, Count, Abort
    <3> QED
      BY <2>1, <2>2, <2>3, <3>1, <3>2
  <2>6. CASE Untouched(q)
    BY <2>1, <2>6 DEF Untouched
  <2> QED
    BY <2>4, <2>5, <2>6, RequestEffect
<1> QED
  BY <1>1, RegisteredStable DEF Registered, IsCreate

(* What FreshInv says of one request.                                      *)
Fresh(q) ==
    /\ kind[q] = "details" /\ (pc[q] = "populate" \/ outcome[q] = "returned") =>
         url[q] # NoRow /\ url[q] \notin before[q].removed \cup before[q].expired
    /\ kind[q] = "redirect" /\ (pc[q] \in {"populate", "count"} \/ outcome[q] = "returned") =>
         url[q] # NoRow /\ url[q] \notin before[q].expired

(* The row a handler is going to answer with was, when the request came    *)
(* in, not expired, and for a lookup not deleted either.                   *)
LEMMA FreshPreserved ==
    ASSUME TypeOK, HandInv, HistoryInv, StoredInv, FreshInv, [Next]_vars
    PROVE  FreshInv'
<1> SUFFICES ASSUME NEW q \in Requests PROVE Fresh(q)'
  BY DEF FreshInv, Fresh
<1> USE DEF TypeOK, requestConst
<1>1. Fresh(q)
  BY DEF FreshInv, Fresh
<1>2. CASE Untouched(q)
  BY <1>1, <1>2 DEF Untouched, Fresh
<1>3. CASE CreateStep(q)
  BY <1>3 DEF CreateStep, CheckCustom, AcceptGenerated, RejectGenerated, Insert, Refresh, Prewarm,
              At, CreateKinds, Fresh
<1>4. CASE DeleteStep(q)
  BY <1>4 DEF DeleteStep, DeleteRow, Invalidate, At, Fresh
<1>5. CASE DetailsFetch(q)
  <2>1. kind'[q] = "details" /\ outcome[q] = "none" /\ before'[q] = before[q]
    BY <1>5 DEF DetailsFetch, At, HandInv
  <2>2. CASE db[code[q]] = NoRow
    BY <1>5, <2>1, <2>2 DEF DetailsFetch, GetByShortCode, Finish, Fresh
  <2>3. CASE db[code[q]] # NoRow /\ ~IsExpired(db[code[q]])
    <3>1. url'[q] = db[code[q]]
      BY <1>5, <2>3 DEF DetailsFetch, GetByShortCode, Hold
    <3>2. db[code[q]] \notin before[q].removed \cup before[q].expired
      BY <2>3 DEF HistoryInv, StoredInv, IsExpired
    <3> QED
      BY <2>1, <2>3, <3>1, <3>2 DEF Fresh
  <2>4. CASE db[code[q]] # NoRow /\ IsExpired(db[code[q]])
    BY <1>5, <2>1, <2>4 DEF DetailsFetch, GetByShortCode, GoTo, Fresh
  <2> QED
    BY <2>2, <2>3, <2>4
<1>6. CASE DetailsLookup(q) \/ DetailsEvict(q) \/ DetailsPopulate(q)
  <2>1. kind'[q] = "details" /\ before'[q] = before[q] /\ url'[q] = url[q] /\ outcome[q] = "none"
    BY <1>6 DEF DetailsLookup, DetailsEvict, DetailsPopulate, At, HandInv
  <2> QED
    BY <1>1, <1>6, <2>1 DEF DetailsLookup, DetailsEvict, DetailsPopulate, At, GoTo, Finish, Fresh
<1>7. CASE RedirectLookup(q)
  <2>1. kind'[q] = "redirect" /\ outcome'[q] = "none" /\ before'[q] = before[q]
    BY <1>7 DEF RedirectLookup, GoTo, At, HandInv
  <2>2. PICK hit \in CacheGet(code[q]) :
           IF hit = NoRow
           THEN GoTo(q, "fetch") /\ UNCHANGED url
           ELSE Hold(q, hit) /\ GoTo(q, IF IsExpired(hit) THEN "purge_cache" ELSE "count")
    BY <1>7 DEF RedirectLookup
  <2>3. CASE hit = NoRow
    BY <2>1, <2>2, <2>3 DEF GoTo, Fresh
  <2>4. CASE hit # NoRow
    <3>1. url'[q] = hit /\ pc'[q] = IF IsExpired(hit) THEN "purge_cache" ELSE "count"
      BY <2>2, <2>4 DEF Hold, GoTo
    <3>2. ~IsExpired(hit) => hit \notin before[q].expired
      BY DEF HistoryInv, IsExpired
    <3> QED
      BY <2>1, <2>4, <3>1, <3>2 DEF Fresh
  <2> QED
    BY <2>3, <2>4
<1>8. CASE RedirectFetch(q)
  <2>1. kind'[q] = "redirect" /\ outcome[q] = "none" /\ before'[q] = before[q]
    BY <1>8 DEF RedirectFetch, At, HandInv
  <2>2. CASE db[code[q]] = NoRow
    BY <1>8, <2>1, <2>2 DEF RedirectFetch, GetByShortCode, Finish, Fresh
  <2>3. CASE db[code[q]] # NoRow
    <3>1. /\ url'[q] = db[code[q]]
          /\ pc'[q] = IF IsExpired(db[code[q]]) THEN "purge_cache" ELSE "populate"
          /\ outcome'[q] = "none"
      BY <1>8, <2>1, <2>3 DEF RedirectFetch, GetByShortCode, Hold, GoTo
    <3>2. ~IsExpired(db[code[q]]) => db[code[q]] \notin before[q].expired
      BY DEF HistoryInv, IsExpired
    <3> QED
      BY <2>1, <2>3, <3>1, <3>2 DEF Fresh
  <2> QED
    BY <2>2, <2>3
<1>9. CASE RedirectPopulate(q) \/ PurgeCache(q) \/ PurgeRow(q) \/ Count(q)
  <2>1. kind'[q] = "redirect" /\ before'[q] = before[q] /\ url'[q] = url[q] /\ outcome[q] = "none"
    BY <1>9 DEF RedirectPopulate, PurgeCache, PurgeRow, Count, At, HandInv
  <2> QED
    BY <1>1, <1>9, <2>1 DEF RedirectPopulate, PurgeCache, PurgeRow, Count, At, GoTo, Finish, Fresh
<1>10. CASE Abort(q)
  BY <1>1, <1>10 DEF Abort, Finish, Fresh
<1>11. ASSUME NEW k \in Kinds, NEW c \in Codes, Start(q, k, c) PROVE Fresh(q)'
  <2>1. pc'[q] \in {"check", "lookup", "delete_row"} /\ outcome'[q] = "none"
    BY <1>11 DEF Start, GoTo, FirstStep, AllKinds, HandInv
  <2> QED
    BY <2>1 DEF Fresh
<1> QED
  BY <1>2, <1>3, <1>4, <1>5, <1>6, <1>7, <1>8, <1>9, <1>10, <1>11, RequestEffect
     DEF Step, DetailsStep, RedirectStep

(* An answered redirect stays counted on its URL, until that is deleted.   *)
LEMMA ClicksPreserved ==
    ASSUME TypeOK, HandInv, HistoryInv, KeptInv, FoundInv, FreshInv, NoClickLost, [Next]_vars
    PROVE  NoClickLost'
<1> SUFFICES ASSUME NEW q \in Requests, Returned(q, "redirect")', url'[q] \notin removed'
             PROVE  credit'[q] = url'[q]
  BY DEF NoClickLost
<1> USE DEF TypeOK, Returned, requestConst
<1>1. url'[q] \notin removed
  BY HistoryPreserved
<1>2. CASE Untouched(q)
  BY <1>1, <1>2 DEF Untouched, NoClickLost
<1>3. CASE Count(q)
  <2>1. /\ url'[q] = url[q] /\ url[q] # NoRow
        /\ kind[q] = "redirect" /\ credit'[q] = db[code[q]]
    BY <1>3 DEF Count, At, FreshInv, IncrementClick
  <2>2. Registered(url[q]) /\ code[url[q]] = code[q]
    BY <2>1 DEF FoundInv
  <2> QED
    BY <1>1, <2>1, <2>2 DEF KeptInv, Registered
<1>4. CASE CreateStep(q) \/ DetailsStep(q) \/ DeleteStep(q)
  BY <1>4 DEF CreateStep, CheckCustom, AcceptGenerated, RejectGenerated, Insert, Refresh, Prewarm,
              DetailsStep, DetailsLookup, DetailsFetch, DetailsEvict, DetailsPopulate,
              DeleteStep, DeleteRow, Invalidate, At, CreateKinds
<1>5. CASE \/ RedirectLookup(q) \/ RedirectFetch(q) \/ RedirectPopulate(q)
           \/ PurgeCache(q) \/ PurgeRow(q)
  <2>1. outcome[q] = "none"
    BY <1>5 DEF RedirectLookup, RedirectFetch, RedirectPopulate, PurgeCache, PurgeRow, At, HandInv
  <2> QED
    BY <1>5, <2>1 DEF RedirectLookup, RedirectFetch, RedirectPopulate, PurgeCache, PurgeRow, GoTo, Finish
<1>6. CASE Abort(q)
  BY <1>6 DEF Abort, Finish
<1>7. ASSUME NEW k \in Kinds, NEW c \in Codes, Start(q, k, c) PROVE FALSE
  BY <1>7 DEF Start, GoTo, HandInv
<1> QED
  BY <1>2, <1>3, <1>4, <1>5, <1>6, <1>7, RequestEffect DEF Step, RedirectStep

-----------------------------------------------------------------------------
(* The inductive invariant holds, and with it the safety properties.       *)

(* The inductive invariant holds in every reachable state.                 *)
LEMMA SafetyInvariant == Spec => []SafetyInv
<1>1. Init => SafetyInv
  BY NoRowAssumption
     DEF Init, SafetyInv, HandInv, HistoryInv, StoredInv, RemovedInv, KeptInv, CachedInv, FoundInv,
         FreshInv, NoClickLost, Returned, IsCreate, Registered, History
<1>2. TypeOK /\ SafetyInv /\ [Next]_vars => SafetyInv'
  BY HandPreserved, HistoryPreserved, StoredPreserved, KeptPreserved, CachedPreserved, FoundPreserved,
     FreshPreserved, ClicksPreserved DEF SafetyInv
<1> QED
  BY <1>1, <1>2, TypeCorrect, PTL DEF Spec

(* A lookup never answers with a row deleted or expired before it began.   *)
THEOREM DetailsAreFresh == Spec => []DetailsFresh
<1>1. SafetyInv => DetailsFresh
  BY DEF SafetyInv, FreshInv, DetailsFresh, Returned
<1> QED
  BY <1>1, SafetyInvariant, PTL

(* A redirect never leads to a URL that expired before it began.           *)
THEOREM ExpiredUrlsAreNeverServed == Spec => []ExpiredNeverServed
<1>1. SafetyInv => ExpiredNeverServed
  BY DEF SafetyInv, FreshInv, ExpiredNeverServed, Returned
<1> QED
  BY <1>1, SafetyInvariant, PTL

(* An acknowledged URL stays under its code until it is deleted.           *)
THEOREM AcknowledgedUrlsAreDurable == Spec => []AcknowledgedUrlIsDurable
<1>1. SafetyInv => AcknowledgedUrlIsDurable
  BY DEF SafetyInv, HandInv, KeptInv, AcknowledgedUrlIsDurable, Registered
<1> QED
  BY <1>1, SafetyInvariant, PTL

(* Only committed URLs are served, and under their own code.               *)
THEOREM ServedUrlsAreRegistered == Spec => []ServedUrlWasRegistered
<1>1. SafetyInv => ServedUrlWasRegistered
  BY DEF SafetyInv, FreshInv, FoundInv, ServedUrlWasRegistered, Answered, Returned
<1> QED
  BY <1>1, SafetyInvariant, PTL

(* No click on a URL that still exists is lost.                            *)
THEOREM ClicksAreCounted == Spec => []NoClickLost
<1>1. SafetyInv => NoClickLost
  BY DEF SafetyInv
<1> QED
  BY <1>1, SafetyInvariant, PTL

-----------------------------------------------------------------------------
(* Where rows that are judged or copied come from.                         *)

(* What request q is about to copy to the cache was stored, unexpired,     *)
(* when q began; what it cleans up, or is refused because of, has expired. *)
Grounds(q) ==
    /\ q \notin before[q].removed \cup before[q].expired
    /\ kind[q] = "redirect" /\ pc[q] = "populate" => url[q] \notin before[q].removed
    /\ kind[q] = "redirect" /\ pc[q] \in {"purge_cache", "purge_row"} => url[q] \in expired
    /\ kind[q] = "details" /\ pc[q] = "evict" =>
         \E row \in expired : Registered(row) /\ code[row] = code[q]

(* Only committed rows expire, and every request acts on such grounds.     *)
GroundsInv == (\A row \in expired : Registered(row)) /\ \A q \in Requests : Grounds(q)

(* An expired row stays expired and committed under its code.              *)
LEMMA ExpiredStable ==
    ASSUME TypeOK, HandInv, [Next]_vars, NEW row, row \in expired, Registered(row)
    PROVE  row \in expired' /\ Registered(row)' /\ code'[row] = code[row]
<1>1. expired \subseteq expired'
  BY DEF Next, Environment, Start, Expire, Abort, CacheTTL, vars,
         Step, CreateStep, CheckCustom, AcceptGenerated, RejectGenerated, Insert, Refresh, Prewarm,
         DetailsStep, DetailsLookup, DetailsFetch, DetailsEvict, DetailsPopulate,
         RedirectStep, RedirectLookup, RedirectFetch, RedirectPopulate, PurgeCache, PurgeRow, Count,
         DeleteStep, DeleteRow, Invalidate
<1> QED
  BY <1>1, RegisteredStable

(* A step leaves request q on good grounds.                                *)
LEMMA GroundsPreserved ==
    ASSUME TypeOK, SafetyInv, GroundsInv, [Next]_vars, NEW q \in Requests
    PROVE  Grounds(q)'
<1> USE DEF TypeOK, requestConst
<1>0. /\ Grounds(q) /\ HandInv /\ HistoryInv /\ StoredInv /\ CachedInv /\ RemovedInv
      /\ \A row \in expired : Registered(row)
  BY DEF SafetyInv, GroundsInv
<1>a. \A row \in expired : row \in expired' /\ Registered(row)' /\ code'[row] = code[row]
  BY <1>0, ExpiredStable
<1>b. ASSUME kind'[q] = kind[q], before'[q] = before[q], pc'[q] \notin {"populate", "purge_cache", "purge_row", "evict"}
      PROVE  Grounds(q)'
  BY <1>0, <1>b DEF Grounds
<1>1. CASE Untouched(q)
  BY <1>0, <1>a, <1>1 DEF Untouched, Grounds
<1>2. CASE CreateStep(q) \/ DeleteStep(q) \/ Abort(q)
  <2>1. kind'[q] = kind[q] /\ before'[q] = before[q]
    BY <1>2 DEF CreateStep, CheckCustom, AcceptGenerated, RejectGenerated, Insert, Refresh, Prewarm,
                DeleteStep, DeleteRow, Invalidate, Abort
  <2>2. pc'[q] \notin {"populate", "purge_cache", "purge_row", "evict"}
    BY <1>2 DEF CreateStep, CheckCustom, AcceptGenerated, RejectGenerated, Insert, Refresh, Prewarm,
                DeleteStep, DeleteRow, Invalidate, Abort, GoTo, Finish
  <2> QED
    BY <1>b, <2>1, <2>2
<1>3. CASE DetailsStep(q)
  <2>1. /\ kind'[q] = "details" /\ kind[q] = "details" /\ before'[q] = before[q] /\ code'[q] = code[q]
        /\ UNCHANGED expired
    BY <1>3 DEF DetailsStep, DetailsLookup, DetailsFetch, DetailsEvict, DetailsPopulate, At
  <2>2. ASSUME NEW row \in expired, Registered(row), code[row] = code[q] PROVE Grounds(q)'
    <3>1. \E x \in expired' : Registered(x)' /\ code'[x] = code'[q]
      BY <1>a, <2>1, <2>2
    <3>2. q \notin before'[q].removed \cup before'[q].expired
      BY <1>0, <2>1 DEF Grounds
    <3> QED
      BY <2>1, <3>1, <3>2 DEF Grounds
  <2>3. CASE DetailsLookup(q)
    <3>1. PICK hit \in CacheGet(code[q]) : pc'[q] = IF IsExpired(hit) THEN "evict" ELSE "fetch"
      BY <2>3 DEF DetailsLookup, GoTo
    <3>2. CASE IsExpired(hit)
      <4>1. hit = cache[code[q]] /\ hit # NoRow /\ hit \in expired
        BY <1>0, <3>1, <3>2 DEF CacheGet, IsExpired, Registered
      <4> QED
        BY <1>0, <2>2, <4>1 DEF CachedInv
    <3> QED
      BY <1>b, <2>1, <3>1, <3>2
  <2>4. CASE DetailsFetch(q)
    <3>1. CASE db[code[q]] # NoRow /\ IsExpired(db[code[q]])
      BY <1>0, <2>2, <3>1 DEF IsExpired, StoredInv
    <3>2. CASE ~(db[code[q]] # NoRow /\ IsExpired(db[code[q]]))
      <4>1. pc'[q] \in {"done", "populate"}
        BY <2>4, <3>2 DEF DetailsFetch, GetByShortCode, GoTo, Finish
      <4> QED
        BY <1>0, <2>1, <4>1 DEF Grounds
    <3> QED
      BY <3>1, <3>2
  <2>5. CASE DetailsEvict(q) \/ DetailsPopulate(q)
    BY <1>b, <2>1, <2>5 DEF DetailsEvict, DetailsPopulate, Finish
  <2> QED
    BY <1>3, <2>3, <2>4, <2>5 DEF DetailsStep
<1>4. CASE RedirectStep(q)
  <2>1. kind'[q] = "redirect" /\ kind[q] = "redirect" /\ before'[q] = before[q] /\ UNCHANGED expired
    BY <1>4 DEF RedirectStep, RedirectLookup, RedirectFetch, RedirectPopulate, PurgeCache, PurgeRow, Count, At
  <2>2. CASE RedirectLookup(q)
    <3>1. PICK hit \in CacheGet(code[q]) :
             IF hit = NoRow
             THEN GoTo(q, "fetch") /\ UNCHANGED url
             ELSE Hold(q, hit) /\ GoTo(q, IF IsExpired(hit) THEN "purge_cache" ELSE "count")
      BY <2>2 DEF RedirectLookup
    <3>2. CASE hit = NoRow
      BY <1>b, <2>1, <3>1, <3>2 DEF GoTo
    <3>3. CASE hit # NoRow
      <4>1. url'[q] = hit /\ pc'[q] = IF IsExpired(hit) THEN "purge_cache" ELSE "count"
        BY <3>1, <3>3 DEF Hold, GoTo
      <4> QED
        BY <1>0, <2>1, <4>1 DEF Grounds, IsExpired
    <3> QED
      BY <3>2, <3>3
  <2>3. CASE RedirectFetch(q)
    <3>1. CASE db[code[q]] = NoRow
      BY <1>b, <2>1, <2>3, <3>1 DEF RedirectFetch, GetByShortCode, Finish
    <3>2. CASE db[code[q]] # NoRow
      <4>1. /\ url'[q] = db[code[q]]
            /\ pc'[q] = IF IsExpired(db[code[q]]) THEN "purge_cache" ELSE "populate"
        BY <2>3, <3>2 DEF RedirectFetch, GetByShortCode, Hold, GoTo
      <4>2. db[code[q]] \notin before[q].removed
        BY <1>0, <3>2 DEF HistoryInv, StoredInv
      <4> QED
        BY <1>0, <2>1, <4>1, <4>2 DEF Grounds, IsExpired
    <3> QED
      BY <3>1, <3>2
  <2>4. CASE PurgeCache(q)
    <3>1. url'[q] = url[q] /\ pc[q] = "purge_cache" /\ pc'[q] = "purge_row"
      BY <2>4 DEF PurgeCache, At, GoTo
    <3> QED
      BY <1>0, <2>1, <3>1 DEF Grounds
  <2>5. CASE RedirectPopulate(q) \/ PurgeRow(q) \/ Count(q)
    BY <1>b, <2>1, <2>5 DEF RedirectPopulate, PurgeRow, Count, GoTo, Finish
  <2> QED
    BY <1>4, <2>2, <2>3, <2>4, <2>5 DEF RedirectStep
<1>5. ASSUME NEW k \in Kinds, NEW c \in Codes, Start(q, k, c) PROVE Grounds(q)'
  <2>1. pc'[q] \in {"check", "lookup", "delete_row"}
    BY <1>5 DEF Start, GoTo, FirstStep, AllKinds
  <2>2. before'[q].removed = removed /\ before'[q].expired = expired
    BY <1>5 DEF Start, History
  <2>3. q \notin removed \cup expired
    BY <1>0, <1>5 DEF Start, HandInv, RemovedInv, Registered
  <2> QED
    BY <2>1, <2>2, <2>3 DEF Grounds
<1> QED
  BY <1>1, <1>2, <1>3, <1>4, <1>5, RequestEffect DEF Step

(* Every request acts on such grounds, in every reachable state.           *)
LEMMA GroundsInvariant == Spec => [](SafetyInv /\ GroundsInv)
<1>1. Init => GroundsInv
  BY DEF Init, GroundsInv, Grounds, History
<1>2. TypeOK /\ SafetyInv /\ GroundsInv /\ [Next]_vars => GroundsInv'
  <2> SUFFICES ASSUME TypeOK, SafetyInv, GroundsInv, [Next]_vars PROVE GroundsInv'
    OBVIOUS
  <2>1. HandInv
    BY DEF SafetyInv
  <2>2. ASSUME NEW row \in expired' PROVE Registered(row)'
    <3>1. CASE row \in expired
      BY <2>1, <3>1, ExpiredStable DEF GroundsInv
    <3>2. CASE row \notin expired
      <4>1. Expire(row)
        BY <2>2, <3>2 DEF Next, Environment, Start, Expire, Abort, CacheTTL, vars,
               Step, CreateStep, CheckCustom, AcceptGenerated, RejectGenerated, Insert, Refresh, Prewarm,
               DetailsStep, DetailsLookup, DetailsFetch, DetailsEvict, DetailsPopulate,
               RedirectStep, RedirectLookup, RedirectFetch, RedirectPopulate, PurgeCache, PurgeRow, Count,
               DeleteStep, DeleteRow, Invalidate
      <4> QED
        BY <2>1, <4>1, RegisteredStable DEF Expire
    <3> QED
      BY <3>1, <3>2
  <2> QED
    BY <2>2, GroundsPreserved DEF GroundsInv
<1> QED
  BY <1>1, <1>2, TypeCorrect, SafetyInvariant, PTL DEF Spec

(* Nobody puts a row into the cache that was deleted, or had expired, when *)
(* the request began that puts it there.                                   *)
THEOREM StaleCopiesAreNotRenewed == Spec => StaleCopyNotRenewed
<1>1. ASSUME TypeOK, SafetyInv, GroundsInv, [Next]_vars, NEW c \in Codes, cache'[c] \notin {cache[c], NoRow}
      PROVE  \E r \in InFlight :
                /\ pc'[r] # pc[r] /\ code[r] = c /\ url[r] = cache'[c]
                /\ url[r] \notin before[r].removed \cup before[r].expired
  <2>1. PICK r \in Requests : Fills(r) /\ code[r] = c /\ cache'[c] = url[r]
    BY <1>1, CacheEffect
  <2>2. r \in InFlight /\ pc'[r] # pc[r]
    BY <1>1, <2>1 DEF Fills, Prewarm, DetailsPopulate, RedirectPopulate, At, GoTo, Finish, InFlight, TypeOK
  <2>3. Grounds(r) /\ HandInv /\ FreshInv
    BY <1>1 DEF GroundsInv, SafetyInv
  <2>4. url[r] \notin before[r].removed \cup before[r].expired
    <3>1. CASE Prewarm(r)
      BY <2>3, <3>1 DEF Prewarm, At, CreateKinds, IsCreate, HandInv, Grounds
    <3>2. CASE DetailsPopulate(r)
      BY <2>3, <3>2 DEF DetailsPopulate, At, FreshInv
    <3>3. CASE RedirectPopulate(r)
      BY <2>3, <3>3 DEF RedirectPopulate, At, FreshInv, Grounds
    <3> QED
      BY <2>1, <3>1, <3>2, <3>3 DEF Fills
  <2> QED
    BY <2>1, <2>2, <2>4
<1>2. TypeOK /\ (SafetyInv /\ GroundsInv) /\ [Next]_vars =>
        [\A c \in Codes : cache'[c] \notin {cache[c], NoRow} =>
          \E r \in InFlight :
              /\ pc'[r] # pc[r] /\ code[r] = c /\ url[r] = cache'[c]
              /\ url[r] \notin before[r].removed \cup before[r].expired]_vars
  BY <1>1
<1> QED
  BY <1>2, TypeCorrect, GroundsInvariant, PTL DEF Spec, StaleCopyNotRenewed

(* An expired row of a code under which another one is stored is gone.     *)
LEMMA ExpiredIsGone ==
    ASSUME SafetyInv, NEW row \in expired, Registered(row), db[code[row]] # row
    PROVE  row \in Predecessors(code[row])
  BY DEF SafetyInv, KeptInv, Predecessors, Registered

(* A URL that has not expired is only lost without a delete, or withheld,  *)
(* if its code belonged to a URL that has expired, whatever fails.         *)
THEOREM LiveUrlsLeftAlone == Spec => LiveUrlsAreLeftAlone
<1>1. ASSUME TypeOK, SafetyInv, GroundsInv, [Next]_vars, NEW row \in removed' \ removed,
             row \notin expired
      PROVE  \/ Predecessors(code[row]) # {}
             \/ \E d \in InFlight : At(d, {"delete"}, "delete_row") /\ code[d] = code[row]
                                       /\ pc'[d] # pc[d]
  <2>1. PICK r \in Requests : (PurgeRow(r) \/ DeleteRow(r)) /\ DeleteByShortCode(code[r])
    BY <1>1, DatabaseEffect DEF Create
  <2>2. row = db[code[r]] /\ row # NoRow /\ code[r] \in Codes
    BY <1>1, <2>1 DEF DeleteByShortCode, TypeOK
  <2>3. code[row] = code[r]
    BY <1>1, <2>2 DEF SafetyInv, StoredInv
  <2>4. CASE DeleteRow(r)
    BY <1>1, <2>3, <2>4 DEF DeleteRow, At, GoTo, Finish, InFlight, TypeOK
  <2>5. CASE PurgeRow(r)
    <3>1. kind[r] = "redirect" /\ url[r] \in expired
      BY <1>1, <2>5 DEF PurgeRow, At, GroundsInv, Grounds
    <3>2. Registered(url[r]) /\ url[r] # NoRow /\ url[r] # row
      BY <1>1, <3>1 DEF GroundsInv, Registered
    <3>3. code[url[r]] = code[r]
      BY <1>1, <3>1, <3>2 DEF SafetyInv, FoundInv
    <3>4. url[r] \in Predecessors(code[url[r]])
      BY <1>1, <2>2, <3>1, <3>2, <3>3, ExpiredIsGone
    <3> QED
      BY <2>3, <3>3, <3>4
  <2> QED
    BY <2>1, <2>4, <2>5
<1>2. ASSUME TypeOK, SafetyInv, GroundsInv, [Next]_vars, NEW q \in InFlight,
             kind[q] \in {"details", "redirect"}, outcome'[q] \in {"not_found", "expired"},
             db[code[q]] \notin {NoRow} \cup expired
      PROVE  outcome'[q] = "expired" /\ Predecessors(code[q]) # {}
  <2>1. outcome[q] = "none" /\ Grounds(q) /\ q \in Requests
    BY <1>2 DEF SafetyInv, HandInv, GroundsInv, InFlight
  <2>2. Step(q)
    BY <1>2, <2>1, RequestEffect DEF Untouched, Abort, Finish, Start, GoTo, TypeOK
  <2>3. DetailsEvict(q) \/ PurgeRow(q)
    <3>1. ~CreateStep(q) /\ ~DeleteStep(q)
      BY <1>2 DEF CreateStep, CheckCustom, AcceptGenerated, RejectGenerated, Insert, Refresh, Prewarm,
                  DeleteStep, DeleteRow, Invalidate, At, CreateKinds
    <3>2. CASE DetailsStep(q)
      BY <1>2, <2>1, <3>2 DEF DetailsStep, DetailsLookup, DetailsFetch, DetailsPopulate,
                         GetByShortCode, GoTo, Finish, TypeOK
    <3>3. CASE RedirectStep(q)
      BY <1>2, <2>1, <3>3 DEF RedirectStep, RedirectLookup, RedirectFetch, RedirectPopulate, PurgeCache,
                         Count, GetByShortCode, GoTo, Finish, TypeOK
    <3> QED
      BY <2>2, <3>1, <3>2, <3>3 DEF Step
  <2>4. outcome'[q] = "expired"
    BY <1>2, <2>1, <2>3 DEF DetailsEvict, PurgeRow, Finish, TypeOK
  <2>5. PICK row \in expired : Registered(row) /\ code[row] = code[q]
    <3>1. CASE DetailsEvict(q)
      BY <2>1, <3>1 DEF DetailsEvict, At, Grounds
    <3>2. CASE PurgeRow(q)
      <4>1. kind[q] = "redirect" /\ url[q] \in expired
        BY <2>1, <3>2 DEF PurgeRow, At, Grounds
      <4>2. Registered(url[q]) /\ url[q] # NoRow
        BY <1>2, <4>1 DEF GroundsInv, Registered
      <4> QED
        BY <1>2, <2>1, <4>1, <4>2 DEF SafetyInv, FoundInv
    <3> QED
      BY <2>3, <3>1, <3>2
  <2>6. row \in Predecessors(code[row])
    BY <1>2, <2>5, ExpiredIsGone
  <2> QED
    BY <2>4, <2>5, <2>6
<1>3. TypeOK /\ (SafetyInv /\ GroundsInv) /\ [Next]_vars =>
        [/\ \A row \in removed' \ removed :
            \/ row \in expired \/ Predecessors(code[row]) # {}
            \/ \E d \in InFlight : At(d, {"delete"}, "delete_row") /\ code[d] = code[row]
                                      /\ pc'[d] # pc[d]
         /\ \A r \in InFlight :
            kind[r] \in {"details", "redirect"} /\ outcome'[r] \in {"not_found", "expired"} =>
                \/ db[code[r]] \in {NoRow} \cup expired
                \/ outcome'[r] = "expired" /\ Predecessors(code[r]) # {}]_vars
  BY <1>1, <1>2
<1> QED
  BY <1>3, TypeCorrect, GroundsInvariant, PTL DEF Spec, LiveUrlsAreLeftAlone

-----------------------------------------------------------------------------
(* The handlers implement the atomic registry of links, for every set of   *)
(* requests and codes, with Redis failing and requests dying.              *)

(* A request that is yet to answer has nothing in hand; a redirect that    *)
(* counts or cleans up has a row.                                          *)
Hands == \A r \in Requests :
    /\ pc[r] = "idle" => kind[r] = "none"
    /\ pc[r] \in {"idle", "lookup", "fetch", "delete_row"} => url[r] = NoRow
    /\ kind[r] = "redirect" /\ pc[r] \in {"populate", "count", "purge_cache", "purge_row"} => url[r] # NoRow

RegistryInv == TypeOK /\ SafetyInv /\ Hands

LEMMA HandsStep == TypeOK /\ SafetyInv /\ Hands /\ [Next]_vars => Hands'
<1> SUFFICES ASSUME TypeOK, SafetyInv, Hands, [Next]_vars PROVE Hands'
    OBVIOUS
<1> USE DEF Hands, TypeOK, requestConst
<1>1. ASSUME NEW r \in Requests, NEW k \in Kinds, NEW c \in Codes, Start(r, k, c) PROVE Hands'
  <2>1. FirstStep[k] \in {"check", "lookup", "delete_row"}
      BY ServiceAssumption DEF FirstStep, AllKinds
  <2> QED
      BY <1>1, <2>1 DEF Start, GoTo
<1>2. ASSUME NEW r \in Requests, CreateStep(r) PROVE Hands'
  <2>1. /\ IsCreate(r) /\ UNCHANGED kind
        /\ \A q \in Requests \ {r} : pc'[q] = pc[q] /\ url'[q] = url[q]
        /\ pc'[r] \in {"check", "insert", "refresh", "prewarm", "done"}
      BY <1>2 DEF CreateStep, CheckCustom, AcceptGenerated, RejectGenerated, Insert, Refresh, Prewarm,
                  At, GoTo, Finish, Hold, CreateKinds, IsCreate
  <2> QED
      BY <2>1 DEF IsCreate
<1>3. ASSUME NEW r \in Requests, DetailsStep(r) PROVE Hands'
  <2>1. /\ kind[r] = "details" /\ UNCHANGED kind
        /\ \A q \in Requests \ {r} : pc'[q] = pc[q] /\ url'[q] = url[q]
        /\ pc'[r] \in {"fetch", "evict", "populate", "done"}
        /\ pc'[r] = "fetch" => pc[r] = "lookup" /\ url'[r] = url[r]
      BY <1>3 DEF DetailsStep, DetailsLookup, DetailsFetch, DetailsEvict, DetailsPopulate,
                  At, GoTo, Finish, Hold
  <2> QED
      BY <2>1
<1>4. ASSUME NEW r \in Requests, RedirectLookup(r) \/ RedirectFetch(r) PROVE Hands'
  <2>1. /\ kind[r] = "redirect" /\ UNCHANGED kind
        /\ \A q \in Requests \ {r} : pc'[q] = pc[q] /\ url'[q] = url[q]
        /\ \/ pc'[r] = "fetch" /\ pc[r] = "lookup" /\ url'[r] = url[r]
           \/ pc'[r] = "done"
           \/ pc'[r] \in {"populate", "count", "purge_cache"} /\ url'[r] # NoRow
      BY <1>4, RowFacts DEF RedirectLookup, RedirectFetch, At, GoTo, Finish, Hold, CacheGet, GetByShortCode
  <2> QED
      BY <2>1
<1>5. ASSUME NEW r \in Requests, RedirectPopulate(r) \/ PurgeCache(r) \/ PurgeRow(r) \/ Count(r) PROVE Hands'
  <2>1. /\ kind[r] = "redirect" /\ UNCHANGED <<kind, url>>
        /\ pc[r] \in {"populate", "count", "purge_cache", "purge_row"}
        /\ \A q \in Requests \ {r} : pc'[q] = pc[q]
        /\ pc'[r] \in {"count", "purge_row", "done"}
      BY <1>5 DEF RedirectPopulate, PurgeCache, PurgeRow, Count, At, GoTo, Finish
  <2> QED
      BY <2>1
<1>6. ASSUME NEW r \in Requests, DeleteStep(r) PROVE Hands'
  <2>1. /\ kind[r] = "delete" /\ UNCHANGED kind
        /\ \A q \in Requests \ {r} : pc'[q] = pc[q] /\ url'[q] = url[q]
        /\ pc'[r] \in {"invalidate", "done"}
      BY <1>6 DEF DeleteStep, DeleteRow, Invalidate, At, GoTo, Finish, Hold
  <2> QED
      BY <2>1
<1>7. ASSUME NEW r \in Requests, Abort(r) PROVE Hands'
    BY <1>7 DEF Abort, Finish, InFlight
<1>8. ASSUME UNCHANGED <<kind, pc, url>> PROVE Hands'
    BY <1>8
<1>9. ASSUME NEW row \in Requests, Expire(row) PROVE Hands'
    BY <1>8, <1>9 DEF Expire, requestVars
<1>10. ASSUME NEW c \in Codes, CacheTTL(c) PROVE Hands'
    BY <1>8, <1>10 DEF CacheTTL, requestVars
<1>11. CASE UNCHANGED vars
    BY <1>8, <1>11 DEF vars, requestVars
<1> QED
    BY <1>1, <1>2, <1>3, <1>4, <1>5, <1>6, <1>7, <1>9, <1>10, <1>11
    DEF Next, Environment, Step, RedirectStep

LEMMA RegistryInvariant == Spec => []RegistryInv
<1>1. Init => Hands
    BY DEF Init, Hands
<1>2. Hands /\ TypeOK /\ SafetyInv /\ [Next]_vars => Hands'
    BY HandsStep
<1> QED
    BY <1>1, <1>2, TypeCorrect, SafetyInvariant, PTL DEF Spec, RegistryInv

-----------------------------------------------------------------------------
(* What the registry sees of a step                                        *)

(* Nothing                                                                 *)
LEMMA Unseen ==
    ASSUME UNCHANGED <<kind, code, url, db, credit>> PROVE UNCHANGED Registry!vars
BY DEF Registry!vars, Registered, IsCreate

Role(r) == IF IsCreate(r) THEN "create" ELSE kind[r]
Ever == [c \in Codes |-> {row \in Requests : Registered(row) /\ code[row] = c}]

(* What was ever bound changes by inserts only.                            *)
LEMMA EverStable ==
    ASSUME \A q \in Requests : /\ Registered(q)' <=> Registered(q)
                               /\ Registered(q) => code'[q] = code[q]
    PROVE  Ever' = Ever
<1>1. \A c \in Codes : {row \in Requests : Registered(row)' /\ code'[row] = c}
                          = {row \in Requests : Registered(row) /\ code[row] = c}
    OBVIOUS
<1> QED
    BY <1>1 DEF Ever

LEMMA StartSeen ==
    ASSUME RegistryInv, NEW r \in Requests, NEW k \in Kinds, NEW c \in Codes, Start(r, k, c)
    PROVE  Registry!Next
<1> DEFINE x == IF k \in {"custom", "generate"} THEN "create" ELSE k
<1>1. /\ pc[r] = "idle" /\ kind[r] = "none" /\ url[r] = NoRow
      /\ kind' = [kind EXCEPT ![r] = k] /\ code' = [code EXCEPT ![r] = c]
      /\ UNCHANGED <<url, db, credit>>
    BY DEF Start, repositoryVars, RegistryInv, Hands
<1>2. x \in Registry!Roles
    BY ServiceAssumption DEF Registry!Roles, AllKinds
<1>3. [q \in Requests |-> Role(q)]' = [[q \in Requests |-> Role(q)] EXCEPT ![r] = x]
    BY <1>1 DEF Role, IsCreate, RegistryInv, TypeOK
<1>4. Ever' = Ever
  <2>1. \A q \in Requests : /\ Registered(q)' <=> Registered(q)
                            /\ Registered(q) => code'[q] = code[q]
    <3>1. ~Registered(r) /\ ~Registered(r)'
        BY <1>1, NoRowAssumption DEF Registered
    <3>2. \A q \in Requests \ {r} : kind'[q] = kind[q] /\ url'[q] = url[q] /\ code'[q] = code[q]
        BY <1>1 DEF RegistryInv, TypeOK
    <3> QED
        BY <3>1, <3>2 DEF Registered, IsCreate
  <2> QED
      BY <2>1, EverStable
<1>5. Role(r) = "none"
    BY <1>1 DEF Role, IsCreate
<1>6. Registry!Ask(r, x, c)
    BY <1>1, <1>3, <1>4, <1>5 DEF Registry!Ask, Role, Ever
<1> HIDE DEF x
<1> QED
    BY <1>2, <1>6 DEF Registry!Next

LEMMA RedrawSeen ==
    ASSUME RegistryInv, NEW r \in Requests, NEW c \in Codes, RejectGenerated(r, c)
    PROVE  [Registry!Next]_Registry!vars
<1>1. /\ IsCreate(r) /\ url[r] = NoRow /\ UNCHANGED <<kind, url, db, credit>>
    BY DEF RejectGenerated, At, IsCreate, requestConst, repositoryVars, RegistryInv, SafetyInv, HandInv
<1>2. CASE code' = [code EXCEPT ![r] = c]
  <2>1. Ever' = Ever
    <3>1. \A q \in Requests : Registered(q)' <=> Registered(q)
        BY <1>1 DEF Registered, IsCreate
    <3>2. ~Registered(r)
        BY <1>1, NoRowAssumption DEF Registered
    <3>3. \A q \in Requests : Registered(q) => code'[q] = code[q]
        BY <1>2, <3>2 DEF RegistryInv, TypeOK
    <3> QED
        BY <3>1, <3>3, EverStable
  <2>2. [q \in Requests |-> Role(q)]' = [q \in Requests |-> Role(q)] /\ Role(r) = "create"
      BY <1>1 DEF Role, IsCreate
  <2>3. Registry!Redraw(r, c)
      BY <1>1, <1>2, <2>1, <2>2 DEF Registry!Redraw, Role, Ever
  <2> QED
      BY <2>3 DEF Registry!Next
<1>3. CASE UNCHANGED code
    BY <1>1, <1>3, Unseen
<1> QED
    BY <1>2, <1>3 DEF RejectGenerated

LEMMA InsertSeen ==
    ASSUME RegistryInv, NEW r \in Requests, Insert(r)
    PROVE  [Registry!Next]_Registry!vars
<1>1. IsCreate(r) /\ url[r] = NoRow /\ UNCHANGED <<kind, code, credit>>
    BY DEF Insert, Create, At, CreateKinds, IsCreate, requestConst, repositoryVars, RegistryInv, SafetyInv, HandInv
<1>2. CASE ShortCodeExists(code[r])
    BY <1>1, <1>2, Unseen DEF Insert, repositoryVars
<1>3. CASE ~ShortCodeExists(code[r])
  <2>1. /\ db[code[r]] = NoRow /\ db' = [db EXCEPT ![code[r]] = r] /\ url' = [url EXCEPT ![r] = r]
        /\ code[r] \in Codes
      BY <1>3 DEF Insert, ShortCodeExists, Create, Hold, RegistryInv, TypeOK
  <2>2. \A q \in Requests : Registered(q)' <=> Registered(q) \/ q = r
      BY <1>1, <2>1 DEF Registered, IsCreate, RegistryInv, TypeOK
  <2>3. Ever' = [Ever EXCEPT ![code[r]] = @ \cup {r}]
    <3>1. \A c \in Codes : {row \in Requests : Registered(row)' /\ code'[row] = c}
              = IF c = code[r] THEN {row \in Requests : Registered(row) /\ code[row] = c} \cup {r}
                               ELSE {row \in Requests : Registered(row) /\ code[row] = c}
        BY <1>1, <2>2
    <3> DEFINE E == [c \in Codes |-> {row \in Requests : Registered(row) /\ code[row] = c}]
               F == [c \in Codes |-> {row \in Requests : Registered(row)' /\ code'[row] = c}]
    <3>2. F = [c \in Codes |-> IF c = code[r] THEN E[c] \cup {r} ELSE E[c]]
        BY <3>1
    <3> HIDE DEF E, F
    <3>3. Ever = E /\ Ever' = F
        BY DEF Ever, E, F
    <3>4. F = [E EXCEPT ![code[r]] = @ \cup {r}]
        BY <2>1, <3>2 DEF E
    <3> QED
        BY <3>3, <3>4
  <2>4. [q \in Requests |-> Role(q)]' = [q \in Requests |-> Role(q)] /\ Role(r) = "create"
      BY <1>1 DEF Role, IsCreate
  <2>5. Registry!Register(r)
      BY <1>1, <2>1, <2>3, <2>4 DEF Registry!Register, Registry!Answer, Role, Ever
  <2> QED
      BY <2>5 DEF Registry!Next
<1> QED
    BY <1>2, <1>3

(* A request that creates nothing changes neither roles nor history.       *)
LEMMA NoCreate ==
    ASSUME RegistryInv, NEW r \in Requests, ~IsCreate(r), UNCHANGED <<kind, code>>,
           \A q \in Requests \ {r} : url'[q] = url[q]
    PROVE  /\ [q \in Requests |-> Role(q)]' = [q \in Requests |-> Role(q)]
           /\ Role(r) = kind[r]
           /\ Ever' = Ever
<1>1. \A q \in Requests : Registered(q)' <=> Registered(q)
    BY DEF Registered, IsCreate
<1>2. Ever' = Ever
    BY <1>1, EverStable
<1> QED
    BY <1>2 DEF Role, IsCreate

LEMMA LookupSeen ==
    ASSUME RegistryInv, NEW r \in Requests,
           DetailsFetch(r) \/ RedirectFetch(r) \/ RedirectLookup(r)
    PROVE  [Registry!Next]_Registry!vars
<1>1. /\ kind[r] \in {"details", "redirect"} /\ ~IsCreate(r) /\ url[r] = NoRow
      /\ UNCHANGED <<kind, code, db, credit>> /\ code[r] \in Codes
    BY DEF DetailsFetch, RedirectFetch, RedirectLookup, At, IsCreate, requestConst, repositoryVars,
           RegistryInv, Hands, TypeOK
<1>2. CASE UNCHANGED url
    BY <1>1, <1>2, Unseen
<1>3. CASE url' = [url EXCEPT ![r] = db[code[r]]] /\ db[code[r]] # NoRow
  <2>1. /\ [q \in Requests |-> Role(q)]' = [q \in Requests |-> Role(q)]
        /\ Role(r) = kind[r] /\ Ever' = Ever
      BY <1>1, <1>3, NoCreate DEF RegistryInv, TypeOK
  <2>2. Registry!Find(r)
      BY <1>1, <1>3, <2>1 DEF Registry!Find, Registry!Answer, Role, Ever
  <2> QED
      BY <2>2 DEF Registry!Next
<1>4. CASE /\ kind[r] = "redirect" /\ url' = [url EXCEPT ![r] = cache[code[r]]]
           /\ cache[code[r]] # NoRow
  <2>1. /\ [q \in Requests |-> Role(q)]' = [q \in Requests |-> Role(q)]
        /\ Role(r) = kind[r] /\ Ever' = Ever
      BY <1>1, <1>4, NoCreate DEF RegistryInv, TypeOK
  <2>2. cache[code[r]] \in Ever[code[r]]
      BY <1>1, <1>4 DEF Ever, RegistryInv, SafetyInv, CachedInv, TypeOK, RowOrNone, Registered
  <2>3. Registry!Recall(r)
      BY <1>1, <1>4, <2>1, <2>2 DEF Registry!Recall, Registry!Answer, Role, Ever
  <2> QED
      BY <2>3 DEF Registry!Next
<1>5. CASE RedirectLookup(r)
  <2>1. kind[r] = "redirect"
      BY <1>5 DEF RedirectLookup, At
  <2>2. UNCHANGED url \/ (cache[code[r]] # NoRow /\ url' = [url EXCEPT ![r] = cache[code[r]]])
      BY <1>5 DEF RedirectLookup, CacheGet, Hold
  <2> QED
      BY <2>1, <2>2, <1>2, <1>4
<1>6. CASE DetailsFetch(r) \/ RedirectFetch(r)
  <2>1. UNCHANGED url \/ (db[code[r]] # NoRow /\ url' = [url EXCEPT ![r] = db[code[r]]])
      BY <1>6 DEF DetailsFetch, RedirectFetch, GetByShortCode, Hold
  <2> QED
      BY <2>1, <1>2, <1>3
<1> QED
    BY <1>5, <1>6

LEMMA CountSeen ==
    ASSUME RegistryInv, NEW r \in Requests, Count(r) PROVE Registry!Next
<1>1. /\ kind[r] = "redirect" /\ ~IsCreate(r) /\ url[r] # NoRow
      /\ UNCHANGED <<kind, code, db, url>> /\ credit' = [credit EXCEPT ![r] = db[code[r]]]
    BY DEF Count, IncrementClick, At, IsCreate, requestConst, RegistryInv, Hands
<1>2. /\ [q \in Requests |-> Role(q)]' = [q \in Requests |-> Role(q)]
      /\ Role(r) = kind[r] /\ Ever' = Ever
    BY <1>1, NoCreate
<1>3. Registry!Credit(r)
    BY <1>1, <1>2 DEF Registry!Credit, Role, Ever
<1> QED
    BY <1>3 DEF Registry!Next

LEMMA ReleaseSeen ==
    ASSUME RegistryInv, NEW r \in Requests, PurgeRow(r) \/ DeleteRow(r) PROVE Registry!Next
<1>1. /\ UNCHANGED <<kind, code, credit>> /\ db' = [db EXCEPT ![code[r]] = NoRow]
      /\ \/ kind[r] = "redirect" /\ url[r] # NoRow /\ UNCHANGED url
         \/ kind[r] = "delete" /\ url[r] = NoRow /\ url' = [url EXCEPT ![r] = db[code[r]]]
    BY DEF PurgeRow, DeleteRow, DeleteByShortCode, Hold, At, requestConst, RegistryInv, Hands
<1>2. /\ [q \in Requests |-> Role(q)]' = [q \in Requests |-> Role(q)]
      /\ Role(r) = kind[r] /\ Ever' = Ever
  <2>1. ~IsCreate(r) /\ \A q \in Requests \ {r} : url'[q] = url[q]
      BY <1>1 DEF IsCreate, RegistryInv, TypeOK
  <2> QED
      BY <1>1, <2>1, NoCreate
<1>3. Registry!Release(r)
    BY <1>1, <1>2 DEF Registry!Release, Registry!Answer, Role, Ever
<1> QED
    BY <1>3 DEF Registry!Next

-----------------------------------------------------------------------------
(* The refinement                                                          *)

LEMMA RegistryInit == Init => Registry!Init
<1> SUFFICES ASSUME Init PROVE Registry!Init
    OBVIOUS
<1>1. \A r \in Requests : Role(r) = "none" /\ ~Registered(r)
    BY NoRowAssumption DEF Init, Role, IsCreate, Registered
<1>2. [r \in Requests |-> Role(r)] = [r \in Requests |-> "none"] /\ Ever = [c \in Codes |-> {}]
    BY <1>1 DEF Ever
<1>3. code \in [Requests -> Codes]
    BY DEF Init
<1> QED
    BY <1>2, <1>3 DEF Init, Registry!Init, Role, Ever

LEMMA RegistryStep == RegistryInv /\ [Next]_vars => [Registry!Next]_Registry!vars
<1> SUFFICES ASSUME RegistryInv, [Next]_vars PROVE [Registry!Next]_Registry!vars
    OBVIOUS
<1>1. ASSUME NEW r \in Requests, CreateStep(r) PROVE [Registry!Next]_Registry!vars
  <2>1. CASE CheckCustom(r) \/ AcceptGenerated(r) \/ Refresh(r) \/ Prewarm(r)
      BY <2>1, Unseen DEF CheckCustom, AcceptGenerated, Refresh, Prewarm, requestConst, repositoryVars
  <2>2. CASE \E c \in Codes : RejectGenerated(r, c)
      BY <2>2, RedrawSeen
  <2>3. CASE Insert(r)
      BY <2>3, InsertSeen
  <2> QED
      BY <1>1, <2>1, <2>2, <2>3 DEF CreateStep
<1>2. ASSUME NEW r \in Requests, DetailsStep(r) PROVE [Registry!Next]_Registry!vars
  <2>1. CASE DetailsLookup(r) \/ DetailsEvict(r) \/ DetailsPopulate(r)
      BY <2>1, Unseen DEF DetailsLookup, DetailsEvict, DetailsPopulate, requestConst, repositoryVars
  <2> QED
      BY <1>2, <2>1, LookupSeen DEF DetailsStep
<1>3. ASSUME NEW r \in Requests, RedirectStep(r) PROVE [Registry!Next]_Registry!vars
  <2>1. CASE RedirectPopulate(r) \/ PurgeCache(r)
      BY <2>1, Unseen DEF RedirectPopulate, PurgeCache, requestConst, repositoryVars
  <2> QED
      BY <1>3, <2>1, LookupSeen, CountSeen, ReleaseSeen DEF RedirectStep
<1>4. ASSUME NEW r \in Requests, DeleteStep(r) PROVE [Registry!Next]_Registry!vars
  <2>1. CASE Invalidate(r)
      BY <2>1, Unseen DEF Invalidate, requestConst, repositoryVars
  <2> QED
      BY <1>4, <2>1, ReleaseSeen DEF DeleteStep
<1>5. CASE Environment
  <2>1. ASSUME NEW r \in Requests, NEW k \in Kinds, NEW c \in Codes, Start(r, k, c)
        PROVE  [Registry!Next]_Registry!vars
      BY <2>1, StartSeen
  <2>2. ASSUME UNCHANGED <<kind, code, url, db, credit>> PROVE [Registry!Next]_Registry!vars
      BY <2>2, Unseen
  <2> QED
      BY <1>5, <2>1, <2>2 DEF Environment, Expire, Abort, CacheTTL, requestConst, requestVars, repositoryVars
<1>6. CASE UNCHANGED vars
    BY <1>6, Unseen DEF vars, requestVars
<1> QED
    BY <1>1, <1>2, <1>3, <1>4, <1>5, <1>6 DEF Next, Step

(* The shortener is the registry it promises to be: however its handlers   *)
(* interleave and fail between their awaits, each request takes effect at  *)
(* one instant, and a redirect answers with a link its code once had.      *)
THEOREM HandlersImplementRegistry == Spec => ImplementsRegistry
  BY RegistryInit, RegistryStep, RegistryInvariant, PTL DEF Spec, ImplementsRegistry, Registry!Spec

-----------------------------------------------------------------------------
(* What is behind errors and stale copies (UrlOverlap)                     *)

(* A request that has not begun has met nobody, two that are in flight have*)
(* met.                                                                    *)
Meets ==
    /\ \A r \in Requests : pc[r] = "idle" => busy[r] = {}
    /\ \A p, q \in InFlight : p # q => Overlap(p, q)

(* Request r holds a row it has just committed or read.                    *)
Holding(r) ==
    \/ IsCreate(r) /\ pc[r] \in {"refresh", "prewarm"}
    \/ kind[r] \in {"details", "redirect"} /\ pc[r] = "populate"

(* A create that is about to lose the race for its code met the winner.    *)
Beaten(r) == IsCreate(r) /\ pc[r] = "insert" /\ db[code[r]] # NoRow => Overlap(db[code[r]], r)

(* A request whose row went away since met the one that took it away.      *)
Bereft(r) == Holding(r) /\ db[code[r]] # url[r] =>
    \E d \in Requests \ {r} : Remover(d, url[r]) /\ Overlap(d, r)

(* A cleanup that finds an entry after it emptied the cache was not heard, *)
(* or met the request that put the entry there.                            *)
Purged(r) == kind[r] = "redirect" /\ pc[r] = "purge_row" /\ cache[code[r]] # NoRow =>
    \/ r \in unheard
    \/ \E q \in Requests \ {r} : Overlap(q, r) /\ kind[q] # "delete" /\ url[q] = cache[code[r]]

(* How a handler of each kind can end.                                     *)
OutcomeFits(r) ==
    /\ kind[r] = "none" => pc[r] = "idle"
    /\ IsCreate(r) => outcome[r] \notin {"not_found", "expired"}
    /\ kind[r] \in {"details", "redirect"} =>
         outcome[r] \in {"none", "returned", "not_found", "expired", "aborted"}
    /\ kind[r] = "delete" => outcome[r] \in {"none", "returned", "not_found", "aborted"}

(* What is behind a failed commit or refresh.                              *)
Explained(r) == outcome[r] \in {"integrity", "refresh"} =>
    \E q \in Requests \ {r} :
        /\ Overlap(q, r) /\ code[q] = code[r]
        /\ (IsCreate(q) /\ Registered(q)) \/ (r \in removed /\ Remover(q, r))

Causes(r) == Beaten(r) /\ Bereft(r) /\ Purged(r) /\ OutcomeFits(r) /\ Explained(r)

ServiceInv == TypeOK /\ SafetyInv /\ GroundsInv /\ Hands
MeetInv == HistoryOK /\ Meets
OverlapInv == MeetInv /\ (\A r \in Requests : Causes(r)) /\ StaleCopyHasCause

OverlapStep == [Next /\ Record]_<<vars, history>>

(* A request that has a row in hand keeps it, its kind and its code.       *)
LEMMA HandKept ==
    ASSUME ServiceInv, [Next]_vars, NEW q \in Requests, url[q] # NoRow
    PROVE  kind'[q] = kind[q] /\ url'[q] = url[q] /\ code'[q] = code[q]
<1> USE DEF TypeOK, requestConst
<1>1. TypeOK /\ HandInv /\ Hands
  BY DEF ServiceInv, SafetyInv
<1>2. pc[q] \notin {"idle", "lookup", "fetch", "delete_row"} /\ (IsCreate(q) => pc[q] \notin {"check", "insert"})
  BY <1>1 DEF Hands, HandInv
<1>3. CASE Untouched(q)
  BY <1>3 DEF Untouched
<1>4. CASE CreateStep(q)
  BY <1>1, <1>2, <1>4 DEF CreateStep, CheckCustom, AcceptGenerated, RejectGenerated, Insert, Refresh, Prewarm, At,
                     CreateKinds, IsCreate
<1>5. CASE DetailsStep(q)
  BY <1>1, <1>2, <1>5 DEF DetailsStep, DetailsLookup, DetailsFetch, DetailsEvict, DetailsPopulate, At
<1>6. CASE RedirectStep(q)
  BY <1>1, <1>2, <1>6 DEF RedirectStep, RedirectLookup, RedirectFetch, RedirectPopulate, PurgeCache, PurgeRow, Count, At
<1>7. CASE DeleteStep(q)
  BY <1>1, <1>2, <1>7 DEF DeleteStep, DeleteRow, Invalidate, At
<1>8. CASE Abort(q)
  BY <1>1, <1>8 DEF Abort
<1>9. ASSUME NEW k \in Kinds, NEW c \in Codes PROVE ~Start(q, k, c)
  BY <1>2 DEF Start
<1> QED
  BY <1>1, <1>3, <1>4, <1>5, <1>6, <1>7, <1>8, <1>9, RequestEffect DEF Step

(* Who took a row away stays the one who did.                              *)
LEMMA RemoverStable ==
    ASSUME ServiceInv, [Next]_vars, NEW d \in Requests, NEW row, Registered(row), Remover(d, row)
    PROVE  Remover(d, row)' /\ code'[d] = code[d]
<1>1. TypeOK /\ HandInv /\ (\A x \in expired : Registered(x))
  BY DEF ServiceInv, SafetyInv, GroundsInv
<1>2. code'[row] = code[row] /\ row # NoRow
  BY <1>1, RegisteredStable, NoRowAssumption DEF Registered
<1>3. url[d] # NoRow /\ (url[d] \in expired => url[d] \in expired')
  BY <1>1, <1>2, ExpiredStable, NoRowAssumption DEF Remover, Registered
<1>4. kind'[d] = kind[d] /\ url'[d] = url[d] /\ code'[d] = code[d]
  BY <1>3, HandKept
<1> QED
  BY <1>2, <1>3, <1>4 DEF Remover

(* Requests that have met have met for ever.                               *)
LEMMA OverlapStable ==
    ASSUME ServiceInv, MeetInv, OverlapStep, NEW p \in Requests, NEW q \in Requests, Overlap(p, q)
    PROVE  Overlap(p, q)'
<1>1. \A r \in Requests : busy[r] \subseteq busy'[r]
  <2>1. CASE Record
    BY <2>1 DEF Record, MeetInv, Meets
  <2>2. CASE UNCHANGED <<vars, history>>
    BY <2>2 DEF history
  <2> QED
    BY <2>1, <2>2 DEF OverlapStep
<1> QED
  BY <1>1 DEF Overlap

(* The steps of the handlers start from their own steps.                   *)
LEMMA StepsFrom ==
    ASSUME TypeOK, NEW q \in Requests, Step(q) \/ Abort(q)
    PROVE  pc[q] \notin {"idle", "done"} /\ pc' = [pc EXCEPT ![q] = pc'[q]] /\ kind' = kind
<1>1. CASE CreateStep(q)
  BY <1>1 DEF CreateStep, CheckCustom, AcceptGenerated, RejectGenerated, Insert, Refresh, Prewarm, At, GoTo, Finish,
              requestConst, TypeOK
<1>2. CASE DetailsStep(q)
  BY <1>2 DEF DetailsStep, DetailsLookup, DetailsFetch, DetailsEvict, DetailsPopulate, At, GoTo, Finish,
              requestConst, TypeOK
<1>3. CASE RedirectStep(q)
  BY <1>3 DEF RedirectStep, RedirectLookup, RedirectFetch, RedirectPopulate, PurgeCache, PurgeRow, Count, At, GoTo,
              Finish, requestConst, TypeOK
<1>4. CASE DeleteStep(q) \/ Abort(q)
  BY <1>4 DEF DeleteStep, DeleteRow, Invalidate, Abort, At, GoTo, Finish, InFlight, requestConst, TypeOK
<1> QED
  BY <1>1, <1>2, <1>3, <1>4 DEF Step

(* A request that comes in begins with a look at its code, or a delete.    *)
LEMMA StartsAt ==
    ASSUME TypeOK, NEW q \in Requests, NEW k \in Kinds, NEW c \in Codes, Start(q, k, c)
    PROVE  /\ pc[q] = "idle" /\ pc'[q] \in {"check", "lookup", "delete_row"}
           /\ pc' = [pc EXCEPT ![q] = pc'[q]] /\ kind'[q] \in AllKinds /\ UNCHANGED outcome
<1>1. k \in AllKinds /\ FirstStep[k] \in {"check", "lookup", "delete_row"}
  BY DEF FirstStep, AllKinds
<1> QED
  BY <1>1 DEF Start, GoTo, TypeOK

(* Two requests in flight have met, also after the step.                   *)
LEMMA MeetPreserved ==
    ASSUME ServiceInv, MeetInv, OverlapStep
    PROVE  MeetInv'
<1> USE DEF TypeOK
<1>1. TypeOK /\ HistoryOK /\ Meets /\ [Next]_vars
  BY DEF ServiceInv, MeetInv, OverlapStep
<1>2. CASE UNCHANGED <<vars, history>>
  BY <1>1, <1>2 DEF MeetInv, HistoryOK, Meets, InFlight, Overlap, vars, history, requestVars
<1>3. CASE Record
  <2>1. HistoryOK'
    BY <1>1, <1>3 DEF HistoryOK, Record, InFlight
  <2>2. ASSUME NEW r \in Requests, pc'[r] = "idle" PROVE pc[r] = "idle" /\ busy'[r] = {}
    <3>1. CASE Step(r) \/ Abort(r)
      <4>1. pc'[r] # "idle"
        BY <1>1, <3>1 DEF Step, CreateStep, CheckCustom, AcceptGenerated, RejectGenerated, Insert, Refresh, Prewarm,
                    DetailsStep, DetailsLookup, DetailsFetch, DetailsEvict, DetailsPopulate,
                    RedirectStep, RedirectLookup, RedirectFetch, RedirectPopulate, PurgeCache, PurgeRow, Count,
                    DeleteStep, DeleteRow, Invalidate, Abort, GoTo, Finish
      <4> QED
        BY <2>2, <4>1
    <3>2. CASE Untouched(r)
      BY <1>1, <1>3, <2>2, <3>2 DEF Untouched, Record, Meets
    <3>3. ASSUME NEW k \in Kinds, NEW c \in Codes, Start(r, k, c) PROVE FALSE
      BY <1>1, <2>2, <3>3 DEF Start, GoTo, FirstStep, AllKinds
    <3> QED
      BY <1>1, <3>1, <3>2, <3>3, RequestEffect
  <2>3. ASSUME NEW r \in Requests, pc[r] = "idle", pc'[r] # "idle", NEW q \in Requests, q # r
        PROVE  pc'[q] = pc[q]
    <3>1. ~Untouched(r) /\ ~Step(r) /\ ~Abort(r)
      BY <1>1, <2>3, StepsFrom DEF Untouched
    <3>2. PICK k \in Kinds, c \in Codes : Start(r, k, c)
      BY <1>1, <3>1, RequestEffect
    <3> QED
      BY <2>3, <3>2 DEF Start, GoTo
  <2>4. ASSUME NEW r \in Requests, pc'[r] \notin {"idle", "done"} PROVE pc[r] # "done"
    <3>1. pc[r] = "done" => ~Step(r) /\ ~Abort(r)
      BY <1>1, StepsFrom
    <3>2. \A k \in Kinds, c \in Codes : pc[r] = "done" => ~Start(r, k, c)
      BY DEF Start
    <3> QED
      BY <1>1, <2>4, <3>1, <3>2, RequestEffect DEF Untouched
  <2>5. ASSUME NEW p \in Requests, NEW q \in Requests, p # q,
               pc'[p] \notin {"idle", "done"}, pc'[q] \notin {"idle", "done"}
        PROVE  Overlap(p, q)'
    <3>1. CASE pc[p] # "idle" /\ pc[q] # "idle"
      <4>1. p \in InFlight /\ q \in InFlight
        BY <2>4, <2>5, <3>1 DEF InFlight
      <4> QED
        BY <1>1, <2>5, <4>1, OverlapStable DEF Meets
    <3>2. CASE pc[p] = "idle"
      <4>1. q \in InFlight
        BY <2>3, <2>5, <3>2 DEF InFlight
      <4> QED
        BY <1>3, <2>5, <3>2, <4>1 DEF Record, Overlap
    <3>3. CASE pc[q] = "idle"
      <4>1. p \in InFlight
        BY <2>3, <2>5, <3>3 DEF InFlight
      <4> QED
        BY <1>3, <2>5, <3>3, <4>1 DEF Record, Overlap
    <3> QED
      BY <3>1, <3>2, <3>3
  <2> QED
    BY <2>1, <2>2, <2>5 DEF MeetInv, Meets, InFlight
<1> QED
  BY <1>2, <1>3 DEF OverlapStep

(* A request that deletes the row x by its code is its remover.            *)
LEMMA RemovalFacts ==
    ASSUME ServiceInv, [Next]_vars, NEW r \in Requests, PurgeRow(r) \/ DeleteRow(r),
           NEW x, x = db[code[r]], x # NoRow
    PROVE  /\ Remover(r, x)' /\ code'[r] = code[r] /\ r \in InFlight
           /\ pc[r] \in {"purge_row", "delete_row"}
<1> USE DEF TypeOK, requestConst
<1>1. TypeOK /\ HandInv /\ StoredInv /\ GroundsInv
  BY DEF ServiceInv, SafetyInv
<1>2. r \in InFlight /\ pc[r] \in {"purge_row", "delete_row"} /\ UNCHANGED <<code, kind, expired>>
  BY DEF PurgeRow, DeleteRow, At, InFlight
<1>3. code[x] = code[r]
  BY <1>1 DEF StoredInv
<1>4. CASE DeleteRow(r)
  <2>1. kind'[r] = "delete" /\ url'[r] = x
    BY <1>1, <1>4 DEF DeleteRow, At, Hold
  <2> QED
    BY <1>2, <1>3, <2>1 DEF Remover
<1>5. CASE PurgeRow(r)
  <2>1. kind'[r] = "redirect" /\ url'[r] \in expired'
    BY <1>1, <1>5 DEF PurgeRow, At, GroundsInv, Grounds
  <2> QED
    BY <1>2, <1>3, <2>1 DEF Remover
<1> QED
  BY <1>4, <1>5

(* A create that reaches its commit late has met the one that came first.  *)
LEMMA BeatenPreserved ==
    ASSUME ServiceInv, MeetInv, OverlapStep, NEW r \in Requests, Beaten(r)
    PROVE  Beaten(r)'
<1> SUFFICES ASSUME IsCreate(r)', pc'[r] = "insert", db'[code'[r]] # NoRow
             PROVE  Overlap(db[code[r]], r)'
  BY DEF Beaten
<1> USE DEF TypeOK, requestConst
<1>1. TypeOK /\ HandInv /\ StoredInv /\ RemovedInv /\ [Next]_vars /\ MeetInv'
  BY MeetPreserved DEF ServiceInv, SafetyInv, OverlapStep
<1>2. CASE Untouched(r)
  <2>1. IsCreate(r) /\ pc[r] = "insert" /\ code'[r] = code[r]
    BY <1>2 DEF Untouched, IsCreate
  <2>2. ASSUME db'[code[r]] = db[code[r]] PROVE Overlap(db[code[r]], r)'
    <3>1. db[code[r]] \in Requests /\ Overlap(db[code[r]], r)
      BY <1>1, <2>1, <2>2 DEF Beaten, StoredInv, Registered
    <3>2. ASSUME NEW x \in Requests, x = db[code[r]], Overlap(x, r) PROVE Overlap(x, r)'
      BY <3>2, OverlapStable
    <3> QED
      BY <2>1, <2>2, <3>1, <3>2 DEF Overlap
  <2>3. ASSUME NEW q \in Requests, Insert(q), Create(code[q], q), code[q] = code[r]
        PROVE  Overlap(db[code[r]], r)'
    <3>1. db'[code[r]] = q /\ db[code[q]] = NoRow
      BY <1>1, <2>3 DEF Create
    <3>2. pc'[q] = "refresh"
      BY <1>1, <2>3, <3>1 DEF Insert, ShortCodeExists, GoTo
    <3>3. Overlap(q, r)'
      BY <1>1, <3>2 DEF MeetInv, Meets, InFlight
    <3> QED
      BY <2>1, <3>1, <3>3 DEF Overlap
  <2>4. ASSUME NEW q \in Requests, Create(code[q], q), code[q] # code[r] PROVE db'[code[r]] = db[code[r]]
    BY <1>1, <2>4 DEF Create
  <2>5. ASSUME NEW q \in Requests, DeleteByShortCode(code[q]) PROVE db'[code[r]] = db[code[r]]
    BY <1>1, <2>1, <2>5 DEF DeleteByShortCode
  <2> QED
    BY <1>1, <2>2, <2>3, <2>4, <2>5, DatabaseEffect
<1>3. ASSUME Step(r) \/ Abort(r) PROVE FALSE
  <2>1. CASE CreateStep(r)
    <3>1. CASE CheckCustom(r) \/ AcceptGenerated(r)
      BY <1>1, <3>1 DEF CheckCustom, AcceptGenerated, ShortCodeExists, GoTo, Finish, repositoryVars
    <3>2. CASE (\E c \in Codes : RejectGenerated(r, c)) \/ Insert(r) \/ Refresh(r) \/ Prewarm(r)
      BY <1>1, <3>2 DEF RejectGenerated, Insert, Refresh, Prewarm, GoTo, Finish
    <3> QED
      BY <2>1, <3>1, <3>2 DEF CreateStep
  <2>2. CASE DetailsStep(r) \/ RedirectStep(r) \/ DeleteStep(r) \/ Abort(r)
    BY <1>1, <2>2, StepsFrom DEF IsCreate, DetailsStep, DetailsLookup, DetailsFetch, DetailsEvict, DetailsPopulate,
              RedirectStep, RedirectLookup, RedirectFetch, RedirectPopulate, PurgeCache, PurgeRow, Count,
              DeleteStep, DeleteRow, Invalidate, Abort, At, Finish
  <2> QED
    BY <1>3, <2>1, <2>2 DEF Step
<1>4. ASSUME NEW k \in Kinds, NEW c \in Codes, Start(r, k, c) PROVE FALSE
  BY <1>1, <1>4, StartsAt
<1> QED
  BY <1>1, <1>2, <1>3, <1>4, RequestEffect

(* The row a request holds is committed under the code it works on.        *)
LEMMA HoldingFacts ==
    ASSUME ServiceInv, NEW q \in Requests, Holding(q)
    PROVE  /\ Registered(url[q]) /\ url[q] # NoRow /\ url[q] \in Requests /\ code[url[q]] = code[q]
           /\ kind[q] # "delete" /\ q \in InFlight
<1>1. HandInv /\ FoundInv /\ FreshInv
  BY DEF ServiceInv, SafetyInv
<1>2. CASE IsCreate(q) /\ pc[q] \in {"refresh", "prewarm"}
  BY <1>1, <1>2, NoRowAssumption DEF HandInv, Registered, IsCreate, InFlight
<1>3. CASE kind[q] \in {"details", "redirect"} /\ pc[q] = "populate"
  <2>1. url[q] # NoRow
    BY <1>1, <1>3 DEF FreshInv
  <2> QED
    BY <1>1, <1>3, <2>1 DEF FoundInv, Registered, InFlight
<1> QED
  BY <1>2, <1>3 DEF Holding

(* A request whose row went away has met the one that took it away.        *)
LEMMA BereftPreserved ==
    ASSUME ServiceInv, MeetInv, OverlapStep, NEW r \in Requests, Bereft(r)
    PROVE  Bereft(r)'
<1> SUFFICES ASSUME Holding(r)', db'[code'[r]] # url'[r]
             PROVE  \E d \in Requests \ {r} : Remover(d, url[r])' /\ Overlap(d, r)'
  BY DEF Bereft
<1> USE DEF TypeOK, requestConst
<1>1. TypeOK /\ HandInv /\ StoredInv /\ RemovedInv /\ [Next]_vars
  BY DEF ServiceInv, SafetyInv, OverlapStep
<1>2. CASE Untouched(r)
  <2> DEFINE x == url[r]
  <2>1. Holding(r) /\ code'[r] = code[r] /\ url'[r] = x /\ pc'[r] = pc[r]
    BY <1>2 DEF Untouched, Holding, IsCreate
  <2>2. Registered(x) /\ x # NoRow /\ r \in InFlight
    BY <2>1, HoldingFacts
  <2>3. SUFFICES ASSUME NEW y, y = x
                 PROVE  \E d \in Requests \ {r} : Remover(d, y)' /\ Overlap(d, r)'
    BY <2>1 DEF Remover
  <2>4. CASE db[code[r]] # x
    <3>1. PICK d \in Requests \ {r} : Remover(d, y) /\ Overlap(d, r)
      BY <2>1, <2>3, <2>4 DEF Bereft
    <3>2. Remover(d, y)'
      BY <1>1, <2>2, <2>3, <3>1, RemoverStable
    <3>3. Overlap(d, r)'
      BY <3>1, OverlapStable
    <3> QED
      BY <3>2, <3>3
  <2>5. CASE db[code[r]] = x
    <3>1. db'[code[r]] # db[code[r]]
      BY <2>1, <2>5
    <3>2. ASSUME NEW q \in Requests, Create(code[q], q) PROVE FALSE
      BY <1>1, <2>2, <2>5, <3>1, <3>2 DEF Create
    <3>3. PICK q \in Requests : (PurgeRow(q) \/ DeleteRow(q)) /\ DeleteByShortCode(code[q])
      BY <3>1, <3>2, DatabaseEffect, <1>1
    <3>4. code[q] = code[r]
      BY <1>1, <3>1, <3>3 DEF DeleteByShortCode
    <3>5. Remover(q, y)' /\ q \in InFlight /\ pc[q] \in {"purge_row", "delete_row"}
      BY <1>1, <2>2, <2>3, <2>5, <3>3, <3>4, RemovalFacts
    <3>6. q # r
      BY <2>1, <3>5 DEF Holding
    <3>7. Overlap(q, r)'
      BY <2>2, <3>5, <3>6, OverlapStable DEF MeetInv, Meets
    <3> QED
      BY <3>5, <3>6, <3>7
  <2> QED
    BY <2>4, <2>5
<1>3. ASSUME Step(r) \/ Abort(r) PROVE FALSE
  <2>1. kind' = kind
    BY <1>1, <1>3, StepsFrom
  <2>2. CASE CreateStep(r)
    <3>1. CASE CheckCustom(r) \/ AcceptGenerated(r) \/ (\E c \in Codes : RejectGenerated(r, c)) \/ Prewarm(r)
      BY <1>1, <3>1 DEF CheckCustom, AcceptGenerated, RejectGenerated, Prewarm, GoTo, Finish, Holding
    <3>2. CASE Insert(r)
      BY <1>1, <3>2 DEF Insert, Create, Hold, Finish, Holding
    <3>3. CASE Refresh(r)
      <4>1. url[r] = r /\ pc'[r] \in {"prewarm", "done"} /\ (pc'[r] = "prewarm" => db[code[r]] = r)
        BY <1>1, <3>3 DEF Refresh, At, HandInv, IsCreate, CreateKinds, GetByShortCode, GoTo, Finish
      <4> QED
        BY <3>3, <4>1 DEF Refresh, Holding, repositoryVars
    <3> QED
      BY <2>2, <3>1, <3>2, <3>3 DEF CreateStep
  <2>3. CASE DetailsStep(r)
    <3>1. CASE DetailsFetch(r)
      BY <1>1, <3>1 DEF DetailsFetch, At, GetByShortCode, GoTo, Finish, Hold, Holding, IsCreate, repositoryVars
    <3>2. CASE DetailsLookup(r) \/ DetailsEvict(r) \/ DetailsPopulate(r)
      BY <1>1, <3>2 DEF DetailsLookup, DetailsEvict, DetailsPopulate, At, GoTo, Finish, Holding, IsCreate
    <3> QED
      BY <2>3, <3>1, <3>2 DEF DetailsStep
  <2>4. CASE RedirectStep(r)
    <3>1. CASE RedirectFetch(r)
      BY <1>1, <3>1 DEF RedirectFetch, At, GetByShortCode, GoTo, Finish, Hold, Holding, IsCreate, repositoryVars
    <3>2. CASE RedirectLookup(r) \/ RedirectPopulate(r) \/ PurgeCache(r) \/ PurgeRow(r) \/ Count(r)
      BY <1>1, <3>2 DEF RedirectLookup, RedirectPopulate, PurgeCache, PurgeRow, Count, At, GoTo, Finish, Holding, IsCreate
    <3> QED
      BY <2>4, <3>1, <3>2 DEF RedirectStep
  <2>5. CASE DeleteStep(r) \/ Abort(r)
    BY <1>1, <2>5 DEF DeleteStep, DeleteRow, Invalidate, Abort, At, GoTo, Finish, Holding
  <2> QED
    BY <1>3, <2>2, <2>3, <2>4, <2>5 DEF Step
<1>4. ASSUME NEW k \in Kinds, NEW c \in Codes, Start(r, k, c) PROVE FALSE
  BY <1>1, <1>4, StartsAt DEF Holding
<1> QED
  BY <1>1, <1>2, <1>3, <1>4, RequestEffect

(* A handler that fills the cache holds a row and leaves the database be.  *)
LEMMA FillsFacts ==
    ASSUME ServiceInv, NEW r \in Requests, Fills(r)
    PROVE  /\ Holding(r) /\ UNCHANGED <<db, removed, code>>
           /\ pc[r] \in {"prewarm", "populate"}
  BY DEF Fills, Prewarm, DetailsPopulate, RedirectPopulate, At, CreateKinds, IsCreate, Holding,
         repositoryVars, requestConst

(* A request that met r with the row x in hand keeps it in hand.           *)
LEMMA HolderStable ==
    ASSUME ServiceInv, MeetInv, OverlapStep, NEW r \in Requests, NEW x, x # NoRow,
           \E q \in Requests \ {r} : Overlap(q, r) /\ kind[q] # "delete" /\ url[q] = x
    PROVE  \E q \in Requests \ {r} : Overlap(q, r)' /\ kind'[q] # "delete" /\ url'[q] = x
<1>1. PICK q \in Requests \ {r} : Overlap(q, r) /\ kind[q] # "delete" /\ url[q] = x
  OBVIOUS
<1>2. Overlap(q, r)'
  BY <1>1, OverlapStable
<1>3. kind'[q] = kind[q] /\ url'[q] = url[q]
  BY <1>1, HandKept DEF OverlapStep
<1> QED
  BY <1>1, <1>2, <1>3

(* A call to Redis that was not heard stays on record.                     *)
LEMMA UnheardStable ==
    ASSUME OverlapStep
    PROVE  unheard \subseteq unheard'
  BY DEF OverlapStep, Record, history

(* A cleanup that emptied the cache and finds an entry has a reason.       *)
LEMMA PurgedPreserved ==
    ASSUME ServiceInv, MeetInv, OverlapStep, NEW r \in Requests, Purged(r)
    PROVE  Purged(r)'
<1> SUFFICES ASSUME kind'[r] = "redirect", pc'[r] = "purge_row", NEW x, x = cache'[code'[r]], x # NoRow
             PROVE  \/ r \in unheard'
                    \/ \E q \in Requests \ {r} : Overlap(q, r)' /\ kind'[q] # "delete" /\ url'[q] = x
  BY DEF Purged
<1> USE DEF TypeOK, requestConst
<1>1. TypeOK /\ [Next]_vars
  BY DEF ServiceInv, OverlapStep
<1>2. CASE Untouched(r)
  <2>1. kind[r] = "redirect" /\ pc[r] = "purge_row" /\ code'[r] = code[r] /\ code[r] \in Codes
    BY <1>1, <1>2 DEF Untouched
  <2>2. CASE x = cache[code[r]]
    BY <2>1, <2>2, UnheardStable, HolderStable DEF Purged
  <2>3. ASSUME NEW q \in Requests, Fills(q), code[q] = code[r], x = url[q]
        PROVE  \E p \in Requests \ {r} : Overlap(p, r)' /\ kind'[p] # "delete" /\ url'[p] = x
    <3>1. pc[q] \in {"prewarm", "populate"} /\ kind[q] # "delete" /\ q \in InFlight /\ r \in InFlight
      BY <2>1, <2>3, FillsFacts, HoldingFacts DEF InFlight
    <3>2. q # r /\ Overlap(q, r)
      BY <2>1, <3>1 DEF MeetInv, Meets
    <3> QED
      BY <2>3, <3>1, <3>2, HolderStable
  <2> QED
    BY <1>1, <2>1, <2>2, <2>3, CacheEffect
<1>3. CASE Step(r) \/ Abort(r)
  <2>1. PurgeCache(r)
    BY <1>1, <1>3 DEF Step, CreateStep, CheckCustom, AcceptGenerated, RejectGenerated, Insert, Refresh, Prewarm,
                DetailsStep, DetailsLookup, DetailsFetch, DetailsEvict, DetailsPopulate,
                RedirectStep, RedirectLookup, RedirectFetch, RedirectPopulate, PurgeRow, Count,
                DeleteStep, DeleteRow, Invalidate, Abort, GoTo, Finish
  <2>2. pc[r] = "purge_cache" /\ code'[r] = code[r]
    BY <2>1 DEF PurgeCache, At
  <2>3. Record
    BY <2>2 DEF OverlapStep, vars, requestVars
  <2> QED
    BY <2>2, <2>3 DEF Record, Drops
<1>4. ASSUME NEW k \in Kinds, NEW c \in Codes, Start(r, k, c) PROVE FALSE
  BY <1>1, <1>4, StartsAt
<1> QED
  BY <1>1, <1>2, <1>3, <1>4, RequestEffect

(* A stale copy has a cause after every step.                              *)
LEMMA StaleCopyPreserved ==
    ASSUME ServiceInv, MeetInv, OverlapStep, StaleCopyHasCause, \A r \in Requests : Bereft(r) /\ Purged(r)
    PROVE  StaleCopyHasCause'
<1> DEFINE Cause(d, x) ==
             /\ Remover(d, x)
             /\ \/ pc[d] = "invalidate" \/ outcome[d] = "aborted" \/ d \in unheard
                \/ \E q \in Requests \ {d} : Overlap(q, d) /\ kind[q] # "delete" /\ url[q] = x
<1> SUFFICES ASSUME NEW c \in Codes, NEW x, x = cache'[c], x # NoRow, x # db'[c]
             PROVE  \E d \in Requests : Cause(d, x)'
  BY DEF StaleCopyHasCause
<1> USE DEF TypeOK, requestConst
<1>1. /\ TypeOK /\ HandInv /\ StoredInv /\ CachedInv /\ [Next]_vars
      /\ \A d \in Requests : Bereft(d) /\ Purged(d)
  BY DEF ServiceInv, SafetyInv, OverlapStep
<1>2. ASSUME x = cache[c], x # db[c] PROVE \E d \in Requests : Cause(d, x)'
  <2>1. Registered(x) /\ code[x] = c
    BY <1>1, <1>2 DEF CachedInv
  <2>2. PICK d \in Requests : Cause(d, x)
    BY <1>2 DEF StaleCopyHasCause
  <2>3. Remover(d, x)' /\ code[d] = c
    BY <1>1, <2>1, <2>2, RemoverStable DEF Remover
  <2>4. CASE pc[d] = "invalidate"
    <3>1. CASE Untouched(d)
      BY <2>3, <2>4, <3>1 DEF Untouched
    <3>2. CASE Step(d)
      <4>1. pc'[d] # pc[d]
        BY <1>1, <2>4, <3>2
           DEF Step, CreateStep, CheckCustom, AcceptGenerated, RejectGenerated, Insert, Refresh, Prewarm,
               DetailsStep, DetailsLookup, DetailsFetch, DetailsEvict, DetailsPopulate,
               RedirectStep, RedirectLookup, RedirectFetch, RedirectPopulate, PurgeCache, PurgeRow, Count,
               DeleteStep, DeleteRow, Invalidate, At, GoTo, Finish
      <4>2. Record
        BY <4>1 DEF OverlapStep, vars, requestVars
      <4>3. d \in unheard'
        BY <2>3, <2>4, <4>1, <4>2 DEF Record, Drops
      <4> QED
        BY <2>3, <4>3
    <3>3. CASE Abort(d)
      BY <1>1, <2>3, <3>3 DEF Abort, Finish
    <3>4. ASSUME NEW k \in Kinds, NEW e \in Codes, Start(d, k, e) PROVE FALSE
      BY <1>1, <2>4, <3>4, StartsAt
    <3> QED
      BY <1>1, <3>1, <3>2, <3>3, <3>4, RequestEffect
  <2>5. CASE outcome[d] = "aborted"
    <3>1. pc[d] = "done"
      BY <1>1, <2>5 DEF HandInv
    <3>2. Untouched(d)
      BY <1>1, <3>1, RequestEffect, StepsFrom, StartsAt
    <3> QED
      BY <2>3, <2>5, <3>2 DEF Untouched
  <2>6. CASE d \in unheard
    BY <2>3, <2>6, UnheardStable
  <2>7. CASE \E q \in Requests \ {d} : Overlap(q, d) /\ kind[q] # "delete" /\ url[q] = x
    BY <2>3, <2>7, HolderStable
  <2> QED
    BY <2>2, <2>4, <2>5, <2>6, <2>7
<1>3. ASSUME x = cache[c], x = db[c] PROVE \E d \in Requests : Cause(d, x)'
  <2>1. ASSUME NEW q \in Requests, Create(code[q], q) PROVE FALSE
    BY <1>1, <1>3, <2>1 DEF Create
  <2>2. PICK r \in Requests : (PurgeRow(r) \/ DeleteRow(r)) /\ DeleteByShortCode(code[r])
    BY <1>1, <1>3, <2>1, DatabaseEffect
  <2>3. code[r] = c
    BY <1>1, <1>3, <2>2 DEF DeleteByShortCode
  <2>4. Remover(r, x)'
    BY <1>1, <1>3, <2>2, <2>3, RemovalFacts
  <2>5. CASE DeleteRow(r)
    <3>1. pc'[r] = "invalidate"
      BY <1>1, <1>3, <2>3, <2>5 DEF DeleteRow, ShortCodeExists, GoTo
    <3> QED
      BY <2>4, <3>1
  <2>6. CASE PurgeRow(r)
    <3>1. kind[r] = "redirect" /\ pc[r] = "purge_row"
      BY <2>6 DEF PurgeRow, At
    <3>2. CASE r \in unheard
      BY <2>4, <3>2, UnheardStable
    <3>3. CASE \E q \in Requests \ {r} : Overlap(q, r) /\ kind[q] # "delete" /\ url[q] = x
      BY <2>4, <3>3, HolderStable
    <3> QED
      BY <1>1, <1>3, <2>3, <3>1, <3>2, <3>3 DEF Purged
  <2> QED
    BY <2>2, <2>5, <2>6
<1>4. ASSUME NEW r \in Requests, Fills(r), code[r] = c, x = url[r] PROVE \E d \in Requests : Cause(d, x)'
  <2>1. Holding(r) /\ db[c] # x /\ kind[r] # "delete" /\ Registered(x)
    BY <1>4, FillsFacts, HoldingFacts
  <2>2. PICK d \in Requests \ {r} : Remover(d, x) /\ Overlap(d, r)
    BY <1>1, <1>4, <2>1 DEF Bereft
  <2>3. Remover(d, x)'
    BY <1>1, <2>1, <2>2, RemoverStable
  <2>4. \E q \in Requests \ {d} : Overlap(q, d)' /\ kind'[q] # "delete" /\ url'[q] = x
    <3>1. Overlap(r, d) /\ r # d
      BY <2>2 DEF Overlap
    <3> QED
      BY <1>4, <2>1, <3>1, HolderStable
  <2> QED
    BY <2>3, <2>4
<1> QED
  BY <1>1, <1>2, <1>3, <1>4, CacheEffect

(* Every handler ends in one of its own ways.                              *)
LEMMA OutcomePreserved ==
    ASSUME ServiceInv, [Next]_vars, NEW r \in Requests, OutcomeFits(r)
    PROVE  OutcomeFits(r)'
<1> USE DEF TypeOK, requestConst, OutcomeFits, IsCreate
<1>1. TypeOK /\ HandInv
  BY DEF ServiceInv, SafetyInv
<1>2. CASE Untouched(r)
  BY <1>2 DEF Untouched
<1>3. ASSUME Step(r) \/ Abort(r) PROVE kind'[r] = kind[r] /\ kind[r] # "none" /\ outcome[r] = "none"
  BY <1>1, <1>3, StepsFrom DEF HandInv
<1>4. CASE CreateStep(r)
  <2>1. IsCreate(r) /\ outcome'[r] \in {"none", "returned", "conflict", "integrity", "refresh", "exhausted"}
    BY <1>1, <1>3, <1>4 DEF CreateStep, CheckCustom, AcceptGenerated, RejectGenerated, Insert, Refresh, Prewarm, At,
                CreateKinds, GoTo, Finish, Step
  <2> QED
    BY <1>3, <1>4, <2>1 DEF Step
<1>5. CASE DetailsStep(r)
  <2>1. kind[r] = "details" /\ outcome'[r] \in {"none", "returned", "not_found", "expired"}
    BY <1>1, <1>3, <1>5 DEF DetailsStep, DetailsLookup, DetailsFetch, DetailsEvict, DetailsPopulate, At, GoTo, Finish,
                Step
  <2> QED
    BY <1>3, <1>5, <2>1 DEF Step
<1>6. CASE RedirectStep(r)
  <2>1. kind[r] = "redirect" /\ outcome'[r] \in {"none", "returned", "not_found", "expired"}
    BY <1>1, <1>3, <1>6 DEF RedirectStep, RedirectLookup, RedirectFetch, RedirectPopulate, PurgeCache, PurgeRow, Count,
                At, GoTo, Finish, Step
  <2> QED
    BY <1>3, <1>6, <2>1 DEF Step
<1>7. CASE DeleteStep(r)
  <2>1. kind[r] = "delete" /\ outcome'[r] \in {"none", "returned", "not_found"}
    BY <1>1, <1>3, <1>7 DEF DeleteStep, DeleteRow, Invalidate, At, GoTo, Finish, Step
  <2> QED
    BY <1>3, <1>7, <2>1 DEF Step
<1>8. CASE Abort(r)
  BY <1>1, <1>3, <1>8 DEF Abort, Finish
<1>9. ASSUME NEW k \in Kinds, NEW c \in Codes, Start(r, k, c) PROVE OutcomeFits(r)'
  <2>1. kind'[r] \in AllKinds /\ outcome'[r] = "none"
    BY <1>1, <1>9, StartsAt DEF HandInv
  <2> QED
    BY <2>1 DEF AllKinds
<1> QED
  BY <1>1, <1>2, <1>4, <1>5, <1>6, <1>7, <1>8, <1>9, RequestEffect DEF Step

(* A commit or a refresh that failed has met the request that made it fail.*)
LEMMA ExplainedPreserved ==
    ASSUME ServiceInv, MeetInv, OverlapStep, NEW r \in Requests, Beaten(r), Bereft(r), Explained(r)
    PROVE  Explained(r)'
<1> DEFINE Reason(q) ==
             /\ Overlap(q, r) /\ code[q] = code[r]
             /\ (IsCreate(q) /\ Registered(q)) \/ (r \in removed /\ Remover(q, r))
<1> SUFFICES ASSUME outcome'[r] \in {"integrity", "refresh"}
             PROVE  \E q \in Requests \ {r} : Reason(q)'
  BY DEF Explained
<1> USE DEF TypeOK, requestConst
<1>1. /\ TypeOK /\ HandInv /\ StoredInv /\ RemovedInv /\ KeptInv /\ [Next]_vars
  BY DEF ServiceInv, SafetyInv, OverlapStep
<1>2. removed \subseteq removed'
  BY <1>1, DatabaseEffect DEF DeleteByShortCode, Create
<1>3. ASSUME code'[r] = code[r], NEW q \in Requests \ {r}, Reason(q) PROVE Reason(q)'
  <2>1. Overlap(q, r)'
    BY <1>3, OverlapStable
  <2>2. CASE IsCreate(q) /\ Registered(q)
    <3>1. Registered(q)' /\ code'[q] = code[q]
      BY <1>1, <2>2, RegisteredStable
    <3> QED
      BY <1>3, <2>1, <3>1 DEF Registered
  <2>3. CASE r \in removed /\ Remover(q, r)
    <3>1. Remover(q, r)' /\ code'[q] = code[q]
      BY <1>1, <2>3, RemoverStable DEF RemovedInv
    <3> QED
      BY <1>2, <1>3, <2>1, <2>3, <3>1
  <2> QED
    BY <1>3, <2>2, <2>3
<1>4. CASE Untouched(r)
  <2>1. outcome[r] \in {"integrity", "refresh"} /\ code'[r] = code[r]
    BY <1>4 DEF Untouched
  <2> QED
    BY <1>3, <2>1 DEF Explained
<1>5. CASE Insert(r)
  <2>1. pc[r] = "insert" /\ IsCreate(r) /\ code'[r] = code[r] /\ outcome[r] = "none" /\ url[r] = NoRow
    BY <1>1, <1>5 DEF Insert, At, CreateKinds, IsCreate, HandInv
  <2>2. db[code[r]] # NoRow
    BY <1>1, <1>5, <2>1 DEF Insert, ShortCodeExists, GoTo
  <2>3. /\ Registered(db[code[r]]) /\ code[db[code[r]]] = code[r] /\ Overlap(db[code[r]], r)
    BY <1>1, <2>1, <2>2 DEF StoredInv, Beaten
  <2>4. db[code[r]] \in Requests \ {r} /\ IsCreate(db[code[r]])
    BY <2>1, <2>3, NoRowAssumption DEF Registered
  <2> QED
    BY <1>3, <2>1, <2>3, <2>4
<1>6. CASE Refresh(r)
  <2>1. Holding(r) /\ IsCreate(r) /\ url[r] = r /\ code'[r] = code[r] /\ outcome[r] = "none"
    BY <1>1, <1>6 DEF Refresh, At, CreateKinds, IsCreate, HandInv, Holding
  <2>2. db[code[r]] # r
    BY <1>1, <1>6, <2>1 DEF Refresh, GetByShortCode, GoTo
  <2>3. r \in removed
    BY <1>1, <2>1, <2>2 DEF KeptInv, Registered
  <2>4. PICK d \in Requests \ {r} : Remover(d, r) /\ Overlap(d, r)
    BY <2>1, <2>2 DEF Bereft
  <2> QED
    BY <1>3, <2>1, <2>3, <2>4 DEF Remover
<1>7. ASSUME Step(r) \/ Abort(r), ~Insert(r), ~Refresh(r) PROVE FALSE
  <2>1. outcome[r] = "none"
    BY <1>1, <1>7, StepsFrom DEF HandInv
  <2>2. CASE CheckCustom(r) \/ AcceptGenerated(r) \/ (\E c \in Codes : RejectGenerated(r, c)) \/ Prewarm(r) \/ Abort(r)
    BY <1>1, <2>1, <2>2 DEF CheckCustom, AcceptGenerated, RejectGenerated, Prewarm, Abort, GoTo, Finish
  <2>3. CASE DetailsStep(r)
    BY <1>1, <2>1, <2>3 DEF DetailsStep, DetailsLookup, DetailsFetch, DetailsEvict, DetailsPopulate, GoTo, Finish
  <2>4. CASE RedirectStep(r) \/ DeleteStep(r)
    BY <1>1, <2>1, <2>4 DEF RedirectStep, RedirectLookup, RedirectFetch, RedirectPopulate, PurgeCache, PurgeRow, Count,
                DeleteStep, DeleteRow, Invalidate, GoTo, Finish
  <2> QED
    BY <1>7, <2>2, <2>3, <2>4 DEF Step, CreateStep
<1>8. ASSUME NEW k \in Kinds, NEW c \in Codes, Start(r, k, c) PROVE FALSE
  BY <1>1, <1>8, StartsAt DEF HandInv
<1> QED
  BY <1>1, <1>4, <1>5, <1>6, <1>7, <1>8, RequestEffect

(* The causes are known in every reachable state.                          *)
LEMMA OverlapInvariant == OverlapSpec => [](ServiceInv /\ OverlapInv)
<1>1. OverlapSpec => Spec
  <2>1. OverlapInit => Init
    BY DEF OverlapInit
  <2>2. OverlapStep => [Next]_vars
    BY DEF OverlapStep
  <2> QED
    BY <2>1, <2>2, PTL DEF OverlapSpec, Spec, OverlapStep
<1>2. Spec => []ServiceInv
  BY TypeCorrect, GroundsInvariant, RegistryInvariant, PTL DEF ServiceInv, RegistryInv
<1>3. OverlapInit => OverlapInv
  <2> SUFFICES ASSUME OverlapInit PROVE OverlapInv
    OBVIOUS
  <2>1. MeetInv
    BY DEF OverlapInit, Init, MeetInv, HistoryOK, Meets, InFlight
  <2>2. ASSUME NEW r \in Requests PROVE Causes(r)
    BY DEF OverlapInit, Init, Causes, Beaten, Bereft, Holding, Purged, OutcomeFits, Explained, IsCreate
  <2>3. StaleCopyHasCause
    BY DEF OverlapInit, Init, StaleCopyHasCause
  <2> QED
    BY <2>1, <2>2, <2>3 DEF OverlapInv
<1>4. ServiceInv /\ OverlapInv /\ OverlapStep => OverlapInv'
  <2> SUFFICES ASSUME ServiceInv, OverlapInv, OverlapStep PROVE OverlapInv'
    OBVIOUS
  <2>1. MeetInv /\ [Next]_vars /\ StaleCopyHasCause /\ \A r \in Requests : Causes(r)
    BY DEF OverlapInv, OverlapStep
  <2>2. ASSUME NEW r \in Requests PROVE Causes(r)'
    BY <2>1, BeatenPreserved, BereftPreserved, PurgedPreserved, OutcomePreserved, ExplainedPreserved DEF Causes
  <2>3. StaleCopyHasCause'
    BY <2>1, StaleCopyPreserved DEF Causes
  <2> QED
    BY <2>1, <2>2, <2>3, MeetPreserved DEF OverlapInv
<1> QED
  BY <1>1, <1>2, <1>3, <1>4, PTL DEF OverlapSpec, OverlapStep

(* A request that was not cut short is only answered 500 because of another*)
(* request it met: one that committed its code first, or took the new row  *)
(* away; or because the generator found every code taken.                  *)
THEOREM ServerErrorsAreExplained == OverlapSpec => []ServerErrorExplained
<1>1. ServiceInv /\ OverlapInv => ServerErrorExplained
  <2> SUFFICES ASSUME ServiceInv, OverlapInv, NEW r \in Requests,
                      outcome[r] \notin {"none", "aborted", "exhausted"}, Status(r) = 500
               PROVE  IsCreate(r) /\ outcome[r] \in {"integrity", "refresh"}
    BY DEF ServerErrorExplained, OverlapInv, Causes, Explained
  <2>1. OutcomeFits(r) /\ outcome[r] \in Outcomes /\ kind[r] \in AllKinds \cup {"none"} /\ HandInv
    BY DEF OverlapInv, Causes, ServiceInv, SafetyInv, TypeOK
  <2>2. kind[r] # "none"
    BY <2>1 DEF OutcomeFits, HandInv
  <2>3. CASE IsCreate(r)
    BY <2>1, <2>3 DEF Status, CreateStatus, OutcomeFits, Outcomes, IsCreate
  <2>4. CASE kind[r] = "details"
    BY <2>1, <2>4 DEF Status, DetailsStatus, OutcomeFits, IsCreate
  <2>5. CASE kind[r] = "delete"
    BY <2>1, <2>5 DEF Status, DeleteStatus, OutcomeFits, IsCreate
  <2>6. CASE kind[r] = "redirect"
    BY <2>1, <2>6 DEF Status, RedirectStatus, OutcomeFits, IsCreate
  <2> QED
    BY <2>1, <2>2, <2>3, <2>4, <2>5, <2>6 DEF AllKinds, IsCreate
<1> QED
  BY <1>1, OverlapInvariant, PTL

(* A copy of a row that is no longer stored is in the cache only as long as*)
(* the removal is not over, or because it failed half way, was not heard by*)
(* Redis, or met a request that held the row.                              *)
THEOREM StaleCopiesHaveACause == OverlapSpec => []StaleCopyHasCause
<1>1. OverlapInv => StaleCopyHasCause
  BY DEF OverlapInv
<1> QED
  BY <1>1, OverlapInvariant, PTL

=============================================================================

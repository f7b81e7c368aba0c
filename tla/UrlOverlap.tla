----------------------------- MODULE UrlOverlap -----------------------------
(***************************************************************************)
(* UrlService with two history variables: which requests were served at    *)
(* the same time, and whose call to empty the cache Redis has not heard.   *)
(* They restrict nothing, every behaviour of UrlService is one of these.   *)
(* They name the causes of what the handlers get wrong: an answer of 500,  *)
(* and a copy in the cache of a URL that is no longer stored.              *)
(***************************************************************************)
EXTENDS UrlService

VARIABLES
    busy,       \* busy[r]: the requests in flight when request r began
    unheard     \* requests whose DEL of a cache entry failed

history == <<busy, unheard>>

OverlapInit ==
    /\ Init
    /\ busy = [r \in Requests |-> {}]
    /\ unheard = {}

(* The steps that drop a cache entry                                       *)
Drops == {"evict", "purge_cache", "invalidate"}

Record ==
    /\ busy' = [r \in Requests |-> IF pc[r] = "idle" /\ pc'[r] # "idle" THEN InFlight ELSE busy[r]]
    /\ unheard' = unheard \cup
          {r \in Requests : pc[r] \in Drops /\ pc'[r] # pc[r] /\ cache'[code[r]] # NoRow}

OverlapSpec == OverlapInit /\ [][Next /\ Record]_<<vars, history>>

FairOverlapSpec == OverlapSpec /\ Fairness

HistoryOK == busy \in [Requests -> SUBSET Requests] /\ unheard \subseteq Requests

-----------------------------------------------------------------------------
(* Requests q and r were being served at the same time.                    *)
Overlap(q, r) == q \in busy[r] \/ r \in busy[q]

(* Request d has reported the row as deleted, or cleans up an expired row  *)
(* of the same code.                                                       *)
Remover(d, row) ==
    /\ code[d] = code[row]
    /\ \/ kind[d] = "delete" /\ url[d] = row
       \/ kind[d] = "redirect" /\ url[d] \in expired

(* A request that was not cut short is only answered 500, unless the code  *)
(* generator ran out of attempts, if it is a create that another request   *)
(* for its code met half way: one that committed its row first, or one that*)
(* took the new row away before it was read back.                          *)
ServerErrorExplained ==
    \A r \in Requests : outcome[r] \notin {"none", "aborted", "exhausted"} /\ Status(r) = 500 =>
        /\ IsCreate(r)
        /\ \E q \in Requests \ {r} :
              /\ Overlap(q, r) /\ code[q] = code[r]
              /\ (IsCreate(q) /\ Registered(q)) \/ (r \in removed /\ Remover(q, r))

(* A copy of a row that is no longer stored stays in the cache only if the *)
(* request that took the row away is not done yet, died before it dropped  *)
(* the copy or was not heard by Redis, or if it overlapped a request that  *)
(* held the row and could put the copy there: handlers that neither overlap*)
(* nor fail keep both stores in step.                                      *)
StaleCopyHasCause ==
    \A c \in Codes : cache[c] \in {NoRow, db[c]} \/
        \E d \in Requests :
            /\ Remover(d, cache[c])
            /\ \/ pc[d] = "invalidate" \/ outcome[d] = "aborted" \/ d \in unheard
               \/ \E q \in Requests \ {d} :
                     Overlap(q, d) /\ kind[q] # "delete" /\ url[q] = cache[c]

=============================================================================

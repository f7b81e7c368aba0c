------------------------------ MODULE UrlModel ------------------------------
(***************************************************************************)
(* The rows of the urls table (app/db/models.py).  A row is identified by  *)
(* the create request that inserts it: a request inserts at most one row,  *)
(* so the request stands for the surrogate key url.id, the original URL    *)
(* and the expiry the row carries.  A copy of a row in Redis carries the   *)
(* same expires_at, so the copy and the row expire together.               *)
(***************************************************************************)
CONSTANTS
    Requests,   \* HTTP requests, each made once; also the rows they insert
    Codes,      \* short codes
    NoRow       \* no row: a missing database row, a cache miss

ASSUME NoRowAssumption == NoRow \notin Requests

VARIABLE
    expired     \* rows whose expires_at has passed; a row without expires_at
                \* is one that never enters this set

RowOrNone == Requests \cup {NoRow}

(* Variant: the comparison of expires_at with the clock turned round.      *)
IsExpired_Reversed(row) == row \notin expired

(* URL.is_expired, and the same comparison made on the cached expires_at.  *)
IsExpired(row) == row \in expired

=============================================================================

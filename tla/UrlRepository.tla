---------------------------- MODULE UrlRepository ----------------------------
(***************************************************************************)
(* app/repositories/url_repository.py: every method is one SQL statement   *)
(* followed by its own commit, so it takes effect at one instant.  The     *)
(* unique index on short_code is the function db: a code has one row.      *)
(***************************************************************************)
EXTENDS UrlModel, FiniteSets

VARIABLES
    db,         \* db[c]: the row stored under code c, or NoRow
    removed,    \* rows deleted so far
    credit      \* credit[r]: the row whose click_count request r's UPDATE
                \* increased, NoRow if none: the urls.click_count column is
                \* kept as the requests that increased it, see ClickCount

repositoryVars == <<db, removed, credit>>

ClickCount(row) == Cardinality({r \in Requests : credit[r] = row})

ShortCodeExists(c) == db[c] # NoRow

GetByShortCode(c) == db[c]

(* session.add and commit; only enabled when the unique index allows it.   *)
Create(c, row) ==
    /\ db[c] = NoRow
    /\ db' = [db EXCEPT ![c] = row]
    /\ UNCHANGED <<removed, credit>>

(* The delete is by code, whatever row is there; deleting nothing is fine. *)
DeleteByShortCode(c) ==
    /\ db' = [db EXCEPT ![c] = NoRow]
    /\ removed' = removed \cup ({db[c]} \ {NoRow})
    /\ UNCHANGED credit

(* Variant: click_count read, increased in Python and written back, so     *)
(* that the click is lost when another one was counted meanwhile.          *)
IncrementClick_LostUpdate(c, r) ==
    /\ credit' = [credit EXCEPT
                    ![r] = IF \E q \in Requests \ {r} : credit[q] = db[c]
                           THEN NoRow ELSE db[c]]
    /\ UNCHANGED <<db, removed>>

(* UPDATE ... SET click_count = click_count + 1 WHERE short_code = c.      *)
IncrementClick(c, r) ==
    /\ credit' = [credit EXCEPT ![r] = db[c]]
    /\ UNCHANGED <<db, removed>>

=============================================================================

---------------------------- MODULE MCTableReads ----------------------------
(* TableReads on small instances: model values for rows, codes, headers.   *)
EXTENDS TableReads, TLC

(* Rows are interchangeable, and so are codes.                             *)
Symmetry == Permutations(Urls) \cup Permutations(Codes)

(* A negative limit, a limit below the cap, and one above it.              *)
SomeLimits == {-1, 1, 3}

(* At most three increments in the table: two of one row and one of another.*)
FewClicks == MapThenSumSet(LAMBDA u : clickCount[u], Urls) <= 3

(* What happens once every reader has its answer is of no consequence.     *)
ReadersBusy == \E q \in Readers : pc[q] \notin {"done", "not_found", "error"}

=============================================================================

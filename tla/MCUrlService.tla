---------------------------- MODULE MCUrlService ----------------------------
(* UrlService on small instances: model values for requests and codes.     *)
EXTENDS UrlService, TLC

(* Requests are interchangeable, and so are codes.                         *)
Symmetry == Permutations(Requests) \cup Permutations(Codes)

(* All creates of a behaviour choose their codes, or all have them         *)
(* generated: once they have a code they go on alike.                      *)
OneWayOfCreating == \A q, r \in Requests : ~(kind[q] = "custom" /\ kind[r] = "generate")

=============================================================================

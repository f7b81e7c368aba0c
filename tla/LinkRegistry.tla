---------------------------- MODULE LinkRegistry ----------------------------
(***************************************************************************)
(* What the shortener promises, with no cache, no steps and no failures: a *)
(* code is bound to at most one link at a time, and every request takes    *)
(* effect at one instant.  A link is named by the request that creates it. *)
(* Looking a code up answers with the link it is bound to at that instant; *)
(* following it may answer with any link it was ever bound to, which is    *)
(* what a cache of 24 hours costs.                                         *)
(***************************************************************************)
CONSTANTS Requests, Codes, NoLink

VARIABLES
    role,       \* role[r]: what request r asks for
    target,     \* target[r]: the code it asks about
    answer,     \* answer[r]: the link it created, found or released
    binding,    \* binding[c]: the link code c is bound to, or NoLink
    ever,       \* ever[c]: the links code c was ever bound to
    credit      \* credit[r]: the link on which request r was counted

vars == <<role, target, answer, binding, ever, credit>>

Roles == {"create", "details", "redirect", "delete"}

Init ==
    /\ role = [r \in Requests |-> "none"]
    /\ target \in [Requests -> Codes]
    /\ answer = [r \in Requests |-> NoLink]
    /\ binding = [c \in Codes |-> NoLink]
    /\ ever = [c \in Codes |-> {}]
    /\ credit = [r \in Requests |-> NoLink]

Ask(r, k, c) ==
    /\ role[r] = "none"
    /\ role' = [role EXCEPT ![r] = k]
    /\ target' = [target EXCEPT ![r] = c]
    /\ UNCHANGED <<answer, binding, ever, credit>>

(* A create that may choose its code may choose again until it has a link. *)
Redraw(r, c) ==
    /\ role[r] = "create" /\ answer[r] = NoLink
    /\ target' = [target EXCEPT ![r] = c]
    /\ UNCHANGED <<role, answer, binding, ever, credit>>

Answer(r, link) == answer[r] = NoLink /\ answer' = [answer EXCEPT ![r] = link]

(* Only a free code is bound, and only once by each create.                *)
Register(r) ==
    /\ role[r] = "create"
    /\ binding[target[r]] = NoLink
    /\ Answer(r, r)
    /\ binding' = [binding EXCEPT ![target[r]] = r]
    /\ ever' = [ever EXCEPT ![target[r]] = @ \cup {r}]
    /\ UNCHANGED <<role, target, credit>>

(* A lookup answers with the link bound at the moment of the answer.       *)
Find(r) ==
    /\ role[r] \in {"details", "redirect"}
    /\ binding[target[r]] # NoLink
    /\ Answer(r, binding[target[r]])
    /\ UNCHANGED <<role, target, binding, ever, credit>>

(* A redirect may follow an earlier link of its code.                      *)
Recall(r) ==
    /\ role[r] = "redirect"
    /\ \E link \in ever[target[r]] : Answer(r, link)
    /\ UNCHANGED <<role, target, binding, ever, credit>>

(* A redirect with an answer counts the link bound at that moment, if any. *)
Credit(r) ==
    /\ role[r] = "redirect" /\ answer[r] # NoLink
    /\ credit' = [credit EXCEPT ![r] = binding[target[r]]]
    /\ UNCHANGED <<role, target, answer, binding, ever>>

(* A delete releases the link it reports; so does the expiry cleanup, which*)
(* reports none.                                                           *)
Release(r) ==
    /\ \/ role[r] = "delete" /\ Answer(r, binding[target[r]])
       \/ role[r] = "redirect" /\ answer[r] # NoLink /\ UNCHANGED answer
    /\ binding' = [binding EXCEPT ![target[r]] = NoLink]
    /\ UNCHANGED <<role, target, ever, credit>>

Next ==
    \E r \in Requests :
        \/ \E k \in Roles, c \in Codes : Ask(r, k, c)
        \/ \E c \in Codes : Redraw(r, c)
        \/ Register(r) \/ Find(r) \/ Recall(r) \/ Credit(r) \/ Release(r)

Spec == Init /\ [][Next]_vars

=============================================================================

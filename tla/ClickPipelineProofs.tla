------------------------ MODULE ClickPipelineProofs ------------------------
(***************************************************************************)
(* The accounting of click events for any number of redirects, codes and   *)
(* URLs, and any size of the bus and of the batches.                       *)
(***************************************************************************)
EXTENDS ClickPipeline, SequenceTheorems, FiniteSetTheorems, TLAPS

USE PipelineAssumption

-----------------------------------------------------------------------------
(* Sequences                                                               *)

Distinct(s) == \A i, j \in 1..Len(s) : s[i] = s[j] => i = j

LEMMA ToSetElements ==
    ASSUME NEW S, NEW s \in Seq(S)
    PROVE  ToSet(s) = {s[i] : i \in 1..Len(s)} /\ ToSet(s) \subseteq S
  BY LenProperties DEF ToSet

LEMMA ToSetEmpty == ToSet(<<>>) = {}
  BY DEF ToSet

LEMMA ToSetConcat ==
    ASSUME NEW S, NEW s \in Seq(S), NEW t \in Seq(S)
    PROVE  ToSet(s \o t) = ToSet(s) \cup ToSet(t)
<1>1. s \o t \in Seq(S) /\ Len(s \o t) = Len(s) + Len(t)
    BY ConcatProperties
<1>2. Len(s) \in Nat /\ Len(t) \in Nat
    BY LenProperties
<1>3. \A i \in 1..Len(s) : (s \o t)[i] = s[i]
    BY <1>2, ConcatProperties
<1>4. \A i \in 1..Len(t) : (s \o t)[Len(s) + i] = t[i]
  <2> SUFFICES ASSUME NEW i \in 1..Len(t) PROVE (s \o t)[Len(s) + i] = t[i]
      OBVIOUS
  <2>1. Len(s) + i \in 1..(Len(s) + Len(t)) /\ ~(Len(s) + i <= Len(s)) /\ Len(s) + i - Len(s) = i
      BY <1>2
  <2> QED
      BY <2>1, ConcatProperties
<1>5. \A i \in 1..(Len(s) + Len(t)) : i \in 1..Len(s) \/ i - Len(s) \in 1..Len(t)
    BY <1>2
<1>6. ToSet(s \o t) \subseteq ToSet(s) \cup ToSet(t)
  <2>0. ToSet(s \o t) = {(s \o t)[i] : i \in 1..(Len(s) + Len(t))}
      BY <1>1, ToSetElements
  <2> SUFFICES ASSUME NEW i \in 1..(Len(s) + Len(t)) PROVE (s \o t)[i] \in ToSet(s) \cup ToSet(t)
      BY <2>0
  <2>1. CASE i \in 1..Len(s)
      BY <2>1, <1>3, ToSetElements
  <2>2. CASE i - Len(s) \in 1..Len(t)
    <3>1. i = Len(s) + (i - Len(s))
        BY <1>2
    <3> QED
        BY <2>2, <3>1, <1>4, ToSetElements
  <2> QED
      BY <1>5, <2>1, <2>2
<1>7. ToSet(s) \cup ToSet(t) \subseteq ToSet(s \o t)
  <2>1. \A i \in 1..Len(s) : i \in 1..(Len(s) + Len(t))
      BY <1>2
  <2>2. \A i \in 1..Len(t) : Len(s) + i \in 1..(Len(s) + Len(t))
      BY <1>2
  <2>3. ToSet(s \o t) = {(s \o t)[i] : i \in 1..(Len(s) + Len(t))}
      BY <1>1, ToSetElements
  <2> QED
      BY <1>3, <1>4, <2>1, <2>2, <2>3, ToSetElements
<1> QED
    BY <1>6, <1>7

LEMMA AppendFacts ==
    ASSUME NEW S, NEW s \in Seq(S), NEW x \in S
    PROVE  /\ ToSet(Append(s, x)) = ToSet(s) \cup {x}
           /\ Distinct(s) /\ x \notin ToSet(s) => Distinct(Append(s, x))
<1>1. Len(s) \in Nat /\ Append(s, x) \in Seq(S)
    BY LenProperties, AppendProperties
<1>2. Len(Append(s, x)) = Len(s) + 1
    BY AppendProperties
<1>3. \A i \in 1..(Len(s) + 1) : i \in 1..Len(s) \/ i = Len(s) + 1
    BY <1>1
<1>4. ToSet(s) = {s[i] : i \in 1..Len(s)}
    BY ToSetElements
<1>5. ToSet(Append(s, x)) = {Append(s, x)[i] : i \in 1..(Len(s) + 1)}
    BY <1>1, <1>2, ToSetElements
<1>6. \A i \in 1..Len(s) : Append(s, x)[i] = s[i] /\ i \in 1..(Len(s) + 1)
    BY <1>1, AppendProperties
<1>7. Append(s, x)[Len(s) + 1] = x /\ Len(s) + 1 \in 1..(Len(s) + 1)
    BY <1>1, AppendProperties
<1>8. ToSet(Append(s, x)) = ToSet(s) \cup {x}
    BY <1>3, <1>4, <1>5, <1>6, <1>7
<1>9. Distinct(s) /\ x \notin ToSet(s) => Distinct(Append(s, x))
    BY <1>2, <1>3, <1>4, <1>6, <1>7 DEF Distinct
<1> QED
    BY <1>8, <1>9

(* A sequence cut in two keeps its elements, and none is on both sides.    *)
LEMMA Cut ==
    ASSUME NEW S, NEW s \in Seq(S), NEW n \in 0..Len(s), Distinct(s)
    PROVE  LET a == SubSeq(s, 1, n)
               b == SubSeq(s, n + 1, Len(s)) IN
           /\ a \in Seq(S) /\ b \in Seq(S)
           /\ Len(a) = n /\ Len(b) = Len(s) - n
           /\ a \o b = s
           /\ ToSet(a) \cap ToSet(b) = {}
           /\ Distinct(b)
<1> DEFINE a == SubSeq(s, 1, n)
           b == SubSeq(s, n + 1, Len(s))
<1>1. Len(s) \in Nat /\ \A i \in 1..Len(s) : s[i] \in S
    BY LenProperties, ElementOfSeq
<1>2. a \in Seq(S) /\ Len(a) = n /\ \A i \in 1..n : a[i] = s[i]
  <2>1. \A i \in 1..n : s[i] \in S
      BY <1>1
  <2>2. /\ a \in Seq(S)
        /\ Len(a) = IF 1 <= n THEN n - 1 + 1 ELSE 0
        /\ \A i \in 1..(n - 1 + 1) : a[i] = s[1 + i - 1]
      BY <1>1, <2>1, SubSeqProperties
  <2>3. \A i \in 1..n : 1 + i - 1 = i
      OBVIOUS
  <2>4. n - 1 + 1 = n /\ (~(1 <= n) => n = 0)
      BY <1>1
  <2> QED
      BY <2>2, <2>3, <2>4
<1>3. b \in Seq(S) /\ Len(b) = Len(s) - n /\ \A i \in 1..(Len(s) - n) : b[i] = s[n + i]
  <2>1. \A i \in (n + 1)..Len(s) : s[i] \in S
      BY <1>1
  <2>2. /\ b \in Seq(S)
        /\ Len(b) = IF n + 1 <= Len(s) THEN Len(s) - (n + 1) + 1 ELSE 0
        /\ \A i \in 1..(Len(s) - (n + 1) + 1) : b[i] = s[n + 1 + i - 1]
      BY <1>1, <2>1, SubSeqProperties
  <2>3. \A i \in 1..(Len(s) - n) : n + 1 + i - 1 = n + i
      BY <1>1
  <2>4. Len(s) - (n + 1) + 1 = Len(s) - n /\ (~(n + 1 <= Len(s)) => Len(s) - n = 0)
      BY <1>1
  <2> QED
      BY <2>2, <2>3, <2>4
<1>4. a \o b = s
  <2>1. SubSeq(s, 1, n) \o SubSeq(s, n + 1, Len(s)) = SubSeq(s, 1, Len(s))
    <3>1. 1 \in 1..(Len(s) + 1) /\ n \in (1 - 1)..Len(s) /\ Len(s) \in n..Len(s)
        BY <1>1
    <3> QED
        BY <3>1, ConcatAdjacentSubSeq
  <2> QED
      BY <2>1, SubSeqFull
<1> HIDE DEF a, b
<1>5. ToSet(a) \cap ToSet(b) = {}
  <2>0. ToSet(a) = {a[i] : i \in 1..n} /\ ToSet(b) = {b[i] : i \in 1..(Len(s) - n)}
      BY <1>2, <1>3, ToSetElements
  <2> SUFFICES ASSUME NEW i \in 1..n, NEW j \in 1..(Len(s) - n), a[i] = b[j] PROVE FALSE
      BY <2>0
  <2>1. i \in 1..Len(s) /\ n + j \in 1..Len(s) /\ i # n + j
      BY <1>1
  <2> QED
      BY <2>1, <1>2, <1>3 DEF Distinct
<1>6. Distinct(b)
  <2> SUFFICES ASSUME NEW i \in 1..(Len(s) - n), NEW j \in 1..(Len(s) - n), b[i] = b[j] PROVE i = j
      BY <1>3 DEF Distinct
  <2>1. n + i \in 1..Len(s) /\ n + j \in 1..Len(s)
      BY <1>1
  <2>2. n + i = n + j
      BY <2>1, <1>3 DEF Distinct
  <2> QED
      BY <2>2, <1>1
<1> QED
    BY <1>2, <1>3, <1>4, <1>5, <1>6 DEF a, b

(* A suffix, place by place                                                *)
LEMMA SuffixPlaces ==
    ASSUME NEW S, NEW s \in Seq(S), NEW t \in Seq(S)
    PROVE  IsSuffix(s, t) <=>
             /\ Len(s) <= Len(t)
             /\ \A i \in 1..Len(s) : s[i] = t[Len(t) - Len(s) + i]
<1> DEFINE rs == Reverse(s)
           rt == Reverse(t)
<1>1. Len(s) \in Nat /\ Len(t) \in Nat /\ (\A i \in 1..Len(s) : s[i] \in S) /\ (\A i \in 1..Len(t) : t[i] \in S)
    BY LenProperties, ElementOfSeq
<1>2. /\ rs \in Seq(S) /\ Len(rs) = Len(s)
      /\ \A i \in 1..Len(s) : rs[i] = s[Len(s) - i + 1]
  <2>1. rs \in [1..Len(s) -> S]
    <3>1. \A i \in 1..Len(s) : Len(s) - i + 1 \in 1..Len(s)
        BY <1>1
    <3> QED
        BY <3>1, <1>1 DEF Reverse
  <2> QED
      BY <2>1, <1>1 DEF Reverse
<1>3. /\ rt \in Seq(S) /\ Len(rt) = Len(t)
      /\ \A i \in 1..Len(t) : rt[i] = t[Len(t) - i + 1]
  <2>1. rt \in [1..Len(t) -> S]
    <3>1. \A i \in 1..Len(t) : Len(t) - i + 1 \in 1..Len(t)
        BY <1>1
    <3> QED
        BY <3>1, <1>1 DEF Reverse
  <2> QED
      BY <2>1, <1>1 DEF Reverse
<1> HIDE DEF rs, rt
<1>4. IsSuffix(s, t) <=> IsPrefix(rs, rt)
    BY DEF IsSuffix, rs, rt
<1>5. IsPrefix(rs, rt) <=>
        Len(s) <= Len(t) /\ SubSeq(rs, 1, Len(s)) = SubSeq(rt, 1, Len(s))
    BY <1>2, <1>3 DEF IsPrefix
<1> SUFFICES ASSUME Len(s) <= Len(t)
             PROVE  SubSeq(rs, 1, Len(s)) = SubSeq(rt, 1, Len(s)) <=>
                      \A i \in 1..Len(s) : s[i] = t[Len(t) - Len(s) + i]
    BY <1>4, <1>5
<1>6. SubSeq(rs, 1, Len(s)) = rs
    BY <1>2, SubSeqFull
<1>7. /\ SubSeq(rt, 1, Len(s)) \in Seq(S)
      /\ Len(SubSeq(rt, 1, Len(s))) = Len(s)
      /\ \A i \in 1..Len(s) : SubSeq(rt, 1, Len(s))[i] = rt[i]
  <2>1. \A i \in 1..Len(s) : rt[i] \in S
    <3>1. \A i \in 1..Len(s) : i \in 1..Len(rt)
        BY <1>1, <1>3
    <3> QED
        BY <3>1, <1>3, ElementOfSeq
  <2>2. /\ SubSeq(rt, 1, Len(s)) \in Seq(S)
        /\ Len(SubSeq(rt, 1, Len(s))) = IF 1 <= Len(s) THEN Len(s) - 1 + 1 ELSE 0
        /\ \A i \in 1..(Len(s) - 1 + 1) : SubSeq(rt, 1, Len(s))[i] = rt[1 + i - 1]
      BY <1>1, <2>1, SubSeqProperties
  <2>3. Len(s) - 1 + 1 = Len(s) /\ (~(1 <= Len(s)) => Len(s) = 0)
      BY <1>1
  <2>4. \A i \in 1..Len(s) : 1 + i - 1 = i
      OBVIOUS
  <2> QED
      BY <2>2, <2>3, <2>4
<1>8. SubSeq(rt, 1, Len(s)) = rs <=> \A i \in 1..Len(s) : rs[i] = rt[i]
    BY <1>2, <1>7, SeqEqual
<1>9. \A i \in 1..Len(s) : i \in 1..Len(t) /\ rs[i] = s[Len(s) - i + 1] /\ rt[i] = t[Len(t) - i + 1]
  <2> SUFFICES ASSUME NEW i \in 1..Len(s)
               PROVE  i \in 1..Len(t) /\ rs[i] = s[Len(s) - i + 1] /\ rt[i] = t[Len(t) - i + 1]
      OBVIOUS
  <2>1. i \in 1..Len(t)
      BY <1>1
  <2> QED
      BY <2>1, <1>2, <1>3
<1>10. ASSUME \A i \in 1..Len(s) : rs[i] = rt[i], NEW i \in 1..Len(s)
       PROVE  s[i] = t[Len(t) - Len(s) + i]
  <2>1. Len(s) - i + 1 \in 1..Len(s)
      BY <1>1
  <2>2. Len(s) - (Len(s) - i + 1) + 1 = i /\ Len(t) - (Len(s) - i + 1) + 1 = Len(t) - Len(s) + i
      BY <1>1
  <2> QED
      BY <2>1, <2>2, <1>9, <1>10
<1>11. ASSUME \A i \in 1..Len(s) : s[i] = t[Len(t) - Len(s) + i], NEW i \in 1..Len(s)
       PROVE  rs[i] = rt[i]
  <2>1. Len(s) - i + 1 \in 1..Len(s)
      BY <1>1
  <2>2. Len(t) - Len(s) + (Len(s) - i + 1) = Len(t) - i + 1
      BY <1>1
  <2> QED
      BY <2>1, <2>2, <1>9, <1>11
<1> QED
    BY <1>6, <1>8, <1>10, <1>11

(* What is left of a suffix after its first elements is a suffix.          *)
LEMMA SuffixTail ==
    ASSUME NEW S, NEW s \in Seq(S), NEW r \in Seq(S), NEW t \in Seq(S), IsSuffix(s \o r, t)
    PROVE  IsSuffix(r, t)
<1>1. s \o r \in Seq(S) /\ Len(s \o r) = Len(s) + Len(r) /\ Len(s) \in Nat /\ Len(r) \in Nat /\ Len(t) \in Nat
    BY ConcatProperties, LenProperties
<1>2. /\ Len(s) + Len(r) <= Len(t)
      /\ \A i \in 1..(Len(s) + Len(r)) : (s \o r)[i] = t[Len(t) - (Len(s) + Len(r)) + i]
  <2>1. /\ Len(s \o r) <= Len(t)
        /\ \A i \in 1..Len(s \o r) : (s \o r)[i] = t[Len(t) - Len(s \o r) + i]
      BY <1>1, SuffixPlaces
  <2> QED
      BY <2>1, <1>1
<1>3. ASSUME NEW i \in 1..Len(r) PROVE r[i] = t[Len(t) - Len(r) + i]
  <2>1. /\ Len(s) + i \in 1..(Len(s) + Len(r))
        /\ ~(Len(s) + i <= Len(s)) /\ Len(s) + i - Len(s) = i
        /\ Len(t) - (Len(s) + Len(r)) + (Len(s) + i) = Len(t) - Len(r) + i
      BY <1>1
  <2>2. (s \o r)[Len(s) + i] = r[i]
      BY <2>1, ConcatProperties
  <2> QED
      BY <2>1, <2>2, <1>2
<1>4. Len(r) <= Len(t)
    BY <1>1, <1>2
<1> QED
    BY <1>3, <1>4, SuffixPlaces

(* A new element goes to the end of both.                                  *)
LEMMA SuffixAppend ==
    ASSUME NEW S, NEW s \in Seq(S), NEW r \in Seq(S), NEW t \in Seq(S), NEW x \in S,
           IsSuffix(s \o r, t)
    PROVE  IsSuffix(s \o Append(r, x), Append(t, x))
<1> DEFINE u == s \o r
<1>1. u \in Seq(S) /\ s \o Append(r, x) = Append(u, x)
  <2>1. <<x>> \in Seq(S)
      OBVIOUS
  <2>2. Append(r, x) = r \o <<x>> /\ u \in Seq(S)
      BY AppendIsConcat, ConcatProperties
  <2>3. Append(u, x) = u \o <<x>>
      BY <2>2, AppendIsConcat
  <2>4. (s \o r) \o <<x>> = s \o (r \o <<x>>)
      BY <2>1, ConcatAssociative
  <2> QED
      BY <2>2, <2>3, <2>4
<1>2. Len(u) <= Len(t) /\ \A i \in 1..Len(u) : u[i] = t[Len(t) - Len(u) + i]
    BY <1>1, SuffixPlaces
<1> HIDE DEF u
<1>3. Len(u) \in Nat /\ Len(t) \in Nat
    BY <1>1, LenProperties
<1>4. /\ Append(u, x) \in Seq(S) /\ Append(t, x) \in Seq(S)
      /\ Len(Append(u, x)) = Len(u) + 1 /\ Len(Append(t, x)) = Len(t) + 1
      /\ \A i \in 1..Len(u) : Append(u, x)[i] = u[i]
      /\ \A i \in 1..Len(t) : Append(t, x)[i] = t[i]
      /\ Append(u, x)[Len(u) + 1] = x /\ Append(t, x)[Len(t) + 1] = x
    BY <1>1, AppendProperties
<1>5. ASSUME NEW i \in 1..(Len(u) + 1)
      PROVE  Append(u, x)[i] = Append(t, x)[Len(t) + 1 - (Len(u) + 1) + i]
  <2>1. CASE i = Len(u) + 1
    <3>1. Len(t) + 1 - (Len(u) + 1) + i = Len(t) + 1
        BY <2>1, <1>3
    <3> QED
        BY <2>1, <3>1, <1>4
  <2>2. CASE i # Len(u) + 1
    <3>1. i \in 1..Len(u) /\ Len(t) - Len(u) + i \in 1..Len(t)
          /\ Len(t) + 1 - (Len(u) + 1) + i = Len(t) - Len(u) + i
        BY <2>2, <1>2, <1>3
    <3> QED
        BY <3>1, <1>2, <1>4
  <2> QED
      BY <2>1, <2>2
<1>6. Len(u) + 1 <= Len(t) + 1
    BY <1>2, <1>3
<1>7. IsSuffix(Append(u, x), Append(t, x))
  <2>1. /\ Len(Append(u, x)) <= Len(Append(t, x))
        /\ \A i \in 1..Len(Append(u, x)) :
              Append(u, x)[i] = Append(t, x)[Len(Append(t, x)) - Len(Append(u, x)) + i]
    <3>1. Len(Append(t, x)) - Len(Append(u, x)) = Len(t) + 1 - (Len(u) + 1)
        BY <1>4
    <3>2. 1..Len(Append(u, x)) = 1..(Len(u) + 1)
        BY <1>4
    <3> QED
        BY <3>1, <3>2, <1>4, <1>5, <1>6, Zenon
  <2> QED
      BY <2>1, <1>4, SuffixPlaces
<1> QED
    BY <1>1, <1>7

-----------------------------------------------------------------------------
(* Events, and their rows                                                  *)

OneRowEach(R) == \A r, s \in R : r.event = s.event => r = s

(* There are no more rows than events if each event has at most one.       *)
LEMMA RowsAreFinite ==
    ASSUME NEW R, R \subseteq [event : Events, url : Urls], OneRowEach(R)
    PROVE  IsFiniteSet(R)
<1> DEFINE f == [r \in R |-> r.event]
<1>1. f \in [R -> Events]
    OBVIOUS
<1>2. IsInjective(f)
    BY DEF IsInjective, OneRowEach
<1>3. f \in Injection(R, Events)
    BY <1>1, <1>2 DEF Injection
<1> QED
    BY <1>3, FS_Injection

(* The rows of a flush: for events of its batch, one each.                 *)
LEMMA RowFacts ==
    ASSUME TypeOK
    PROVE  /\ Rows \subseteq [event : Events, url : Urls]
           /\ OneRowEach(Rows)
           /\ \A r \in Rows : r.event \in ToSet(batch) /\ r.url = resolved[code[r.event]]
           /\ IsFiniteSet(Rows)
<1>1. ToSet(batch) \subseteq Events
    BY ToSetElements DEF TypeOK
<1>2. ASSUME NEW r \in Rows
      PROVE  /\ r \in [event : Events, url : Urls]
             /\ r.event \in ToSet(batch) /\ r.url = resolved[code[r.event]]
             /\ r = [event |-> r.event, url |-> resolved[code[r.event]]]
  <2>1. PICK e \in ToSet(batch) :
            resolved[code[e]] # NoUrl /\ r = [event |-> e, url |-> resolved[code[e]]]
      BY DEF Rows
  <2>2. resolved[code[e]] \in Urls
      BY <1>1, <2>1 DEF TypeOK
  <2> QED
      BY <1>1, <2>1, <2>2
<1>3. OneRowEach(Rows)
    BY <1>2 DEF OneRowEach
<1> QED
    BY <1>2, <1>3, RowsAreFinite

Given == {e \in Events : fate[e] # "none"}
Cancelled == {e \in Events : fate[e] = "cancelled"}

LEMMA MarkFacts ==
    ASSUME TypeOK, NEW E, E \subseteq Events, NEW f \in Fates \ {"none"}, Mark(E, f)
    PROVE  /\ fate' \in [Events -> Fates]
           /\ Given' = Given \cup E
           /\ f # "cancelled" => Cancelled' = Cancelled \ E
           /\ f = "cancelled" => Cancelled' = Cancelled \cup E
BY DEF TypeOK, Mark, Given, Cancelled

LEMMA BatchLengthFacts ==
    ASSUME TypeOK
    PROVE  BatchLength \in 0..Len(queue) /\ BatchLength <= BatchSize
BY LenProperties DEF TypeOK, BatchLength

(* Cutting the queue gives two sequences of events.                        *)
LEMMA CutTypes ==
    ASSUME NEW s \in Seq(Events), NEW n \in 0..Len(s)
    PROVE  /\ SubSeq(s, 1, n) \in Seq(Events)
           /\ SubSeq(s, n + 1, Len(s)) \in Seq(Events)
           /\ Len(SubSeq(s, 1, n)) = n
           /\ Len(SubSeq(s, n + 1, Len(s))) = Len(s) - n
<1>1. Len(s) \in Nat /\ \A i \in 1..Len(s) : s[i] \in Events
    BY LenProperties, ElementOfSeq
<1>2. (\A i \in 1..n : s[i] \in Events) /\ (\A i \in (n + 1)..Len(s) : s[i] \in Events)
    BY <1>1
<1>3. /\ SubSeq(s, 1, n) \in Seq(Events)
      /\ Len(SubSeq(s, 1, n)) = IF 1 <= n THEN n - 1 + 1 ELSE 0
    BY <1>1, <1>2, SubSeqProperties
<1>4. /\ SubSeq(s, n + 1, Len(s)) \in Seq(Events)
      /\ Len(SubSeq(s, n + 1, Len(s))) = IF n + 1 <= Len(s) THEN Len(s) - (n + 1) + 1 ELSE 0
    BY <1>1, <1>2, SubSeqProperties
<1> QED
    BY <1>1, <1>3, <1>4

-----------------------------------------------------------------------------
(* Types                                                                   *)

LEMMA EventTypes ==
    ASSUME TypeOK
    PROVE  ToSet(batch) \subseteq Events /\ ToSet(queue) \subseteq Events /\ ToSet(accepted) \subseteq Events
BY ToSetElements DEF TypeOK

LEMMA TypeStep == TypeOK /\ [Next]_vars => TypeOK'
<1> SUFFICES ASSUME TypeOK, [Next]_vars PROVE TypeOK'
    OBVIOUS
<1> USE DEF database, handlers, worker
<1>1. ASSUME NEW c \in Codes, CreateUrl(c) PROVE TypeOK'
  <2>1. nextUrl \in Urls /\ nextUrl' = nextUrl + 1 /\ db' = [db EXCEPT ![c] = nextUrl]
      BY <1>1 DEF CreateUrl
  <2>2. nextUrl' \in 1..(MaxUrls + 1)
      BY <2>1 DEF Urls
  <2>3. db' \in [Codes -> Urls \cup {NoUrl}]
      BY <2>1 DEF TypeOK
  <2>4. known' \subseteq Codes
      BY <1>1 DEF CreateUrl, TypeOK
  <2>5. UNCHANGED <<clickCount, clicks, request, code, served, queue, phase, pc, batch, resolved, accepted, fate>>
      BY <1>1 DEF CreateUrl
  <2> QED
      BY <2>2, <2>3, <2>4, <2>5 DEF TypeOK
<1>2. ASSUME NEW c \in Codes, DeleteUrl(c) PROVE TypeOK'
  <2>1. {row.event : row \in clicks \ clicks'} \subseteq Events
      BY DEF TypeOK
  <2>2. fate' \in [Events -> Fates]
      BY <1>2, <2>1, MarkFacts DEF DeleteUrl, Fates
  <2> QED
      BY <1>2, <2>2 DEF DeleteUrl, TypeOK
<1>3. ASSUME NEW e \in Events, Count(e) PROVE TypeOK'
  <2>1. clickCount' \in [Urls -> Nat]
      BY <1>3 DEF Count, TypeOK
  <2>2. served' \in [Events -> Urls \cup {NoUrl}]
      BY <1>3 DEF Count, TypeOK
  <2> QED
      BY <1>3, <2>1, <2>2 DEF Count, TypeOK
<1>4. ASSUME NEW e \in Events, Publish(e) PROVE TypeOK'
  <2>1. CASE Len(queue) < QueueSize
    <3>1. queue' \in Seq(Events) /\ Len(queue') = Len(queue) + 1 /\ accepted' \in Seq(Events)
      <4>1. queue' = Append(queue, e) /\ accepted' = Append(accepted, e)
          BY <1>4, <2>1 DEF Publish
      <4>2. queue \in Seq(Events) /\ accepted \in Seq(Events)
          BY DEF TypeOK
      <4> QED
          BY <4>1, <4>2, AppendProperties
    <3>2. Len(queue) \in Nat
        BY LenProperties DEF TypeOK
    <3>3. Len(queue') <= QueueSize
        BY <2>1, <3>1, <3>2
    <3> QED
        BY <1>4, <2>1, <3>1, <3>3 DEF Publish, TypeOK
  <2>2. CASE ~(Len(queue) < QueueSize)
      BY <1>4, <2>2 DEF Publish, TypeOK
  <2> QED
      BY <2>1, <2>2
<1>5. ASSUME TakeBatch \/ StopSwallowed PROVE TypeOK'
  <2>1. /\ batch' = SubSeq(queue, 1, BatchLength)
        /\ queue' = SubSeq(queue, BatchLength + 1, Len(queue))
      BY <1>5 DEF TakeBatch, StopSwallowed
  <2>2. batch' \in Seq(Events) /\ queue' \in Seq(Events) /\ Len(queue') = Len(queue) - BatchLength
      BY <2>1, BatchLengthFacts, CutTypes DEF TypeOK
  <2>3. Len(queue') <= QueueSize
      BY <2>2, BatchLengthFacts, LenProperties DEF TypeOK
  <2>4. /\ phase' \in {"serving", "stopping"} /\ pc' = "select"
        /\ UNCHANGED <<db, nextUrl, clickCount, clicks, known, request, code, served, resolved, accepted, fate>>
      BY <1>5 DEF TakeBatch, StopSwallowed, StopRequested, TypeOK
  <2> QED
      BY <2>2, <2>3, <2>4 DEF TypeOK
<1>6. CASE Resolve
    BY <1>6 DEF Resolve, TypeOK
<1>7. CASE Write
  <2>1. pc' \in {"get", "drain", "stopped"}
      BY <1>7 DEF Write, AfterFlush, TypeOK
  <2>2. batch' = <<>> /\ resolved' \in [Codes -> Urls \cup {NoUrl}] /\ batch' \in Seq(Events)
      BY <1>7 DEF Write, EndFlush
  <2>3. UNCHANGED <<db, nextUrl, known, request, code, served, queue, phase, accepted>>
      BY <1>7 DEF Write
  <2>4. CASE Flushed
    <3>1. clicks' \subseteq [event : Events, url : Urls]
        BY <2>4, RowFacts DEF Flushed, TypeOK
    <3>2. \A u \in Urls : Cardinality({row \in Rows : db[code[row.event]] = u}) \in Nat
      <4> SUFFICES ASSUME NEW u \in Urls PROVE Cardinality({row \in Rows : db[code[row.event]] = u}) \in Nat
          OBVIOUS
      <4>1. {row \in Rows : db[code[row.event]] = u} \in SUBSET Rows
          OBVIOUS
      <4>2. IsFiniteSet({row \in Rows : db[code[row.event]] = u})
          BY <4>1, RowFacts, FS_Subset
      <4> QED
          BY <4>2, FS_CardinalityType
    <3>3. clickCount' \in [Urls -> Nat]
      <4> DEFINE n(u) == Cardinality({row \in Rows : db[code[row.event]] = u})
      <4>1. clickCount' = [u \in Urls |-> clickCount[u] + n(u)] /\ \A u \in Urls : n(u) \in Nat
          BY <2>4, <3>2 DEF Flushed
      <4>2. clickCount \in [Urls -> Nat]
          BY DEF TypeOK
      <4> HIDE DEF n
      <4> QED
          BY <4>1, <4>2
    <3>4. fate' \in [Events -> Fates]
      <4>1. ToSet(batch) \ {row.event : row \in Rows} \subseteq Events
          BY EventTypes
      <4> QED
          BY <2>4, <4>1, MarkFacts DEF Flushed, Fates
    <3> QED
        BY <2>1, <2>2, <2>3, <3>1, <3>3, <3>4 DEF TypeOK
  <2>5. CASE RolledBack
    <3>1. fate' \in [Events -> Fates]
        BY <2>5, EventTypes, MarkFacts DEF RolledBack, Fates
    <3> QED
        BY <2>1, <2>2, <2>3, <2>5, <3>1 DEF RolledBack, TypeOK
  <2> QED
      BY <1>7, <2>4, <2>5 DEF Write
<1>8. CASE FlushFails
  <2>1. fate' \in [Events -> Fates]
      BY <1>8, EventTypes, MarkFacts DEF FlushFails, RolledBack, Fates
  <2>2. pc' \in {"get", "drain", "stopped", "backoff"}
      BY <1>8 DEF FlushFails, AfterFlush, TypeOK
  <2> QED
      BY <1>8, <2>1, <2>2 DEF FlushFails, RolledBack, EndFlush, TypeOK
<1>9. CASE Wake
    BY <1>9 DEF Wake, AfterFlush, TypeOK
<1>10. CASE Drain
    BY <1>10 DEF Drain, TypeOK
<1>11. CASE StopCancels
  <2>1. fate' \in [Events -> Fates]
      BY <1>11, EventTypes, MarkFacts DEF StopCancels, Fates
  <2> QED
      BY <1>11, <2>1 DEF StopCancels, StopRequested, EndFlush, TypeOK
<1>12. CASE Crash
  <2>1. fate' \in [Events -> Fates]
      BY <1>12, EventTypes, MarkFacts DEF Crash, Fates
  <2> QED
      BY <1>12, <2>1 DEF Crash, EndFlush, TypeOK
<1>13. CASE UNCHANGED vars
    BY <1>13 DEF vars, TypeOK
<1> QED
    BY <1>1, <1>2, <1>3, <1>4, <1>5, <1>6, <1>7, <1>8, <1>9, <1>10, <1>11, <1>12, <1>13
    DEF Next, Worker

LEMMA TypeInit == Init => TypeOK
BY DEF Init, TypeOK, Urls, Fates

(* The state keeps its types; in particular the bus never holds more events*)
(* than its maxsize, however many redirects publish at once.               *)
THEOREM PipelineTypeCorrect == Spec => []TypeOK
  BY TypeInit, TypeStep, PTL DEF Spec

-----------------------------------------------------------------------------
(* The inductive invariant                                                 *)

(* Where the worker can be in each phase, and with what in its hands       *)
Places ==
    /\ pc \in {"get", "backoff", "drain", "stopped"} => batch = <<>>
    /\ phase = "serving" => pc \in {"get", "select", "write", "backoff"}
    /\ phase = "stopping" => pc \in {"select", "write", "backoff", "drain"}
    /\ phase = "draining" => pc \in {"select", "write", "stopped"} /\ queue = <<>>
    /\ phase # "serving" => \A e \in Events : request[e] # "counted"
    /\ phase # "draining" => Len(batch) <= BatchSize

Settled == {row.event : row \in clicks}
Waiting == ToSet(batch) \cup ToSet(queue)

(* The ledger: every accepted event, and no other, is waiting in one place,*)
(* or has one row, or was given up.                                        *)
Ledger ==
    /\ ToSet(accepted) = Waiting \cup Settled \cup Given
    /\ Waiting \cap Settled = {} /\ Waiting \cap Given = {} /\ Settled \cap Given = {}
    /\ ToSet(batch) \cap ToSet(queue) = {} /\ Distinct(queue)
    /\ OneRowEach(clicks)
    /\ \A e \in ToSet(accepted) : request[e] = "published"

(* Only one batch is ever cancelled.                                       *)
CancelledOnce ==
    /\ phase = "serving" => Cancelled = {}
    /\ Cardinality(Cancelled) <= BatchSize

PipelineInv == TypeOK /\ Places /\ Fifo /\ Ledger /\ CancelledOnce

-----------------------------------------------------------------------------
(* Places and cancellations                                                *)

LEMMA PlacesStep == TypeOK /\ Places /\ [Next]_vars => Places'
<1> SUFFICES ASSUME TypeOK, Places, [Next]_vars PROVE Places'
    OBVIOUS
<1> USE DEF database, handlers, worker, Places
<1>1. ASSUME NEW c \in Codes, CreateUrl(c) PROVE Places'
    BY <1>1 DEF CreateUrl
<1>2. ASSUME NEW c \in Codes, DeleteUrl(c) PROVE Places'
    BY <1>2 DEF DeleteUrl
<1>3. ASSUME NEW e \in Events, Count(e) PROVE Places'
    BY <1>3 DEF Count, TypeOK
<1>4. ASSUME NEW e \in Events, Publish(e) PROVE Places'
  <2>1. phase = "serving"
      BY <1>4 DEF Publish, TypeOK
  <2> QED
      BY <1>4, <2>1 DEF Publish
<1>5. ASSUME TakeBatch \/ StopSwallowed PROVE Places'
  <2>1. /\ batch' = SubSeq(queue, 1, BatchLength) /\ pc' = "select"
        /\ phase' \in {"serving", "stopping"} /\ request' = request
        /\ phase' # "serving" => \A e \in Events : request[e] # "counted"
      BY <1>5 DEF TakeBatch, StopSwallowed, StopRequested
  <2>2. Len(batch') <= BatchSize
      BY <2>1, BatchLengthFacts, CutTypes DEF TypeOK
  <2> QED
      BY <2>1, <2>2
<1>6. CASE Resolve
    BY <1>6 DEF Resolve
<1>7. CASE Write \/ FlushFails
  <2>1. batch' = <<>> /\ Len(batch') <= BatchSize
    <3>1. batch' = <<>>
        BY <1>7 DEF Write, FlushFails, EndFlush
    <3> QED
        BY <3>1
  <2>2. /\ phase = "serving" => pc' \in {"get", "backoff"}
        /\ phase = "stopping" => pc' \in {"drain", "backoff"}
        /\ phase = "draining" => pc' = "stopped"
      BY <1>7 DEF Write, FlushFails, AfterFlush
  <2>3. UNCHANGED <<phase, queue, request>> /\ phase \in {"serving", "stopping", "draining"}
      BY <1>7 DEF Write, FlushFails, TypeOK
  <2> QED
      BY <2>1, <2>2, <2>3
<1>8. CASE Wake
    BY <1>8 DEF Wake, AfterFlush, TypeOK
<1>9. CASE Drain
    BY <1>9, ToSetEmpty DEF Drain
<1>10. CASE StopCancels
    BY <1>10 DEF StopCancels, StopRequested, EndFlush
<1>11. CASE Crash
    BY <1>11 DEF Crash, EndFlush
<1>12. CASE UNCHANGED vars
    BY <1>12 DEF vars
<1> QED
    BY <1>1, <1>2, <1>3, <1>4, <1>5, <1>6, <1>7, <1>8, <1>9, <1>10, <1>11, <1>12 DEF Next, Worker

(* A sequence has no more elements than places.                            *)
LEMMA ElementsBounded ==
    ASSUME NEW s \in Seq(Events) PROVE Cardinality(ToSet(s)) <= Len(s)
<1>1. s \in [1..Len(s) -> ToSet(s)] /\ ToSet(s) = {s[i] : i \in 1..Len(s)} /\ Len(s) \in Nat
    BY LenProperties, ToSetElements
<1>2. s \in Surjection(1..Len(s), ToSet(s))
    BY <1>1 DEF Surjection
<1> QED
    BY <1>1, <1>2, FS_SurjCardinalityBound DEF ExistsSurjection

LEMMA CancelledStep == TypeOK /\ Places /\ CancelledOnce /\ [Next]_vars => CancelledOnce'
<1> SUFFICES ASSUME TypeOK, Places, CancelledOnce, [Next]_vars PROVE CancelledOnce'
    OBVIOUS
<1> USE DEF database, handlers, worker
<1>1. ASSUME Cancelled' \subseteq Cancelled, phase' = "serving" => phase = "serving" PROVE CancelledOnce'
  <2>1. IsFiniteSet(Cancelled)
      BY FS_Subset DEF Cancelled
  <2>2. IsFiniteSet(Cancelled') /\ Cardinality(Cancelled') <= Cardinality(Cancelled)
      BY <1>1, <2>1, FS_Subset
  <2>3. Cardinality(Cancelled') \in Nat /\ Cardinality(Cancelled) \in Nat
      BY <2>1, <2>2, FS_CardinalityType
  <2> QED
      BY <1>1, <2>2, <2>3 DEF CancelledOnce
<1>2. CASE StopCancels
  <2>1. phase = "serving" /\ phase' = "stopping" /\ Mark(ToSet(batch), "cancelled")
      BY <1>2 DEF StopCancels, StopRequested
  <2>2. Cancelled' = ToSet(batch)
    <3>1. "cancelled" \in Fates \ {"none"} /\ ToSet(batch) \subseteq Events
        BY EventTypes DEF Fates
    <3>2. Cancelled' = Cancelled \cup ToSet(batch)
        BY <2>1, <3>1, MarkFacts
    <3> QED
        BY <2>1, <3>2 DEF CancelledOnce
  <2>3. Len(batch) <= BatchSize /\ Len(batch) \in Nat
      BY <2>1, LenProperties DEF Places, TypeOK
  <2>4. Cardinality(ToSet(batch)) <= Len(batch) /\ Cardinality(ToSet(batch)) \in Nat
    <3>1. IsFiniteSet(ToSet(batch))
        BY EventTypes, FS_Subset
    <3> QED
        BY <3>1, FS_CardinalityType, ElementsBounded DEF TypeOK
  <2> QED
      BY <2>1, <2>2, <2>3, <2>4 DEF CancelledOnce
<1>3. ASSUME NEW c \in Codes, DeleteUrl(c) PROVE CancelledOnce'
  <2>1. {row.event : row \in clicks \ clicks'} \subseteq Events
      BY DEF TypeOK
  <2>2. "cascaded" \in Fates \ {"none", "cancelled"}
      BY DEF Fates
  <2>3. Mark({row.event : row \in clicks \ clicks'}, "cascaded") /\ phase' = phase
      BY <1>3 DEF DeleteUrl
  <2>4. Cancelled' \subseteq Cancelled
      BY <2>1, <2>2, <2>3, MarkFacts
  <2> QED
      BY <1>1, <2>3, <2>4
<1>4. CASE Write \/ FlushFails
  <2>1. Cancelled' \subseteq Cancelled
    <3>1. \E E \in SUBSET Events : Mark(E, "unresolved") \/ Mark(E, "rolled_back")
        BY <1>4, EventTypes DEF Write, FlushFails, Flushed, RolledBack
    <3>2. {"unresolved", "rolled_back"} \subseteq Fates \ {"none", "cancelled"}
        BY DEF Fates
    <3>3. PICK E \in SUBSET Events : Mark(E, "unresolved") \/ Mark(E, "rolled_back")
        BY <3>1
    <3>4. CASE Mark(E, "unresolved")
      <4>1. Cancelled' = Cancelled \ E
          BY <3>2, <3>4, MarkFacts
      <4> QED
          BY <4>1
    <3>5. CASE Mark(E, "rolled_back")
      <4>1. Cancelled' = Cancelled \ E
          BY <3>2, <3>5, MarkFacts
      <4> QED
          BY <4>1
    <3> QED
        BY <3>3, <3>4, <3>5
  <2> QED
      BY <1>1, <1>4, <2>1 DEF Write, FlushFails
<1>5. CASE Crash
  <2>1. Cancelled' \subseteq Cancelled
    <3>1. ToSet(batch) \cup ToSet(queue) \subseteq Events /\ "crashed" \in Fates \ {"none", "cancelled"}
        BY EventTypes DEF Fates
    <3>2. Mark(ToSet(batch) \cup ToSet(queue), "crashed")
        BY <1>5 DEF Crash
    <3>3. PICK E \in SUBSET Events : Mark(E, "crashed")
        BY <3>1, <3>2
    <3>4. Cancelled' = Cancelled \ E
        BY <3>1, <3>3, MarkFacts
    <3> QED
        BY <3>4
  <2> QED
      BY <1>1, <1>5, <2>1 DEF Crash
<1>6. ASSUME UNCHANGED fate, phase' = "serving" => phase = "serving" PROVE CancelledOnce'
    BY <1>1, <1>6 DEF Cancelled
<1>7. ASSUME NEW c \in Codes, CreateUrl(c) PROVE CancelledOnce'
    BY <1>6, <1>7 DEF CreateUrl
<1>8. ASSUME NEW e \in Events, Count(e) \/ Publish(e) PROVE CancelledOnce'
    BY <1>6, <1>8 DEF Count, Publish
<1>9. CASE TakeBatch \/ Resolve \/ Wake \/ Drain \/ StopSwallowed
    BY <1>6, <1>9 DEF TakeBatch, Resolve, Wake, Drain, StopSwallowed, StopRequested
<1>10. CASE UNCHANGED vars
    BY <1>6, <1>10 DEF vars
<1> QED
    BY <1>2, <1>3, <1>4, <1>5, <1>7, <1>8, <1>9, <1>10 DEF Next, Worker

-----------------------------------------------------------------------------
(* The ledger and the order of the events, by what a step does to them     *)

LEMMA SeqFacts ==
    ASSUME TypeOK
    PROVE  batch \in Seq(Events) /\ queue \in Seq(Events) /\ accepted \in Seq(Events)
BY DEF TypeOK

(* Nothing happens to the events.                                          *)
LEMMA EventsAlone ==
    ASSUME PipelineInv, UNCHANGED <<queue, batch, clicks, fate, accepted>>,
           \A e \in Events : request[e] = "published" => request'[e] = "published"
    PROVE  Fifo' /\ Ledger'
<1>1. Fifo'
    BY DEF PipelineInv, Fifo
<1>2. Waiting' = Waiting /\ Settled' = Settled /\ Given' = Given /\ ToSet(accepted)' = ToSet(accepted)
    BY DEF Waiting, Settled, Given
<1>3. \A e \in ToSet(accepted) : request'[e] = "published"
    BY EventTypes DEF PipelineInv, Ledger
<1>4. OneRowEach(clicks)' /\ Distinct(queue)' /\ (ToSet(batch) \cap ToSet(queue))' = {}
    BY DEF PipelineInv, Ledger
<1> QED
    BY <1>1, <1>2, <1>3, <1>4 DEF PipelineInv, Ledger

(* The idle worker takes the first events off the bus.                     *)
LEMMA TakeEvents ==
    ASSUME PipelineInv, NEW n \in 0..Len(queue), batch = <<>>,
           batch' = SubSeq(queue, 1, n), queue' = SubSeq(queue, n + 1, Len(queue)),
           UNCHANGED <<clicks, fate, accepted, request>>
    PROVE  Fifo' /\ Ledger'
<1>1. queue \in Seq(Events) /\ Distinct(queue)
    BY DEF PipelineInv, TypeOK, Ledger
<1>2. /\ batch' \in Seq(Events) /\ queue' \in Seq(Events)
      /\ Len(queue') = Len(queue) - n
      /\ batch' \o queue' = queue
      /\ ToSet(batch') \cap ToSet(queue') = {} /\ Distinct(queue')
    BY <1>1, Cut
<1>3. batch \o queue = queue
    BY <1>1, ConcatEmptySeq
<1>4. Fifo'
  <2>1. Len(queue') <= QueueSize
      BY <1>1, <1>2, LenProperties DEF PipelineInv, TypeOK
  <2> QED
      BY <2>1, <1>2, <1>3 DEF PipelineInv, Fifo
<1>5. Waiting' = Waiting
  <2>1. ToSet(batch') \cup ToSet(queue') = ToSet(queue)
    <3>1. \A s, t \in Seq(Events) : ToSet(s \o t) = ToSet(s) \cup ToSet(t)
        BY ToSetConcat
    <3> QED
        BY <3>1, <1>2
  <2> QED
      BY <2>1, ToSetEmpty DEF Waiting
<1>6. Settled' = Settled /\ Given' = Given
    BY DEF Settled, Given
<1> QED
    BY <1>2, <1>4, <1>5, <1>6 DEF PipelineInv, Ledger

(* The batch leaves the worker's hands, with or without rows.              *)
LEMMA BatchLeaves ==
    ASSUME PipelineInv, batch' = <<>>, queue' = queue, UNCHANGED accepted
    PROVE  /\ Fifo'
           /\ Waiting' = Waiting \ ToSet(batch) /\ ToSet(batch) \subseteq Waiting
           /\ (ToSet(batch) \cap ToSet(queue))' = {} /\ Distinct(queue)'
<1>1. batch \in Seq(Events) /\ queue \in Seq(Events) /\ accepted \in Seq(Events)
    BY SeqFacts DEF PipelineInv
<1>2. IsSuffix(queue, accepted)
    BY <1>1, SuffixTail DEF PipelineInv, Fifo
<1>3. batch' \o queue' = queue
    BY <1>1, ConcatEmptySeq
<1>4. Fifo'
    BY <1>2, <1>3 DEF PipelineInv, Fifo
<1> QED
    BY <1>4, ToSetEmpty DEF PipelineInv, Ledger, Waiting

(* The batch is given up.                                                  *)
LEMMA BatchGivenUp ==
    ASSUME PipelineInv, NEW f \in Fates \ {"none"}, Mark(ToSet(batch), f),
           batch' = <<>>, queue' = queue, UNCHANGED <<clicks, accepted, request>>
    PROVE  Fifo' /\ Ledger'
<1>1. Given' = Given \cup ToSet(batch) /\ Settled' = Settled
  <2>1. ToSet(batch) \subseteq Events
      BY EventTypes DEF PipelineInv
  <2> QED
      BY <2>1, MarkFacts DEF PipelineInv, Settled
<1>2. /\ Fifo'
      /\ Waiting' = Waiting \ ToSet(batch) /\ ToSet(batch) \subseteq Waiting
      /\ (ToSet(batch) \cap ToSet(queue))' = {} /\ Distinct(queue)'
    BY BatchLeaves
<1> QED
    BY <1>1, <1>2 DEF PipelineInv, Ledger

(* The batch is written: a row for each event that has a URL.              *)
LEMMA BatchWritten ==
    ASSUME PipelineInv, Flushed,
           batch' = <<>>, queue' = queue, UNCHANGED <<accepted, request>>
    PROVE  Fifo' /\ Ledger'
<1> DEFINE written == {row.event : row \in Rows}
<1>1. /\ Rows \subseteq [event : Events, url : Urls] /\ OneRowEach(Rows)
      /\ \A r \in Rows : r.event \in ToSet(batch)
    BY RowFacts DEF PipelineInv
<1>2. written \subseteq ToSet(batch) /\ ToSet(batch) \subseteq Events
    BY <1>1, EventTypes DEF PipelineInv
<1>3. Given' = Given \cup (ToSet(batch) \ written)
  <2>1. "unresolved" \in Fates \ {"none"} /\ ToSet(batch) \ written \subseteq Events
      BY <1>2 DEF Fates
  <2>2. Mark(ToSet(batch) \ written, "unresolved")
      BY DEF Flushed
  <2> HIDE DEF written
  <2> DEFINE E == ToSet(batch) \ written
  <2>3. E \subseteq Events /\ Mark(E, "unresolved")
      BY <2>1, <2>2
  <2> HIDE DEF E
  <2>4. Given' = Given \cup E
      BY <2>1, <2>3, MarkFacts DEF PipelineInv
  <2> QED
      BY <2>4 DEF E
<1>4. Settled' = Settled \cup written
    BY DEF Settled, Flushed
<1>5. OneRowEach(clicks)'
  <2>1. \A r \in clicks : r.event \in Settled
      BY DEF Settled
  <2>2. \A r \in Rows : r.event \notin Settled
      BY <1>1 DEF PipelineInv, Ledger, Waiting
  <2> QED
      BY <1>1, <2>1, <2>2 DEF OneRowEach, Flushed, PipelineInv, Ledger
<1>6. /\ Fifo'
      /\ Waiting' = Waiting \ ToSet(batch) /\ ToSet(batch) \subseteq Waiting
      /\ (ToSet(batch) \cap ToSet(queue))' = {} /\ Distinct(queue)'
    BY BatchLeaves
<1> HIDE DEF written
<1> QED
    BY <1>2, <1>3, <1>4, <1>5, <1>6 DEF PipelineInv, Ledger

LEMMA CrashEvents ==
    ASSUME PipelineInv, Crash PROVE Fifo' /\ Ledger'
<1> DEFINE all == ToSet(batch) \cup ToSet(queue)
<1>1. batch \in Seq(Events) /\ queue \in Seq(Events) /\ accepted \in Seq(Events)
    BY SeqFacts DEF PipelineInv
<1>2. /\ batch' = <<>> /\ queue' = <<>> /\ Mark(all, "crashed") /\ UNCHANGED <<clicks, accepted>>
      /\ \A e \in Events : request[e] = "published" => request'[e] = "published"
    BY DEF Crash, EndFlush, database
<1>3. Fifo'
  <2>1. batch \o queue \in Seq(Events) /\ <<>> \in Seq(Events) /\ (batch \o queue) \o <<>> = batch \o queue
      BY <1>1, ConcatProperties, ConcatEmptySeq
  <2>2. IsSuffix(<<>>, accepted)
    <3> DEFINE all2 == batch \o queue
    <3>1. IsSuffix(all2 \o <<>>, accepted) /\ all2 \in Seq(Events)
        BY <2>1 DEF PipelineInv, Fifo
    <3> HIDE DEF all2
    <3> QED
        BY <3>1, <2>1, <1>1, SuffixTail
  <2>3. batch' \o queue' = <<>> /\ Len(queue') <= QueueSize
      BY <1>2, <2>1, ConcatEmptySeq
  <2> QED
      BY <1>2, <2>2, <2>3 DEF Fifo
<1>4. Given' = Given \cup all
  <2>1. all \subseteq Events /\ "crashed" \in Fates \ {"none"}
      BY EventTypes DEF PipelineInv, Fates
  <2>2. Mark(all, "crashed")
      BY <1>2
  <2> HIDE DEF all
  <2> QED
      BY <2>1, <2>2, MarkFacts DEF PipelineInv
<1>5. Settled' = Settled /\ Waiting' = {} /\ all = Waiting
    BY <1>2, ToSetEmpty DEF Settled, Waiting
<1>6. \A e \in ToSet(accepted) : request'[e] = "published"
    BY <1>2, EventTypes DEF PipelineInv, Ledger
<1>7. Distinct(queue)' /\ OneRowEach(clicks)' /\ (ToSet(batch) \cap ToSet(queue))' = {}
    BY <1>2, ToSetEmpty DEF Distinct, PipelineInv, Ledger
<1> HIDE DEF all
<1> QED
    BY <1>2, <1>3, <1>4, <1>5, <1>6, <1>7 DEF PipelineInv, Ledger

LEMMA PublishEvents ==
    ASSUME PipelineInv, NEW e \in Events, Publish(e), Len(queue) < QueueSize
    PROVE  Fifo' /\ Ledger'
<1>1. batch \in Seq(Events) /\ queue \in Seq(Events) /\ accepted \in Seq(Events)
    BY SeqFacts DEF PipelineInv
<1>2. /\ queue' = Append(queue, e) /\ accepted' = Append(accepted, e)
      /\ request[e] = "counted" /\ request' = [request EXCEPT ![e] = "published"]
      /\ UNCHANGED <<batch, clicks, fate>>
    BY DEF Publish, database, worker
<1>3. e \notin ToSet(accepted)
    BY <1>2 DEF PipelineInv, Ledger
<1>4. /\ ToSet(queue') = ToSet(queue) \cup {e} /\ ToSet(accepted') = ToSet(accepted) \cup {e}
      /\ Distinct(queue')
  <2>1. Distinct(queue) /\ e \notin ToSet(queue)
      BY <1>3 DEF PipelineInv, Ledger, Waiting
  <2> QED
      BY <1>1, <1>2, <2>1, AppendFacts
<1>5. Fifo'
  <2>1. IsSuffix(batch \o Append(queue, e), Append(accepted, e))
      BY <1>1, SuffixAppend DEF PipelineInv, Fifo
  <2>2. Len(queue') <= QueueSize
      BY <1>1, <1>2, AppendProperties, LenProperties
  <2> QED
      BY <1>2, <2>1, <2>2 DEF Fifo
<1>6. Waiting' = Waiting \cup {e} /\ Settled' = Settled /\ Given' = Given
    BY <1>2, <1>4 DEF Waiting, Settled, Given
<1>7. \A x \in ToSet(accepted) \cup {e} : request'[x] = "published"
    BY <1>2, EventTypes DEF PipelineInv, TypeOK, Ledger
<1>8. (ToSet(batch) \cap ToSet(queue))' = {} /\ OneRowEach(clicks)'
    BY <1>2, <1>3, <1>4 DEF PipelineInv, Ledger, Waiting
<1> QED
    BY <1>2, <1>3, <1>4, <1>5, <1>6, <1>7, <1>8 DEF PipelineInv, Ledger

(* The rows of a deleted URL are deleted with it.                          *)
LEMMA CascadeEvents ==
    ASSUME PipelineInv, NEW c \in Codes, DeleteUrl(c) PROVE Fifo' /\ Ledger'
<1> DEFINE gone == {row.event : row \in clicks \ clicks'}
<1>1. clicks' \subseteq clicks /\ UNCHANGED <<queue, batch, accepted, request>>
    BY DEF DeleteUrl, handlers, worker
<1>2. Settled' = Settled \ gone /\ gone \subseteq Settled
    BY <1>1 DEF Settled, PipelineInv, Ledger, OneRowEach
<1>3. Given' = Given \cup gone
  <2>1. gone \subseteq Events /\ Mark(gone, "cascaded")
      BY DEF DeleteUrl, PipelineInv, TypeOK
  <2>2. "cascaded" \in Fates \ {"none"}
      BY DEF Fates
  <2> HIDE DEF gone
  <2> QED
      BY <2>1, <2>2, MarkFacts DEF PipelineInv
<1> HIDE DEF gone
<1>4. Fifo' /\ Waiting' = Waiting
    BY <1>1 DEF PipelineInv, Fifo, Waiting
<1>5. OneRowEach(clicks)'
    BY <1>1 DEF OneRowEach, PipelineInv, Ledger
<1> QED
    BY <1>1, <1>2, <1>3, <1>4, <1>5 DEF PipelineInv, Ledger

-----------------------------------------------------------------------------
(* Every step keeps the order and the ledger.                              *)

LEMMA EventsStep == PipelineInv /\ [Next]_vars => Fifo' /\ Ledger'
<1> SUFFICES ASSUME PipelineInv, [Next]_vars PROVE Fifo' /\ Ledger'
    OBVIOUS
<1> USE DEF database, handlers, worker
<1>1. ASSUME NEW c \in Codes, CreateUrl(c) PROVE Fifo' /\ Ledger'
    BY <1>1, EventsAlone DEF CreateUrl
<1>2. ASSUME NEW c \in Codes, DeleteUrl(c) PROVE Fifo' /\ Ledger'
    BY <1>2, CascadeEvents
<1>3. ASSUME NEW e \in Events, Count(e) PROVE Fifo' /\ Ledger'
  <2>1. \A x \in Events : request[x] = "published" => request'[x] = "published"
      BY <1>3 DEF Count, PipelineInv, TypeOK
  <2> QED
      BY <1>3, <2>1, EventsAlone DEF Count
<1>4. ASSUME NEW e \in Events, Publish(e) PROVE Fifo' /\ Ledger'
  <2>1. CASE Len(queue) < QueueSize
      BY <1>4, <2>1, PublishEvents
  <2>2. CASE ~(Len(queue) < QueueSize)
    <3>1. \A x \in Events : request[x] = "published" => request'[x] = "published"
        BY <1>4, <2>2 DEF Publish, PipelineInv, TypeOK
    <3> QED
        BY <1>4, <2>2, <3>1, EventsAlone DEF Publish
  <2> QED
      BY <2>1, <2>2
<1>5. ASSUME TakeBatch \/ StopSwallowed PROVE Fifo' /\ Ledger'
  <2>1. /\ pc = "get"
        /\ batch' = SubSeq(queue, 1, BatchLength)
        /\ queue' = SubSeq(queue, BatchLength + 1, Len(queue))
        /\ UNCHANGED <<clicks, fate, accepted, request>>
      BY <1>5 DEF TakeBatch, StopSwallowed, StopRequested
  <2>2. batch = <<>> /\ BatchLength \in 0..Len(queue)
      BY <2>1, BatchLengthFacts DEF PipelineInv, Places
  <2> QED
      BY <2>1, <2>2, TakeEvents
<1>6. CASE Resolve
    BY <1>6, EventsAlone DEF Resolve
<1>7. CASE Write
  <2>1. batch' = <<>> /\ queue' = queue /\ UNCHANGED <<accepted, request>>
      BY <1>7 DEF Write, EndFlush
  <2>2. CASE Flushed
      BY <2>1, <2>2, BatchWritten
  <2>3. CASE RolledBack
    <3>1. Mark(ToSet(batch), "rolled_back") /\ UNCHANGED clicks /\ "rolled_back" \in Fates \ {"none"}
        BY <2>3 DEF RolledBack, Fates
    <3> QED
        BY <2>1, <3>1, BatchGivenUp
  <2> QED
      BY <1>7, <2>2, <2>3 DEF Write
<1>8. CASE FlushFails
  <2>1. /\ batch' = <<>> /\ queue' = queue /\ UNCHANGED <<clicks, accepted, request>>
        /\ Mark(ToSet(batch), "rolled_back") /\ "rolled_back" \in Fates \ {"none"}
      BY <1>8 DEF FlushFails, RolledBack, EndFlush, Fates
  <2> QED
      BY <2>1, BatchGivenUp
<1>9. CASE Wake
    BY <1>9, EventsAlone DEF Wake
<1>10. CASE Drain
  <2>1. queue \in Seq(Events) /\ batch = <<>>
      BY <1>10 DEF Drain, PipelineInv, TypeOK, Places
  <2>2. Len(queue) \in 0..Len(queue) /\ Len(queue) \in Nat
      BY <2>1, LenProperties
  <2>3. SubSeq(queue, 1, Len(queue)) = queue /\ SubSeq(queue, Len(queue) + 1, Len(queue)) = <<>>
      BY <2>1, <2>2, SubSeqFull, SubSeqEmpty
  <2>4. batch' = queue /\ queue' = <<>> /\ UNCHANGED <<clicks, fate, accepted, request>>
      BY <1>10 DEF Drain
  <2> QED
      BY <2>1, <2>2, <2>3, <2>4, TakeEvents
<1>11. CASE StopCancels
  <2>1. /\ batch' = <<>> /\ queue' = queue /\ UNCHANGED <<clicks, accepted, request>>
        /\ Mark(ToSet(batch), "cancelled") /\ "cancelled" \in Fates \ {"none"}
      BY <1>11 DEF StopCancels, StopRequested, EndFlush, Fates
  <2> QED
      BY <2>1, BatchGivenUp
<1>12. CASE Crash
    BY <1>12, CrashEvents
<1>13. CASE UNCHANGED vars
    BY <1>13, EventsAlone DEF vars
<1> QED
    BY <1>1, <1>2, <1>3, <1>4, <1>5, <1>6, <1>7, <1>8, <1>9, <1>10, <1>11, <1>12, <1>13
    DEF Next, Worker

LEMMA InitPipeline == Init => PipelineInv
<1> SUFFICES ASSUME Init PROVE PipelineInv
    OBVIOUS
<1>1. batch = <<>> /\ queue = <<>> /\ accepted = <<>> /\ clicks = {} /\ \A e \in Events : fate[e] = "none"
    BY DEF Init
<1>2. Fifo
  <2>1. <<>> \in Seq(Events) /\ <<>> \o <<>> = <<>> /\ Len(<<>>) = 0
      OBVIOUS
  <2>2. queue \in Seq(Events) /\ accepted \in Seq(Events) /\ Len(queue) = 0 /\ Len(accepted) = 0
      BY <1>1, <2>1
  <2>3. IsSuffix(queue, accepted)
    <3>1. /\ Len(queue) <= Len(accepted)
          /\ \A i \in 1..Len(queue) : queue[i] = accepted[Len(accepted) - Len(queue) + i]
        BY <2>2
    <3> QED
        BY <2>2, <3>1, SuffixPlaces
  <2>4. batch \o queue = queue /\ Len(queue) <= QueueSize
      BY <1>1, <2>1, <2>2
  <2> QED
      BY <2>3, <2>4 DEF Fifo
<1>3. Ledger
    BY <1>1, ToSetEmpty DEF Ledger, Waiting, Settled, Given, OneRowEach, Distinct
<1>4. CancelledOnce
  <2>1. Cancelled = {} /\ Cardinality({}) = 0
      BY <1>1, FS_EmptySet DEF Cancelled
  <2> QED
      BY <2>1 DEF CancelledOnce
<1>5. Places
    BY DEF Init, Places
<1> QED
    BY <1>2, <1>3, <1>4, <1>5, TypeInit DEF PipelineInv

(* The inductive invariant of the pipeline: types, the order of the bus,   *)
(* the place of every event, and the one batch a stop may cancel.          *)
THEOREM PipelineInductive == Spec => []PipelineInv
<1>1. PipelineInv /\ [Next]_vars => PipelineInv'
    BY TypeStep, PlacesStep, CancelledStep, EventsStep DEF PipelineInv
<1> QED
    BY InitPipeline, <1>1, PTL DEF Spec

(* The worker meets the events in the order in which they were published,  *)
(* none twice, none left out, whatever the size of the bus and the batches.*)
THEOREM EventsStayInOrder == Spec => []Fifo
<1>1. PipelineInv => Fifo
    BY DEF PipelineInv
<1> QED
    BY <1>1, PipelineInductive, PTL

(* Every accepted event is waiting, or has exactly one row, or was given up*)
(* for one reason: nothing is written twice, nothing gets lost unnoticed.  *)
THEOREM EventsAreAccounted == Spec => []EventLedger
<1>1. PipelineInv => EventLedger
  <2> SUFFICES ASSUME PipelineInv, NEW e \in ToSet(accepted)
               PROVE  Cardinality({row \in clicks : row.event = e})
                        + (IF e \in ToSet(batch \o queue) THEN 1 ELSE 0)
                        + (IF fate[e] # "none" THEN 1 ELSE 0) = 1
      BY DEF EventLedger
  <2> DEFINE rows == {row \in clicks : row.event = e}
  <2>1. ToSet(batch \o queue) = Waiting
      BY SeqFacts, ToSetConcat DEF PipelineInv, Waiting
  <2>2. e \in Events
      BY EventTypes DEF PipelineInv
  <2>3. CASE e \in Settled
    <3>1. \E row \in clicks : rows = {row}
        BY <2>3 DEF Settled, PipelineInv, Ledger, OneRowEach
    <3>2. Cardinality(rows) = 1
        BY <3>1, FS_Singleton
    <3>3. e \notin Waiting /\ fate[e] = "none"
        BY <2>2, <2>3 DEF PipelineInv, Ledger, Given
    <3> QED
        BY <2>1, <3>2, <3>3
  <2>4. CASE e \notin Settled
    <3>1. rows = {}
        BY <2>4 DEF Settled
    <3>2. Cardinality(rows) = 0
        BY <3>1, FS_EmptySet
    <3>3. (e \in Waiting /\ fate[e] = "none") \/ (e \notin Waiting /\ fate[e] # "none")
        BY <2>2, <2>4 DEF PipelineInv, Ledger, Given
    <3> QED
        BY <2>1, <3>2, <3>3
  <2> QED
      BY <2>3, <2>4
<1> QED
    BY <1>1, PipelineInductive, PTL

(* stop() gives up one batch at most, and leaves nothing on the bus.       *)
THEOREM OneBatchIsCancelled == Spec => []AtMostOneBatchCancelled
<1>1. PipelineInv => AtMostOneBatchCancelled
  <2> SUFFICES ASSUME PipelineInv PROVE AtMostOneBatchCancelled
      OBVIOUS
  <2>1. Cardinality(Cancelled) <= BatchSize
      BY DEF PipelineInv, CancelledOnce
  <2>2. pc = "stopped" => queue = <<>> /\ batch = <<>>
      BY DEF PipelineInv, TypeOK, Places
  <2> QED
      BY <2>1, <2>2 DEF AtMostOneBatchCancelled, Cancelled
<1> QED
    BY <1>1, PipelineInductive, PTL

-----------------------------------------------------------------------------
(* Counts and rows                                                         *)

(* Ids are given out once, and stand for one code each; what a flush has   *)
(* resolved can only be stored under the code it was resolved from.        *)
Ids ==
    /\ \A c \in Codes : db[c] < nextUrl /\ resolved[c] < nextUrl
    /\ \A c, d \in Codes : db[c] # NoUrl /\ db[c] = db[d] => c = d
    /\ \A c, d \in Codes : resolved[c] # NoUrl /\ resolved[c] = db[d] => c = d
    /\ \A e \in Events : served[e] < nextUrl /\ (request[e] = "new" => served[e] = NoUrl)
    /\ \A row \in clicks : row.url < nextUrl
    /\ \A u \in Urls : u >= nextUrl => clickCount[u] = 0

LEMMA IdsStep == PipelineInv /\ Ids /\ [Next]_vars => Ids'
<1> SUFFICES ASSUME PipelineInv, TypeOK, Ids, [Next]_vars PROVE Ids'
    BY DEF PipelineInv
<1> USE DEF database, handlers, worker, Ids
<1>0. \A c \in Codes : db[c] \in Nat /\ resolved[c] \in Nat
    BY DEF TypeOK, Urls, NoUrl
<1>00. nextUrl \in Nat \ {0} /\ \A e \in Events : served[e] \in Nat
    BY DEF TypeOK, Urls, NoUrl
<1>1. ASSUME NEW c \in Codes, CreateUrl(c) PROVE Ids'
  <2>1. /\ db' = [db EXCEPT ![c] = nextUrl] /\ nextUrl' = nextUrl + 1 /\ db[c] = NoUrl
        /\ UNCHANGED <<clickCount, clicks, request, served, resolved>>
      BY <1>1 DEF CreateUrl
  <2>2. \A d \in Codes : db'[d] = IF d = c THEN nextUrl ELSE db[d]
      BY <2>1 DEF TypeOK
  <2>3. \A d \in Codes : db'[d] < nextUrl' /\ resolved'[d] < nextUrl'
      BY <2>1, <2>2, <1>0, <1>00
  <2>4. \A d, f \in Codes : db'[d] # NoUrl /\ db'[d] = db'[f] => d = f
      BY <2>2, <1>0, <1>00
  <2>5. \A d, f \in Codes : resolved'[d] # NoUrl /\ resolved'[d] = db'[f] => d = f
      BY <2>1, <2>2, <1>0, <1>00
  <2>6. \A e \in Events : served'[e] < nextUrl' /\ (request'[e] = "new" => served'[e] = NoUrl)
      BY <2>1, <1>00
  <2>7. \A row \in clicks' : row.url < nextUrl'
      BY <2>1, <1>00 DEF TypeOK, Urls
  <2>8. \A u \in Urls : u >= nextUrl' => clickCount'[u] = 0
      BY <2>1, <1>00 DEF Urls
  <2> QED
      BY <2>3, <2>4, <2>5, <2>6, <2>7, <2>8
<1>2. ASSUME NEW c \in Codes, DeleteUrl(c) PROVE Ids'
  <2>1. /\ db' = [db EXCEPT ![c] = NoUrl] /\ clicks' \subseteq clicks
        /\ UNCHANGED <<nextUrl, clickCount, request, served, resolved>>
      BY <1>2 DEF DeleteUrl
  <2>2. \A d \in Codes : db'[d] = IF d = c THEN NoUrl ELSE db[d]
      BY <2>1 DEF TypeOK
  <2> QED
      BY <2>1, <2>2, <1>00 DEF NoUrl
<1>3. ASSUME NEW e \in Events, Count(e) PROVE Ids'
  <2>1. /\ served' = [served EXCEPT ![e] = db[code[e]]] /\ request' = [request EXCEPT ![e] = "counted"]
        /\ clickCount' = [u \in Urls |-> clickCount[u] + (IF db[code[e]] = u THEN 1 ELSE 0)]
        /\ UNCHANGED <<db, nextUrl, clicks, resolved>>
      BY <1>3 DEF Count
  <2>2. code[e] \in Codes
      BY DEF TypeOK
  <2>3. \A x \in Events : served'[x] < nextUrl' /\ (request'[x] = "new" => served'[x] = NoUrl)
      BY <2>1, <2>2 DEF TypeOK
  <2>4. \A u \in Urls : u >= nextUrl' => clickCount'[u] = 0
    <3>1. \A u \in Urls : u >= nextUrl => db[code[e]] # u
        BY <2>2, <1>0, <1>00 DEF Urls
    <3> QED
        BY <2>1, <3>1
  <2> QED
      BY <2>1, <2>3, <2>4
<1>4. CASE Resolve
  <2>1. /\ \A c \in Codes : resolved'[c] \in {db[c], NoUrl}
        /\ UNCHANGED <<db, nextUrl, clickCount, clicks, request, served>>
      BY <1>4 DEF Resolve
  <2> QED
      BY <2>1, <1>00 DEF NoUrl
<1>5. CASE Write
  <2>1. resolved' = [c \in Codes |-> NoUrl] /\ UNCHANGED <<db, nextUrl, request, served>>
      BY <1>5 DEF Write, EndFlush
  <2>2. CASE Flushed
    <3>1. \A row \in clicks' : row.url < nextUrl
      <4>1. \A row \in Rows : row.url < nextUrl
          BY RowFacts, EventTypes DEF TypeOK
      <4> QED
          BY <2>2, <4>1 DEF Flushed
    <3>2. \A u \in Urls : u >= nextUrl => clickCount'[u] = 0
      <4> SUFFICES ASSUME NEW u \in Urls, u >= nextUrl PROVE clickCount'[u] = 0
          OBVIOUS
      <4>1. {row \in Rows : db[code[row.event]] = u} = {}
        <5>1. \A row \in Rows : code[row.event] \in Codes
            BY RowFacts DEF TypeOK
        <5>2. \A c \in Codes : db[c] # u
            BY <1>0, <1>00 DEF Urls
        <5> QED
            BY <5>1, <5>2
      <4>2. clickCount'[u] = clickCount[u] + 0
          BY <2>2, <4>1, FS_EmptySet DEF Flushed
      <4> QED
          BY <4>2
    <3> QED
        BY <2>1, <3>1, <3>2, <1>00 DEF NoUrl
  <2>3. CASE RolledBack
      BY <2>1, <2>3, <1>00 DEF RolledBack, NoUrl
  <2> QED
      BY <1>5, <2>2, <2>3 DEF Write
<1>6. CASE FlushFails \/ StopCancels \/ Crash
  <2>1. /\ resolved' = [c \in Codes |-> NoUrl] /\ UNCHANGED <<db, nextUrl, clickCount, clicks, served>>
        /\ \A e \in Events : request'[e] = "new" => request[e] = "new"
      BY <1>6 DEF FlushFails, StopCancels, StopRequested, Crash, RolledBack, EndFlush
  <2> QED
      BY <2>1, <1>00 DEF NoUrl
<1>7. ASSUME NEW e \in Events, Publish(e) PROVE Ids'
  <2>1. /\ UNCHANGED <<db, nextUrl, clickCount, clicks, served, resolved>>
        /\ \A x \in Events : request'[x] = "new" => request[x] = "new"
      BY <1>7 DEF Publish, TypeOK
  <2> QED
      BY <2>1
<1>8. CASE TakeBatch \/ StopSwallowed \/ Wake \/ Drain \/ UNCHANGED vars
  <2>1. UNCHANGED <<db, nextUrl, clickCount, clicks, served, resolved, request>>
      BY <1>8 DEF TakeBatch, StopSwallowed, StopRequested, Wake, Drain, vars
  <2> QED
      BY <2>1
<1> QED
    BY <1>1, <1>2, <1>3, <1>4, <1>5, <1>6, <1>7, <1>8 DEF Next, Worker

ServedBy(u) == {e \in Events : served[e] = u}
RowsOf(u) == {row \in clicks : row.url = u}

LEMMA FiniteCounts ==
    ASSUME PipelineInv, NEW u
    PROVE  /\ IsFiniteSet(ServedBy(u)) /\ Cardinality(ServedBy(u)) \in Nat
           /\ IsFiniteSet(RowsOf(u)) /\ Cardinality(RowsOf(u)) \in Nat
<1>1. IsFiniteSet(clicks)
    BY RowsAreFinite DEF PipelineInv, TypeOK, Ledger
<1>2. IsFiniteSet(ServedBy(u)) /\ IsFiniteSet(RowsOf(u))
    BY <1>1, FS_Subset DEF ServedBy, RowsOf
<1> QED
    BY <1>2, FS_CardinalityType

(* The foreign key makes both ways of finding the URL of a row agree: by   *)
(* the id resolved for it, and by its code when the counts are updated.    *)
LEMMA RowsFoundByCode ==
    ASSUME PipelineInv, Ids, \A row \in Rows : Live(row.url), NEW u \in Urls
    PROVE  {row \in Rows : db[code[row.event]] = u} = {row \in Rows : row.url = u}
<1> SUFFICES ASSUME NEW row \in Rows PROVE db[code[row.event]] = row.url
    OBVIOUS
<1>1. PICK d \in Codes : db[d] = row.url
    BY DEF Live
<1>2. row.url \in Urls /\ code[row.event] \in Codes /\ row.url = resolved[code[row.event]]
    BY RowFacts DEF PipelineInv, TypeOK
<1>3. d = code[row.event]
    BY <1>1, <1>2 DEF Ids, Urls, NoUrl
<1> QED
    BY <1>1, <1>3

LEMMA CountsStep == PipelineInv /\ Ids /\ CountsMatchRows /\ [Next]_vars => CountsMatchRows'
<1> SUFFICES ASSUME PipelineInv, TypeOK, Ids, CountsMatchRows, [Next]_vars, NEW u \in Urls, Live(u)'
             PROVE  clickCount'[u] = Cardinality(ServedBy(u)') + Cardinality(RowsOf(u)')
    BY DEF PipelineInv, CountsMatchRows, ServedBy, RowsOf
<1> USE DEF database, handlers, worker
<1>0. Live(u) => clickCount[u] = Cardinality(ServedBy(u)) + Cardinality(RowsOf(u))
    BY DEF CountsMatchRows, ServedBy, RowsOf
<1>1. ASSUME NEW c \in Codes, CreateUrl(c)
      PROVE  clickCount'[u] = Cardinality(ServedBy(u)') + Cardinality(RowsOf(u)')
  <2>1. ServedBy(u)' = ServedBy(u) /\ RowsOf(u)' = RowsOf(u) /\ clickCount' = clickCount
      BY <1>1 DEF CreateUrl, ServedBy, RowsOf
  <2>2. CASE u = nextUrl
    <3>1. nextUrl \in Nat /\ \A e \in Events : served[e] \in Nat
        BY DEF TypeOK, Urls, NoUrl
    <3>2. ServedBy(u) = {} /\ RowsOf(u) = {} /\ clickCount[u] = 0
        BY <2>2, <3>1 DEF Ids, ServedBy, RowsOf, TypeOK, Urls
    <3> QED
        BY <2>1, <3>2, FS_EmptySet
  <2>3. CASE u # nextUrl
    <3>1. Live(u)
        BY <1>1, <2>3 DEF CreateUrl, Live, TypeOK
    <3> QED
        BY <1>0, <2>1, <3>1
  <2> QED
      BY <2>2, <2>3
<1>2. ASSUME NEW c \in Codes, DeleteUrl(c)
      PROVE  clickCount'[u] = Cardinality(ServedBy(u)') + Cardinality(RowsOf(u)')
  <2>1. Live(u) /\ u # db[c]
    <3>1. PICK d \in Codes : db'[d] = u
        BY DEF Live
    <3>2. d # c /\ db[d] = u
        BY <1>2, <3>1 DEF DeleteUrl, TypeOK, Urls, NoUrl
    <3>3. db[d] # db[c]
        BY <3>2 DEF Ids, Urls, NoUrl
    <3> QED
        BY <3>2, <3>3 DEF Live
  <2>2. ServedBy(u)' = ServedBy(u) /\ RowsOf(u)' = RowsOf(u) /\ clickCount' = clickCount
      BY <1>2, <2>1 DEF DeleteUrl, ServedBy, RowsOf
  <2> QED
      BY <1>0, <2>1, <2>2
<1>3. ASSUME NEW e \in Events, Count(e)
      PROVE  clickCount'[u] = Cardinality(ServedBy(u)') + Cardinality(RowsOf(u)')
  <2>1. /\ served' = [served EXCEPT ![e] = db[code[e]]] /\ served[e] = NoUrl
        /\ clickCount' = [v \in Urls |-> clickCount[v] + (IF db[code[e]] = v THEN 1 ELSE 0)]
        /\ Live(u) /\ RowsOf(u)' = RowsOf(u)
      BY <1>3 DEF Count, Ids, Live, RowsOf
  <2>2. CASE u = db[code[e]]
    <3>1. ServedBy(u)' = ServedBy(u) \cup {e} /\ e \notin ServedBy(u)
        BY <2>1, <2>2 DEF ServedBy, TypeOK, Urls, NoUrl
    <3>2. Cardinality(ServedBy(u)') = Cardinality(ServedBy(u)) + 1
        BY <3>1, FiniteCounts, FS_AddElement
    <3>3. clickCount'[u] = clickCount[u] + 1
        BY <2>1, <2>2 DEF TypeOK
    <3> QED
        BY <1>0, <2>1, <3>2, <3>3, FiniteCounts
  <2>3. CASE u # db[code[e]]
    <3>1. ServedBy(u)' = ServedBy(u) /\ clickCount'[u] = clickCount[u] + 0
        BY <2>1, <2>3 DEF ServedBy, TypeOK, Urls, NoUrl
    <3> QED
        BY <1>0, <2>1, <3>1, FiniteCounts
  <2> QED
      BY <2>2, <2>3
<1>4. ASSUME UNCHANGED <<db, clickCount, clicks, served>>
      PROVE  clickCount'[u] = Cardinality(ServedBy(u)') + Cardinality(RowsOf(u)')
  <2>1. Live(u) /\ ServedBy(u)' = ServedBy(u) /\ RowsOf(u)' = RowsOf(u)
      BY <1>4 DEF Live, ServedBy, RowsOf
  <2> QED
      BY <1>0, <1>4, <2>1
<1>5. CASE Write
  <2>1. CASE RolledBack
      BY <1>4, <1>5, <2>1 DEF Write, RolledBack
  <2>2. CASE Flushed /\ \A row \in Rows : Live(row.url)
    <3> DEFINE new == {row \in Rows : row.url = u}
    <3>1. Live(u) /\ ServedBy(u)' = ServedBy(u)
        BY <1>5 DEF Write, Live, ServedBy
    <3>2. RowsOf(u)' = RowsOf(u) \cup new
        BY <2>2 DEF Flushed, RowsOf
    <3>3. RowsOf(u) \cap new = {}
      <4>1. \A row \in Rows : row.event \in Waiting
          BY RowFacts DEF Waiting
      <4>2. \A row \in clicks : row.event \notin Waiting
          BY DEF PipelineInv, Ledger, Settled
      <4> QED
          BY <4>1, <4>2 DEF RowsOf
    <3>4. IsFiniteSet(new) /\ Cardinality(new) \in Nat
        BY RowFacts, FS_Subset, FS_CardinalityType
    <3>5. Cardinality(RowsOf(u)') = Cardinality(RowsOf(u)) + Cardinality(new)
      <4> HIDE DEF new
      <4>1. Cardinality(RowsOf(u) \cup new) = Cardinality(RowsOf(u)) + Cardinality(new) - Cardinality(RowsOf(u) \cap new)
          BY <3>4, FiniteCounts, FS_Union
      <4>2. Cardinality(RowsOf(u) \cap new) = 0
          BY <3>3, FS_EmptySet
      <4> QED
          BY <3>2, <3>4, <4>1, <4>2, FiniteCounts
    <3>6. clickCount'[u] = clickCount[u] + Cardinality(new)
        BY <2>2, RowsFoundByCode DEF Flushed
    <3> HIDE DEF new
    <3> QED
        BY <1>0, <3>1, <3>4, <3>5, <3>6, FiniteCounts DEF TypeOK
  <2> QED
      BY <1>5, <2>1, <2>2 DEF Write
<1>6. ASSUME NEW e \in Events, Publish(e)
      PROVE  clickCount'[u] = Cardinality(ServedBy(u)') + Cardinality(RowsOf(u)')
    BY <1>4, <1>6 DEF Publish
<1>7. CASE \/ TakeBatch \/ Resolve \/ FlushFails \/ Wake \/ Drain
           \/ StopCancels \/ StopSwallowed \/ Crash \/ UNCHANGED vars
    BY <1>4, <1>7 DEF TakeBatch, Resolve, FlushFails, RolledBack, Wake, Drain, StopCancels, StopSwallowed,
                      StopRequested, Crash, vars
<1> QED
    BY <1>1, <1>2, <1>3, <1>5, <1>6, <1>7 DEF Next, Worker

(* click_count of a stored URL is the number of redirects that incremented *)
(* it plus the number of its rows in clicks, however flushes, deletions and*)
(* re-registrations of its code interleave.                                *)
THEOREM CountsAgreeWithRows == Spec => []CountsMatchRows
<1>1. Init => Ids /\ CountsMatchRows
    BY DEF Init, Ids, CountsMatchRows, Live, Urls, NoUrl
<1>2. PipelineInv /\ (Ids /\ CountsMatchRows) /\ [Next]_vars => (Ids /\ CountsMatchRows)'
    BY IdsStep, CountsStep
<1> QED
    BY <1>1, <1>2, PipelineInductive, PTL DEF Spec

=============================================================================

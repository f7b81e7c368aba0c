-------------------------- MODULE TableReadsProofs --------------------------
(***************************************************************************)
(* What the reads of TableReads can rely on, for any number of rows, codes *)
(* and readers, any page size and any history of commits: the figures of a *)
(* report belong together, and a walk over the pages is wrong about at     *)
(* most as many rows as came or went while it lasted.                      *)
(***************************************************************************)
EXTENDS TableReads, FiniteSetTheorems, WellFoundedInduction, TLAPS

USE ReadsAssumption

-----------------------------------------------------------------------------
(* The inductive invariant: reports                                        *)

(* The clicks of a row are among those its counter has counted.            *)
ClicksInv == \A u \in Urls :
    /\ \A s \in Sources : clicks[u][s] \subseteq 1..clickCount[u]
    /\ recent[u] \subseteq UNION {clicks[u][s] : s \in Sources}

Ranked == {"agents", "done"}

(* What has been read of a report, against the tables as they are now.     *)
ReportOK(q) ==
    /\ pc[q] = "idle" => report[q] = NoReport
    /\ pc[q] \in {"recent", "referrers", "agents"} => reading = "reports"
    /\ reading = "pages" => report[q].url = {}
    /\ \A u, v \in report[q].url : u = v
    /\ \A u \in report[q].url :
        /\ stage[u] \in {"stored", "gone"}
        /\ pc[q] \in {"recent", "referrers", "agents", "done"}
        /\ {report[q].total, report[q].recent, report[q].referrers, report[q].agents}
               \subseteq 0..clickCount[u]
        /\ report[q].start <= report[q].total
        /\ pc[q] \in {"recent", "referrers"} => report[q].referrers = 0 /\ report[q].agents = 0
        /\ u \in Stored =>
            /\ report[q].start <= ClicksFrom(u, Sources)
            /\ report[q].recent <= ClicksFrom(u, Sources)
            /\ pc[q] \in Ranked =>
                /\ report[q].referrers <= ClicksFrom(u, Sources)
                /\ RanksAll(u, ByReferrer) =>
                     report[q].start <= report[q].referrers /\ report[q].recent <= report[q].referrers
            /\ pc[q] = "done" /\ RanksAll(u, ByAgent) =>
                /\ report[q].start <= report[q].agents /\ report[q].recent <= report[q].agents
                /\ report[q].referrers <= report[q].agents

ReportInv == \A q \in Readers : ReportOK(q)

-----------------------------------------------------------------------------
(* The inductive invariant: walks                                          *)

Newer(u) == {v \in Stored : created[v] > created[u]}

(* Rows the walk has passed without seeing them.                           *)
Slipped(q) == {u \in Skipped(q) : Cardinality(Newer(u)) < walk[q].skip}

(* Rows it has seen and will come to again.                                *)
Pending(q) == {u \in Stored :
    Untied(u) /\ walk[q].seen[u] # {} /\ Cardinality(Newer(u)) >= walk[q].skip}

Came(u) == stage[u] \in {"stored", "gone"}

(* A walk has seen nothing but rows, before where it stands; once it is    *)
(* started, deletions pay for the rows it has missed and insertions for    *)
(* those it has shown twice or is going to.                                *)
WalkOK(q) ==
    /\ pc[q] = "idle" => walk[q] = NoWalk /\ changes[q] = NoChanges
    /\ \A u \in Urls :
        /\ walk[q].seen[u] # {} => Came(u)
        /\ \A s \in walk[q].seen[u] : s < walk[q].skip
    /\ \A u \in changes[q].kept : Came(u)
    /\ pc[q] = "page" =>
        /\ changes[q].kept \subseteq Stored
        /\ Cardinality(Slipped(q)) <= changes[q].deleted
        /\ Cardinality(Repeats(q)) + Cardinality(Pending(q)) <= changes[q].inserted
    /\ WalkDone(q) =>
        /\ Cardinality(Skipped(q)) <= changes[q].deleted
        /\ Cardinality(Repeats(q)) <= changes[q].inserted

WalkInv == \A q \in Readers : WalkOK(q)

-----------------------------------------------------------------------------
(* Lemmas about finite sets and about the operators of the model           *)

LEMMA FirstOfSet ==
    ASSUME NEW S \in SUBSET Nat, S # {}
    PROVE  \E m \in S : \A i \in S : m <= i
<1>1. PICK i \in S : \A j \in S : ~(<<j, i>> \in OpToRel(<, Nat))
  BY NatLessThanWellFounded, WFMin, Zenon
<1>2. \A j \in S : ~(j < i)
  BY <1>1 DEF OpToRel
<1> QED
  BY <1>2

LEMMA LargestOf ==
    ASSUME NEW n \in Nat, NEW S \in SUBSET (0..n), S # {}
    PROVE  Max(S) \in S /\ \A x \in S : Max(S) >= x
<1> DEFINE D == {n - x : x \in S}
<1>1. \A x \in S : x \in Nat /\ n - x \in Nat /\ n - x \in D
  OBVIOUS
<1>2. D \in SUBSET Nat /\ D # {}
  BY <1>1
<1>3. PICK d \in D : \A e \in D : d <= e
  BY <1>2, FirstOfSet
<1>4. PICK m \in S : d = n - m
  OBVIOUS
<1>5. \A x \in S : n - m <= n - x
  BY <1>1, <1>3, <1>4
<1>6. \A x \in S : m >= x
  BY <1>1, <1>5
<1>7. \E x \in S : \A y \in S : x >= y
  BY <1>6
<1> QED
  BY <1>7, Zenon DEF Max

LEMMA LargerOfTwo ==
    ASSUME NEW a \in Int, NEW b \in Int
    PROVE  Max({a, b}) = IF a >= b THEN a ELSE b
<1> DEFINE m == IF a >= b THEN a ELSE b
<1>1. m \in {a, b} /\ \A y \in {a, b} : m >= y
  OBVIOUS
<1>2. \A x \in {a, b} : (\A y \in {a, b} : x >= y) => x = m
  OBVIOUS
<1> QED
  BY <1>1, <1>2 DEF Max

LEMMA SmallerOfTwo ==
    ASSUME NEW a \in Int, NEW b \in Int
    PROVE  Min({a, b}) = IF a <= b THEN a ELSE b
<1> DEFINE m == IF a <= b THEN a ELSE b
<1>1. m \in {a, b} /\ \A y \in {a, b} : m <= y
  OBVIOUS
<1>2. \A x \in {a, b} : (\A y \in {a, b} : x <= y) => x = m
  OBVIOUS
<1> QED
  BY <1>1, <1>2 DEF Min

LEMMA PartOf ==
    ASSUME NEW S, IsFiniteSet(S), NEW T, T \subseteq S
    PROVE  /\ IsFiniteSet(T) /\ Cardinality(T) \in Nat /\ Cardinality(S) \in Nat
           /\ Cardinality(T) <= Cardinality(S)
  BY FS_Subset, FS_CardinalityType

(* The clicks of one row, by where they came from: f is clicks[u]; and a   *)
(* ranking of them by the groups P.                                        *)
Count(f, sources) == Cardinality(UNION {f[s] : s \in sources})
Tops(P) == {t \in SUBSET P : Cardinality(t) <= TopGroups}
Top(f, P) == Max({Count(f, UNION t) : t \in Tops(P)})
Few(f, P) == Cardinality({g \in P : \E s \in g : f[s] # {}}) <= TopGroups

(* The groups of a ranking: finitely many, and every click is in one.      *)
Partitions(P) == IsFiniteSet(P) /\ UNION P = Sources

LEMMA Rankings == Partitions(ByReferrer) /\ Partitions(ByAgent)
<1> DEFINE R == [r \in Referrers |-> {r} \X Agents]
           A == [a \in Agents |-> Referrers \X {a}]
<1>1. R \in Surjection(Referrers, ByReferrer) /\ A \in Surjection(Agents, ByAgent)
  BY DEF Surjection, ByReferrer, ByAgent
<1>2. IsFiniteSet(ByReferrer) /\ IsFiniteSet(ByAgent)
  <2> HIDE DEF R, A
  <2> QED
    BY <1>1, FS_Surjection
<1>3. UNION ByReferrer = Sources /\ UNION ByAgent = Sources
  BY DEF ByReferrer, ByAgent, Sources
<1> QED
  BY <1>2, <1>3 DEF Partitions

LEMMA CountFacts ==
    ASSUME NEW n \in Nat, NEW f, \A s \in Sources : f[s] \subseteq 1..n,
           NEW g \in SUBSET Sources
    PROVE  /\ IsFiniteSet(UNION {f[s] : s \in g}) /\ Count(f, g) \in 0..n
<1>1. IsFiniteSet(1..n) /\ Cardinality(1..n) = n
  <2>1. \A a, b \in Int : /\ IsFiniteSet(a..b)
                         /\ Cardinality(a..b) = IF a > b THEN 0 ELSE b - a + 1
    BY FS_Interval
  <2>2. Cardinality(1..n) = IF 1 > n THEN 0 ELSE n - 1 + 1
    BY <2>1
  <2>3. IsFiniteSet(1..n)
    BY <2>1
  <2> QED
    BY <2>2, <2>3
<1>2. UNION {f[s] : s \in g} \subseteq 1..n
  OBVIOUS
<1> QED
  BY <1>1, <1>2, PartOf DEF Count

LEMMA TopFacts ==
    ASSUME NEW n \in Nat, NEW f, \A s \in Sources : f[s] \subseteq 1..n,
           NEW P, Partitions(P)
    PROVE  /\ Top(f, P) \in 0..n
           /\ Top(f, P) <= Count(f, Sources)
           /\ Few(f, P) => Top(f, P) = Count(f, Sources)
<1> DEFINE C == {Count(f, UNION t) : t \in Tops(P)}
<1>1. \A t \in Tops(P) : UNION t \in SUBSET Sources
  BY DEF Tops, Partitions
<1>2. C \in SUBSET (0..n) /\ Count(f, Sources) \in 0..n
  BY <1>1, CountFacts
<1>3. {} \in Tops(P)
  BY FS_EmptySet DEF Tops
<1>4. C # {}
  BY <1>3
<1>5. Top(f, P) \in C /\ \A x \in C : Top(f, P) >= x
  <2>1. Top(f, P) = Max(C)
    BY DEF Top
  <2> HIDE DEF C
  <2> QED
    BY <2>1, <1>2, <1>4, LargestOf
<1>6. Top(f, P) <= Count(f, Sources)
  <2>1. PICK t \in Tops(P) : Top(f, P) = Count(f, UNION t)
    BY <1>5
  <2>2. UNION {f[s] : s \in UNION t} \subseteq UNION {f[s] : s \in Sources}
    BY <1>1
  <2>3. IsFiniteSet(UNION {f[s] : s \in Sources})
    BY CountFacts
  <2> QED
    BY <2>1, <2>2, <2>3, PartOf DEF Count
<1>7. ASSUME Few(f, P) PROVE Top(f, P) >= Count(f, Sources)
  <2> DEFINE t == {g \in P : \E s \in g : f[s] # {}}
  <2>1. t \in Tops(P)
    BY <1>7 DEF Few, Tops
  <2>2. UNION {f[s] : s \in UNION t} = UNION {f[s] : s \in Sources}
    <3>1. UNION t \subseteq Sources
      BY <1>1, <2>1
    <3>2. ASSUME NEW s \in Sources, NEW x \in f[s] PROVE s \in UNION t
      BY <3>2 DEF Partitions
    <3> HIDE DEF t
    <3> QED
      BY <3>1, <3>2
  <2>3. Count(f, UNION t) = Count(f, Sources)
    BY <2>2 DEF Count
  <2>4. Count(f, UNION t) \in C
    BY <2>1
  <2> HIDE DEF t, C
  <2> QED
    BY <2>3, <2>4, <1>5
<1>8. Top(f, P) \in 0..n
  BY <1>2, <1>5
<1> HIDE DEF C
<1> QED
  BY <1>2, <1>6, <1>7, <1>8

(* More clicks, more of them in every ranking, and in more groups.         *)
LEMMA MoreClicks ==
    ASSUME NEW n \in Nat, NEW f, NEW h,
           \A s \in Sources : f[s] \subseteq h[s] /\ h[s] \subseteq 1..n,
           NEW P, Partitions(P)
    PROVE  /\ Count(f, Sources) <= Count(h, Sources)
           /\ Few(h, P) => Few(f, P)
<1>1. Count(f, Sources) <= Count(h, Sources)
  <2>1. IsFiniteSet(UNION {h[s] : s \in Sources})
    BY CountFacts
  <2>2. UNION {f[s] : s \in Sources} \subseteq UNION {h[s] : s \in Sources}
    OBVIOUS
  <2> QED
    BY <2>1, <2>2, PartOf DEF Count
<1>2. ASSUME Few(h, P) PROVE Few(f, P)
  <2> DEFINE F == {g \in P : \E s \in g : f[s] # {}}
             H == {g \in P : \E s \in g : h[s] # {}}
  <2>1. F \subseteq H
    BY DEF Partitions
  <2>2. IsFiniteSet(H)
    BY PartOf DEF Partitions
  <2>3. Cardinality(H) <= TopGroups
    BY <1>2 DEF Few
  <2>4. Cardinality(F) <= TopGroups => Few(f, P)
    BY DEF Few
  <2> HIDE DEF F, H
  <2>5. Cardinality(F) <= Cardinality(H) /\ Cardinality(F) \in Nat /\ Cardinality(H) \in Nat
    BY <2>1, <2>2, PartOf
  <2> QED
    BY <2>3, <2>4, <2>5
<1> QED
  BY <1>1, <1>2

LEMMA RowSets ==
    ASSUME NEW S, S \subseteq Urls
    PROVE  IsFiniteSet(S) /\ Cardinality(S) \in Nat
  BY PartOf

(* What a page holds.                                                      *)
LEMMA PageFacts ==
    ASSUME NEW skip \in Nat, NEW n \in Nat, NEW page \in Pages(skip, n)
    PROVE  /\ page \subseteq Stored /\ Cardinality(page) \in Nat /\ Cardinality(page) <= n
           /\ n > 0 /\ page = {} => Cardinality(Stored) <= skip
<1>1. page \subseteq Stored /\ Stored \subseteq Urls
      /\ Cardinality(page) = Max({0, Min({n, Cardinality(Stored) - skip})})
  BY DEF Pages, Stored
<1>2. Cardinality(Stored) \in Nat /\ Cardinality(page) \in Nat
  BY <1>1, RowSets
<1> DEFINE left == Cardinality(Stored) - skip
           m == Min({n, left})
<1>3. left \in Int /\ m = IF n <= left THEN n ELSE left
  BY <1>2, SmallerOfTwo
<1>4. Cardinality(page) = IF 0 >= m THEN 0 ELSE m
  BY <1>1, <1>3, LargerOfTwo
<1>5. Cardinality(page) <= n
  BY <1>2, <1>3, <1>4
<1>6. ASSUME n > 0, page = {} PROVE Cardinality(Stored) <= skip
  <2>1. Cardinality(page) = 0
    BY <1>6, FS_EmptySet
  <2> QED
    BY <2>1, <1>2, <1>3, <1>4, <1>6
<1> QED
  BY <1>1, <1>2, <1>5, <1>6

LEMMA PageLimitFacts ==
    ASSUME NEW limit \in Limits \cup {0}, limit >= 0
    PROVE  PageLimit(limit) \in 0..MaxPage /\ (limit > 0 => PageLimit(limit) > 0)
  BY DEF PageLimit

-----------------------------------------------------------------------------
(* Types, and the clicks of a row                                          *)

LEMMA NoticeType ==
    ASSUME TypeOK, NEW come \in SUBSET Urls, NEW go \in SUBSET Urls, Notice(come, go)
    PROVE  changes' \in [Readers -> [kept : SUBSET Urls, deleted : Nat, inserted : Nat]]
<1>1. Cardinality(come) \in Nat /\ Cardinality(go) \in Nat
  BY RowSets
<1> QED
  BY <1>1 DEF Notice, TypeOK

(* What the rankings say of the clicks of a row.                           *)
Ranking(u, P) ==
    /\ TopClicks(u, P) \in 0..clickCount[u]
    /\ TopClicks(u, P) <= ClicksFrom(u, Sources)
    /\ RanksAll(u, P) => TopClicks(u, P) = ClicksFrom(u, Sources)

LEMMA TopType ==
    ASSUME TypeOK, ClicksInv, NEW u \in Urls
    PROVE  /\ clickCount[u] \in Nat /\ clickCount[u] \in Figures
           /\ \A s \in Sources : clicks[u][s] \subseteq 1..clickCount[u]
           /\ ClicksFrom(u, Sources) = Count(clicks[u], Sources)
           /\ ClicksFrom(u, Sources) \in 0..clickCount[u]
           /\ Ranking(u, ByReferrer) /\ Ranking(u, ByAgent)
           /\ Cardinality(recent[u]) \in 0..clickCount[u]
           /\ Cardinality(recent[u]) <= ClicksFrom(u, Sources)
           /\ 0..clickCount[u] \subseteq Figures
<1>1. clickCount[u] \in Nat /\ clickCount[u] \in Figures /\ 0..clickCount[u] \subseteq Figures
  BY DEF TypeOK, Figures
<1>2. \A s \in Sources : clicks[u][s] \subseteq 1..clickCount[u]
  BY DEF ClicksInv
<1>3. ClicksFrom(u, Sources) = Count(clicks[u], Sources)
  BY DEF ClicksFrom, Count
<1>4. Count(clicks[u], Sources) \in 0..clickCount[u]
      /\ IsFiniteSet(UNION {clicks[u][s] : s \in Sources})
  BY <1>1, <1>2, CountFacts
<1>5. Cardinality(recent[u]) \in Nat /\ Cardinality(recent[u]) <= Count(clicks[u], Sources)
  BY <1>4, PartOf DEF ClicksInv, Count
<1>6. Cardinality(recent[u]) \in 0..clickCount[u]
  BY <1>1, <1>4, <1>5
<1>7. ASSUME NEW P, Partitions(P) PROVE Ranking(u, P)
  <2>1. TopClicks(u, P) = Top(clicks[u], P) /\ (RanksAll(u, P) <=> Few(clicks[u], P))
    BY DEF TopClicks, Top, Tops, ClicksFrom, Count, RanksAll, Few
  <2> QED
    BY <1>1, <1>2, <1>3, <1>7, <2>1, TopFacts DEF Ranking
<1> QED
  BY <1>1, <1>2, <1>3, <1>4, <1>5, <1>6, <1>7, Rankings

Walks == [limit : Limits \cup {0}, skip : Nat, page : SUBSET Urls, seen : [Urls -> SUBSET Nat]]
Histories == [kept : SUBSET Urls, deleted : Nat, inserted : Nat]
Reports == [url : SUBSET Urls, total : Figures, start : Figures, recent : Figures,
            referrers : Figures, agents : Figures]

LEMMA TypeStep ==
    ASSUME TypeOK, ClicksInv, [Next]_vars
    PROVE  TypeOK'
<1> USE DEF TypeOK, urlVars, readerVars
<1>1. CASE Tick \/ DayPasses
  BY <1>1 DEF Tick, DayPasses
<1>2. ASSUME NEW u \in Urls, NEW c \in Codes, BeginCreate(u, c) PROVE TypeOK'
  BY <1>2 DEF BeginCreate
<1>3. ASSUME NEW u \in Urls, CommitCreate(u) PROVE TypeOK'
  <2>1. changes' \in [Readers -> [kept : SUBSET Urls, deleted : Nat, inserted : Nat]]
    BY <1>3, NoticeType DEF CommitCreate
  <2> QED
    BY <1>3, <2>1 DEF CommitCreate
<1>4. ASSUME NEW u \in Urls, DeleteUrl(u) PROVE TypeOK'
  <2>1. changes' \in [Readers -> [kept : SUBSET Urls, deleted : Nat, inserted : Nat]]
    BY <1>4, NoticeType DEF DeleteUrl
  <2> QED
    BY <1>4, <2>1 DEF DeleteUrl
<1>5. ASSUME NEW u \in Urls, Increment(u) \/ (\E s \in Sources : RecordClick(u, s)) PROVE TypeOK'
  <2>1. clickCount[u] + 1 \in 1..MaxClicks /\ clickCount[u] + 1 \in Figures
    BY <1>5 DEF Increment, RecordClick, Figures
  <2>2. CASE Increment(u)
    BY <2>1, <2>2 DEF Increment
  <2>3. ASSUME NEW s \in Sources, RecordClick(u, s) PROVE TypeOK'
    <3>1. clicks' \in [Urls -> [Sources -> SUBSET (1..MaxClicks)]]
      BY <2>1, <2>3 DEF RecordClick
    <3>2. recent' \in [Urls -> SUBSET (1..MaxClicks)] /\ clickCount' \in [Urls -> Figures]
      BY <2>1, <2>3 DEF RecordClick
    <3> QED
      BY <3>1, <3>2, <2>3 DEF RecordClick
  <2> QED
    BY <1>5, <2>2, <2>3
<1>6. ASSUME NEW q \in Readers, NEW limit \in Limits, StartWalk(q, limit) PROVE TypeOK'
  <2>1. Stored \in SUBSET Urls
    BY DEF Stored
  <2> DEFINE w == [walk[q] EXCEPT !.limit = limit]
             h == [changes[q] EXCEPT !.kept = Stored]
  <2>0. walk[q] \in Walks /\ changes[q] \in Histories
    BY DEF Walks, Histories
  <2>2. w \in Walks /\ w.page = walk[q].page
    BY <2>0 DEF Walks
  <2>3. h \in Histories
    BY <2>0, <2>1 DEF Histories
  <2>4. walk' = [walk EXCEPT ![q] = w] /\ changes' = [changes EXCEPT ![q] = h]
    BY <1>6 DEF StartWalk
  <2> HIDE DEF w, h
  <2>5. walk' \in [Readers -> Walks] /\ changes' \in [Readers -> Histories]
    BY <2>2, <2>3, <2>4 DEF Walks, Histories
  <2>6. \A r \in Readers : Cardinality(walk'[r].page) <= MaxPage
    BY <2>2, <2>4
  <2> QED
    BY <1>6, <2>5, <2>6 DEF StartWalk, Walks, Histories
<1>7. ASSUME NEW q \in Readers, ListPage(q) PROVE TypeOK'
  <2>1. walk[q].limit \in Limits \cup {0} /\ walk[q].skip \in Nat /\ walk[q].limit >= 0
    BY <1>7 DEF ListPage
  <2>2. PICK page \in Pages(walk[q].skip, PageLimit(walk[q].limit)) :
          /\ walk' = [walk EXCEPT ![q] =
                [limit |-> @.limit, skip |-> @.skip + Cardinality(page), page |-> page,
                 seen |-> [u \in Urls |-> @.seen[u] \cup {s \in {@.skip} : u \in page}]]]
          /\ pc' = [pc EXCEPT ![q] = IF page = {} THEN "done" ELSE "page"]
    BY <1>7 DEF ListPage
  <2>3. PageLimit(walk[q].limit) \in 0..MaxPage
    BY <2>1, PageLimitFacts
  <2>4. page \subseteq Stored /\ Cardinality(page) \in Nat /\ Cardinality(page) <= MaxPage
    BY <2>1, <2>3, PageFacts
  <2>5. page \in SUBSET Urls
    BY <2>4 DEF Stored
  <2> DEFINE seen == [u \in Urls |-> walk[q].seen[u] \cup {s \in {walk[q].skip} : u \in page}]
             w == [limit |-> walk[q].limit, skip |-> walk[q].skip + Cardinality(page),
                   page |-> page, seen |-> seen]
  <2>6. seen \in [Urls -> SUBSET Nat]
    <3>1. walk[q].seen \in [Urls -> SUBSET Nat]
      OBVIOUS
    <3> QED
      BY <2>1, <3>1
  <2> HIDE DEF seen
  <2>8. w \in Walks /\ w.page = page
    BY <2>1, <2>4, <2>5, <2>6 DEF Walks
  <2>9. walk' = [walk EXCEPT ![q] = w]
    BY <2>2 DEF seen
  <2> HIDE DEF w
  <2>10. walk' \in [Readers -> Walks]
    BY <2>8, <2>9 DEF Walks
  <2>11. \A r \in Readers : Cardinality(walk'[r].page) <= MaxPage
    BY <2>4, <2>8, <2>9
  <2> QED
    BY <1>7, <2>2, <2>10, <2>11 DEF ListPage, Walks
<1>8. ASSUME NEW q \in Readers, ListFails(q) PROVE TypeOK'
  BY <1>8 DEF ListFails
<1>9. ASSUME NEW q \in Readers, NEW c \in Codes, ReadUrl(q, c) PROVE TypeOK'
  <2>1. CASE \E u \in Stored : code[u] = c
    <3>1. PICK u \in Stored : report' = [report EXCEPT ![q].url = {u}, ![q].total = clickCount[u],
                                          ![q].start = ClicksFrom(u, Sources)]
      BY <1>9, <2>1 DEF ReadUrl
    <3>2. u \in Urls
      BY DEF Stored
    <3>3. ClicksFrom(u, Sources) \in Figures /\ clickCount[u] \in Figures
      BY <3>2, TopType
    <3> DEFINE e == [report[q] EXCEPT !.url = {u}, !.total = clickCount[u],
                                      !.start = ClicksFrom(u, Sources)]
    <3>4. e \in Reports
      BY <3>2, <3>3 DEF Reports
    <3>5. report' = [report EXCEPT ![q] = e]
      BY <3>1
    <3> HIDE DEF e
    <3>6. report' \in [Readers -> Reports]
      BY <3>4, <3>5 DEF Reports
    <3> QED
      BY <1>9, <2>1, <3>6 DEF ReadUrl, Reports
  <2>2. CASE ~\E u \in Stored : code[u] = c
    BY <1>9, <2>2 DEF ReadUrl
  <2> QED
    BY <2>1, <2>2
<1>10. ASSUME NEW q \in Readers, CountRecent(q) \/ RankReferrers(q) \/ RankAgents(q) PROVE TypeOK'
  <2>1. \A u \in report[q].url :
          u \in Urls /\ Cardinality(recent[u]) \in Figures
          /\ TopClicks(u, ByReferrer) \in Figures /\ TopClicks(u, ByAgent) \in Figures
    BY TopType DEF Ranking
  <2>2. ASSUME NEW n \in Figures
        PROVE  /\ [report[q] EXCEPT !.recent = n] \in Reports
               /\ [report[q] EXCEPT !.referrers = n] \in Reports
               /\ [report[q] EXCEPT !.agents = n] \in Reports
    BY DEF Reports
  <2>3. PICK n \in Figures : \/ report' = [report EXCEPT ![q] = [report[q] EXCEPT !.recent = n]]
                           \/ report' = [report EXCEPT ![q] = [report[q] EXCEPT !.referrers = n]]
                           \/ report' = [report EXCEPT ![q] = [report[q] EXCEPT !.agents = n]]
    BY <1>10, <2>1 DEF CountRecent, RankReferrers, RankAgents
  <2>4. PICK e \in Reports : report' = [report EXCEPT ![q] = e]
    BY <2>2, <2>3
  <2>5. report' \in [Readers -> Reports]
    BY <2>4 DEF Reports
  <2> QED
    BY <1>10, <2>5 DEF CountRecent, RankReferrers, RankAgents, Reports
<1>11. CASE UNCHANGED vars
  BY <1>11 DEF vars
<1> QED
  BY <1>1, <1>2, <1>3, <1>4, <1>5, <1>6, <1>7, <1>8, <1>9, <1>10, <1>11 DEF Next

LEMMA ClicksStep ==
    ASSUME TypeOK, ClicksInv, [Next]_vars
    PROVE  ClicksInv'
<1> USE DEF TypeOK, urlVars, readerVars
<1>1. CASE UNCHANGED <<clickCount, clicks, recent>>
  BY <1>1 DEF ClicksInv
<1>2. CASE DayPasses
  BY <1>2 DEF DayPasses, ClicksInv
<1>3. ASSUME NEW u \in Urls, DeleteUrl(u) PROVE ClicksInv'
  BY <1>3 DEF DeleteUrl, ClicksInv
<1>4. ASSUME NEW u \in Urls, Increment(u) PROVE ClicksInv'
  <2>1. clickCount[u] \in Nat /\ 1..clickCount[u] \subseteq 1..(clickCount[u] + 1)
    BY DEF Figures
  <2> QED
    BY <1>4, <2>1 DEF Increment, ClicksInv
<1>5. ASSUME NEW u \in Urls, NEW s \in Sources, RecordClick(u, s) PROVE ClicksInv'
  <2> DEFINE n == clickCount[u] + 1
  <2>1. 1..clickCount[u] \subseteq 1..n /\ n \in 1..n
    BY DEF Figures
  <2>2. /\ clickCount'[u] = n /\ recent'[u] = recent[u] \cup {n}
        /\ clicks'[u][s] = clicks[u][s] \cup {n}
        /\ \A r \in Sources \ {s} : clicks'[u][r] = clicks[u][r]
        /\ \A v \in Urls \ {u} : /\ clickCount'[v] = clickCount[v] /\ clicks'[v] = clicks[v]
                                /\ recent'[v] = recent[v]
    BY <1>5 DEF RecordClick
  <2>3. \A r \in Sources : clicks'[u][r] \subseteq 1..n /\ clicks[u][r] \subseteq clicks'[u][r]
    BY <2>1, <2>2 DEF ClicksInv
  <2>4. UNION {clicks[u][r] : r \in Sources} \subseteq UNION {clicks'[u][r] : r \in Sources}
        /\ n \in UNION {clicks'[u][r] : r \in Sources}
    BY <2>2, <2>3
  <2>5. recent'[u] \subseteq UNION {clicks'[u][r] : r \in Sources}
    BY <2>2, <2>4 DEF ClicksInv
  <2> HIDE DEF n
  <2> DEFINE Fits(v) == /\ \A r \in Sources : clicks'[v][r] \subseteq 1..clickCount'[v]
                        /\ recent'[v] \subseteq UNION {clicks'[v][r] : r \in Sources}
  <2>6. Fits(u)
    BY <2>2, <2>3, <2>5
  <2>7. \A v \in Urls \ {u} : Fits(v)
    BY <2>2 DEF ClicksInv
  <2>8. (\A v \in Urls : Fits(v)) => ClicksInv'
    BY DEF ClicksInv
  <2> HIDE DEF Fits
  <2> QED
    BY <2>6, <2>7, <2>8
<1>6. CASE UNCHANGED vars
  BY <1>6, <1>1 DEF vars
<1>7. CASE Next
  <2>1. ASSUME NEW u \in Urls, NEW c \in Codes, BeginCreate(u, c) PROVE ClicksInv'
    BY <1>1, <2>1 DEF BeginCreate
  <2>2. ASSUME NEW u \in Urls, CommitCreate(u) PROVE ClicksInv'
    BY <1>1, <2>2 DEF CommitCreate
  <2>3. ASSUME NEW q \in Readers, NEW limit \in Limits, StartWalk(q, limit) PROVE ClicksInv'
    BY <1>1, <2>3 DEF StartWalk
  <2>4. ASSUME NEW q \in Readers, NEW c \in Codes, ReadUrl(q, c) PROVE ClicksInv'
    BY <1>1, <2>4 DEF ReadUrl
  <2>5. ASSUME NEW q \in Readers,
               ListPage(q) \/ ListFails(q) \/ CountRecent(q) \/ RankReferrers(q) \/ RankAgents(q)
        PROVE  ClicksInv'
    BY <1>1, <2>5 DEF ListPage, ListFails, CountRecent, RankReferrers, RankAgents
  <2>6. CASE Tick
    BY <1>1, <2>6 DEF Tick
  <2> QED
    BY <1>2, <1>3, <1>4, <1>5, <1>7, <2>1, <2>2, <2>3, <2>4, <2>5, <2>6 DEF Next
<1> QED
  BY <1>6, <1>7

-----------------------------------------------------------------------------
(* Reports                                                                 *)

(* Rows that were stored once never come back, counters only rise, and the *)
(* clicks of a row that stays are kept.                                    *)
TablesGrow == \A u \in Urls : stage[u] \in {"stored", "gone"} =>
    /\ stage'[u] \in {"stored", "gone"}
    /\ clickCount[u] <= clickCount'[u]
    /\ stage'[u] = "stored" => stage[u] = "stored" /\ \A s \in Sources : clicks[u][s] \subseteq clicks'[u][s]

LEMMA RankingGrows ==
    ASSUME TypeOK, ClicksInv, TypeOK', ClicksInv', TablesGrow,
           NEW u \in Urls, stage[u] = "stored", stage'[u] = "stored"
    PROVE  /\ ClicksFrom(u, Sources) \in Nat /\ ClicksFrom(u, Sources)' \in Nat
           /\ ClicksFrom(u, Sources) <= ClicksFrom(u, Sources)'
           /\ RanksAll(u, ByReferrer)' => RanksAll(u, ByReferrer)
           /\ RanksAll(u, ByAgent)' => RanksAll(u, ByAgent)
<1>1. clickCount[u] \in Nat /\ ClicksFrom(u, Sources) = Count(clicks[u], Sources)
      /\ ClicksFrom(u, Sources) \in Nat
  BY TopType
<1>2. ClicksFrom(u, Sources)' = Count(clicks'[u], Sources)
  BY DEF ClicksFrom, Count
<1>3. clickCount'[u] \in Nat
  BY DEF TypeOK, Figures
<1>4. \A s \in Sources : clicks[u][s] \subseteq clicks'[u][s] /\ clicks'[u][s] \subseteq 1..clickCount'[u]
  BY DEF ClicksInv, TablesGrow
<1>5. Count(clicks'[u], Sources) \in 0..clickCount'[u]
  BY <1>3, <1>4, CountFacts
<1>6. /\ RanksAll(u, ByReferrer) <=> Few(clicks[u], ByReferrer)
      /\ RanksAll(u, ByReferrer)' <=> Few(clicks'[u], ByReferrer)
  BY DEF RanksAll, Few, ByReferrer
<1>7. /\ RanksAll(u, ByAgent) <=> Few(clicks[u], ByAgent)
      /\ RanksAll(u, ByAgent)' <=> Few(clicks'[u], ByAgent)
  BY DEF RanksAll, Few, ByAgent
<1> QED
  BY <1>1, <1>2, <1>3, <1>4, <1>5, <1>6, <1>7, MoreClicks, Rankings

(* What was read stays right while the tables grow.                        *)
LEMMA ReportKept ==
    ASSUME TypeOK, ClicksInv, TypeOK', ClicksInv', TablesGrow,
           NEW q \in Readers, ReportOK(q),
           reading' = reading, report'[q] = report[q],
           pc'[q] = pc[q] \/ (report[q].url = {} /\ pc'[q] \in {"page", "done", "error"})
    PROVE  ReportOK(q)'
<1>1. ASSUME NEW u \in report[q].url
      PROVE  /\ u \in Urls /\ pc'[q] = pc[q] /\ stage'[u] \in {"stored", "gone"}
             /\ {report[q].total, report[q].recent, report[q].referrers, report[q].agents}
                  \subseteq 0..clickCount'[u]
  <2>1. u \in Urls /\ pc'[q] = pc[q]
    BY DEF TypeOK
  <2>2. clickCount[u] \in Nat /\ clickCount'[u] \in Nat
    BY <2>1 DEF TypeOK, Figures
  <2>3. clickCount[u] <= clickCount'[u] /\ stage'[u] \in {"stored", "gone"}
    BY <2>1 DEF TablesGrow, ReportOK
  <2>4. 0..clickCount[u] \subseteq 0..clickCount'[u]
    BY <2>2, <2>3
  <2> QED
    BY <2>1, <2>3, <2>4 DEF ReportOK
<1>2. ASSUME NEW u \in report[q].url, u \in Stored'
      PROVE  /\ report[q].start <= ClicksFrom(u, Sources)'
             /\ report[q].recent <= ClicksFrom(u, Sources)'
             /\ pc[q] \in Ranked =>
                  /\ report[q].referrers <= ClicksFrom(u, Sources)'
                  /\ RanksAll(u, ByReferrer)' =>
                       report[q].start <= report[q].referrers /\ report[q].recent <= report[q].referrers
             /\ pc[q] = "done" /\ RanksAll(u, ByAgent)' =>
                  /\ report[q].start <= report[q].agents /\ report[q].recent <= report[q].agents
                  /\ report[q].referrers <= report[q].agents
  <2>1. u \in Urls /\ stage'[u] = "stored"
    BY <1>1, <1>2 DEF Stored
  <2>2. stage[u] = "stored" /\ u \in Stored
    BY <2>1 DEF ReportOK, TablesGrow, Stored
  <2>3. /\ report[q].start \in Nat /\ report[q].recent \in Nat /\ report[q].referrers \in Nat
    BY DEF TypeOK, Figures
  <2> QED
    BY <2>1, <2>2, <2>3, RankingGrows DEF ReportOK
<1>3. /\ pc'[q] = "idle" => pc[q] = "idle"
      /\ pc'[q] \in {"recent", "referrers", "agents"} => pc'[q] = pc[q]
  OBVIOUS
<1> QED
  BY <1>1, <1>2, <1>3 DEF ReportOK

LEMMA GrowthStep ==
    ASSUME TypeOK, ClicksInv, Next
    PROVE  TablesGrow
<1> USE DEF TypeOK, urlVars, readerVars, Figures
<1>1. CASE UNCHANGED <<stage, clickCount, clicks>>
  BY <1>1 DEF TablesGrow
<1>2. ASSUME NEW u \in Urls, NEW c \in Codes, BeginCreate(u, c) PROVE TablesGrow
  BY <1>2 DEF BeginCreate, TablesGrow
<1>3. ASSUME NEW u \in Urls, CommitCreate(u) PROVE TablesGrow
  BY <1>3 DEF CommitCreate, TablesGrow
<1>4. ASSUME NEW u \in Urls, DeleteUrl(u) PROVE TablesGrow
  BY <1>4 DEF DeleteUrl, TablesGrow, Stored
<1>5. ASSUME NEW u \in Urls, Increment(u) PROVE TablesGrow
  BY <1>5 DEF Increment, TablesGrow
<1>6. ASSUME NEW u \in Urls, NEW s \in Sources, RecordClick(u, s) PROVE TablesGrow
  BY <1>6 DEF RecordClick, TablesGrow
<1>7. ASSUME NEW q \in Readers, NEW limit \in Limits, StartWalk(q, limit) PROVE TablesGrow
  BY <1>1, <1>7 DEF StartWalk
<1>8. ASSUME NEW q \in Readers, NEW c \in Codes, ReadUrl(q, c) PROVE TablesGrow
  BY <1>1, <1>8 DEF ReadUrl
<1>9. ASSUME NEW q \in Readers,
             ListPage(q) \/ ListFails(q) \/ CountRecent(q) \/ RankReferrers(q) \/ RankAgents(q)
      PROVE  TablesGrow
  BY <1>1, <1>9 DEF ListPage, ListFails, CountRecent, RankReferrers, RankAgents
<1>10. CASE Tick \/ DayPasses
  BY <1>1, <1>10 DEF Tick, DayPasses
<1> QED
  BY <1>2, <1>3, <1>4, <1>5, <1>6, <1>7, <1>8, <1>9, <1>10 DEF Next

(* The statement of a report: it agrees with the tables as they are.       *)
LEMMA ReportRead ==
    ASSUME TypeOK, ClicksInv, NEW q \in Readers, ReportOK(q),
           (\E c \in Codes : ReadUrl(q, c)) \/ CountRecent(q) \/ RankReferrers(q) \/ RankAgents(q)
    PROVE  ReportOK(q)'
<1>1. /\ reading' = reading /\ stage' = stage /\ Stored' = Stored /\ clickCount' = clickCount
      /\ \A u \in Urls : /\ ClicksFrom(u, Sources)' = ClicksFrom(u, Sources)
                         /\ RanksAll(u, ByReferrer)' = RanksAll(u, ByReferrer)
                         /\ RanksAll(u, ByAgent)' = RanksAll(u, ByAgent)
  <2>1. UNCHANGED <<reading, stage, clickCount, clicks>>
    BY DEF ReadUrl, CountRecent, RankReferrers, RankAgents, urlVars
  <2>2. Stored' = Stored
    BY <2>1 DEF Stored
  <2>3. \A u \in Urls : ClicksFrom(u, Sources)' = ClicksFrom(u, Sources)
    BY <2>1 DEF ClicksFrom
  <2>4. \A u \in Urls : /\ RanksAll(u, ByReferrer)' = RanksAll(u, ByReferrer)
                         /\ RanksAll(u, ByAgent)' = RanksAll(u, ByAgent)
    BY <2>1 DEF RanksAll
  <2> QED
    BY <2>1, <2>2, <2>3, <2>4
<1>2. ASSUME NEW u \in Urls
      PROVE  /\ clickCount[u] \in Nat
             /\ ClicksFrom(u, Sources) \in 0..clickCount[u]
             /\ Ranking(u, ByReferrer) /\ Ranking(u, ByAgent)
             /\ Cardinality(recent[u]) \in 0..clickCount[u]
             /\ Cardinality(recent[u]) <= ClicksFrom(u, Sources)
  BY TopType
<1>3. report[q].url \subseteq Urls /\ report[q].start \in Nat /\ report[q].recent \in Nat
      /\ report[q].referrers \in Nat
  BY DEF TypeOK, Figures
<1>4. ASSUME NEW c \in Codes, ReadUrl(q, c) PROVE ReportOK(q)'
  <2>1. pc[q] = "idle" /\ reading = "reports" /\ report[q] = NoReport
    BY <1>4 DEF ReadUrl, ReportOK
  <2>2. CASE \E u \in Stored : code[u] = c
    <3>1. PICK u \in Stored : report' = [report EXCEPT ![q].url = {u}, ![q].total = clickCount[u],
                                          ![q].start = ClicksFrom(u, Sources)]
      BY <1>4, <2>2 DEF ReadUrl
    <3>2. pc'[q] = "recent"
      BY <1>4, <2>2 DEF ReadUrl, TypeOK
    <3>3. /\ report'[q].url = {u} /\ report'[q].total = clickCount[u]
          /\ report'[q].start = ClicksFrom(u, Sources)
          /\ report'[q].recent = 0 /\ report'[q].referrers = 0 /\ report'[q].agents = 0
      BY <2>1, <3>1 DEF TypeOK, NoReport
    <3>4. u \in Urls /\ stage[u] = "stored"
      BY DEF Stored
    <3> QED
      BY <2>1, <3>2, <3>3, <3>4, <1>1, <1>2 DEF ReportOK, Ranked
  <2>3. CASE ~\E u \in Stored : code[u] = c
    <3>1. pc'[q] = "not_found" /\ report'[q] = NoReport
      BY <1>4, <2>1, <2>3 DEF ReadUrl, TypeOK
    <3> QED
      BY <3>1, <1>1, <2>1 DEF ReportOK, NoReport
  <2> QED
    BY <2>2, <2>3
<1>5. CASE CountRecent(q)
  <2>1. PICK u \in report[q].url : report' = [report EXCEPT ![q].recent = Cardinality(recent[u])]
    BY <1>5 DEF CountRecent
  <2>2. pc[q] = "recent" /\ pc'[q] = "referrers"
    BY <1>5 DEF CountRecent, TypeOK
  <2>3. /\ report'[q].url = report[q].url /\ report'[q].total = report[q].total
        /\ report'[q].start = report[q].start /\ report'[q].recent = Cardinality(recent[u])
        /\ report'[q].referrers = report[q].referrers /\ report'[q].agents = report[q].agents
    BY <2>1 DEF TypeOK
  <2> QED
    BY <2>2, <2>3, <1>1, <1>2, <1>3 DEF ReportOK, Ranked
<1>6. CASE RankReferrers(q)
  <2> DEFINE top(u) == TopClicks(u, ByReferrer)
  <2>1. PICK u \in report[q].url : report' = [report EXCEPT ![q].referrers = top(u)]
    BY <1>6 DEF RankReferrers
  <2>2. pc[q] = "referrers" /\ pc'[q] = "agents"
    BY <1>6 DEF RankReferrers, TypeOK
  <2>3. /\ report'[q].url = report[q].url /\ report'[q].total = report[q].total
        /\ report'[q].start = report[q].start /\ report'[q].recent = report[q].recent
        /\ report'[q].referrers = top(u) /\ report'[q].agents = report[q].agents
    BY <2>1 DEF TypeOK
  <2>4. /\ top(u) \in 0..clickCount[u] /\ top(u) <= ClicksFrom(u, Sources)
        /\ RanksAll(u, ByReferrer) /\ u \in Stored =>
              report[q].start <= top(u) /\ report[q].recent <= top(u)
    BY <1>2, <1>3, <2>2 DEF ReportOK, Ranking
  <2> HIDE DEF top
  <2> QED
    BY <2>2, <2>3, <2>4, <1>1, <1>2, <1>3 DEF ReportOK, Ranked
<1>7. CASE RankAgents(q)
  <2> DEFINE top(u) == TopClicks(u, ByAgent)
  <2>1. PICK u \in report[q].url : report' = [report EXCEPT ![q].agents = top(u)]
    BY <1>7 DEF RankAgents
  <2>2. pc[q] = "agents" /\ pc'[q] = "done"
    BY <1>7 DEF RankAgents, TypeOK
  <2>3. /\ report'[q].url = report[q].url /\ report'[q].total = report[q].total
        /\ report'[q].start = report[q].start /\ report'[q].recent = report[q].recent
        /\ report'[q].referrers = report[q].referrers /\ report'[q].agents = top(u)
    BY <2>1 DEF TypeOK
  <2>4. /\ top(u) \in 0..clickCount[u]
        /\ RanksAll(u, ByAgent) /\ u \in Stored =>
              /\ report[q].start <= top(u) /\ report[q].recent <= top(u)
              /\ report[q].referrers <= top(u)
    BY <1>2, <1>3, <2>2 DEF ReportOK, Ranking, Ranked
  <2> HIDE DEF top
  <2> QED
    BY <2>2, <2>3, <2>4, <1>1, <1>2, <1>3 DEF ReportOK, Ranked
<1> QED
  BY <1>4, <1>5, <1>6, <1>7

LEMMA ReportStep ==
    ASSUME TypeOK, ClicksInv, TypeOK', ClicksInv', ReportInv, [Next]_vars
    PROVE  ReportInv'
<1> SUFFICES ASSUME NEW q \in Readers PROVE ReportOK(q)'
  BY DEF ReportInv
<1> USE DEF urlVars, readerVars
<1>1. ReportOK(q)
  BY DEF ReportInv
<1>2. CASE UNCHANGED vars
  <2>1. TablesGrow
    BY <1>2 DEF vars, TablesGrow, TypeOK, Figures
  <2> QED
    BY <1>1, <1>2, <2>1, ReportKept DEF vars
<1>3. CASE Next
  <2>1. TablesGrow
    BY <1>3, GrowthStep
  <2>2. ASSUME reading' = reading, report' = report, pc' = pc PROVE ReportOK(q)'
    BY <1>1, <2>1, <2>2, ReportKept
  <2>3. ASSUME NEW u \in Urls,
               \/ \E c \in Codes : BeginCreate(u, c)
               \/ CommitCreate(u) \/ DeleteUrl(u) \/ Increment(u)
               \/ \E s \in Sources : RecordClick(u, s)
        PROVE  ReportOK(q)'
    BY <2>2, <2>3 DEF BeginCreate, CommitCreate, DeleteUrl, Increment, RecordClick
  <2>4. CASE Tick \/ DayPasses
    BY <2>2, <2>4 DEF Tick, DayPasses
  <2>5. ASSUME NEW r \in Readers, NEW limit \in Limits, StartWalk(r, limit) PROVE ReportOK(q)'
    <3>1. reading' = reading /\ report' = report
      BY <2>5 DEF StartWalk
    <3>2. pc'[q] = pc[q] \/ (report[q].url = {} /\ pc'[q] = "page")
      BY <2>5, <1>1 DEF StartWalk, TypeOK, ReportOK, NoReport
    <3> QED
      BY <3>1, <3>2, <1>1, <2>1, ReportKept
  <2>6. ASSUME NEW r \in Readers, ListPage(r) \/ ListFails(r) PROVE ReportOK(q)'
    <3>1. reading' = reading /\ report' = report
      BY <2>6 DEF ListPage, ListFails
    <3>2. pc[r] = "page" /\ pc'[r] \in {"page", "done", "error"} /\ (q # r => pc'[q] = pc[q])
      BY <2>6 DEF ListPage, ListFails, TypeOK
    <3>3. q = r => report[q].url = {}
      BY <3>2, <1>1 DEF ReportOK
    <3> QED
      BY <3>1, <3>2, <3>3, <1>1, <2>1, ReportKept
  <2>7. ASSUME NEW r \in Readers,
               (\E c \in Codes : ReadUrl(r, c)) \/ CountRecent(r) \/ RankReferrers(r) \/ RankAgents(r)
        PROVE  ReportOK(q)'
    <3>1. CASE q = r
      BY <2>7, <3>1, <1>1, ReportRead
    <3>2. CASE q # r
      <4>1. reading' = reading /\ report'[q] = report[q] /\ pc'[q] = pc[q]
        <5>1. CASE \E c \in Codes : ReadUrl(r, c)
          <6>1. PICK c \in Codes : ReadUrl(r, c)
            BY <5>1
          <6>2. reading' = reading /\ pc'[q] = pc[q]
            BY <3>2, <6>1 DEF ReadUrl, TypeOK
          <6>3. CASE \E u \in Stored : code[u] = c
            BY <3>2, <6>1, <6>2, <6>3 DEF ReadUrl, TypeOK
          <6>4. CASE ~\E u \in Stored : code[u] = c
            BY <6>1, <6>2, <6>4 DEF ReadUrl
          <6> QED
            BY <6>3, <6>4
        <5>2. CASE CountRecent(r) \/ RankReferrers(r) \/ RankAgents(r)
          BY <3>2, <5>2 DEF CountRecent, RankReferrers, RankAgents, TypeOK
        <5> QED
          BY <2>7, <5>1, <5>2
      <4> QED
        BY <4>1, <1>1, <2>1, ReportKept
    <3> QED
      BY <3>1, <3>2
  <2> QED
    BY <1>3, <2>3, <2>4, <2>5, <2>6, <2>7 DEF Next
<1> QED
  BY <1>2, <1>3

-----------------------------------------------------------------------------
(* Walks                                                                   *)

(* At most one element more than another set                               *)
LEMMA OneMore ==
    ASSUME NEW S, IsFiniteSet(S), NEW W, \A a, b \in W : a = b, NEW T, T \subseteq S \cup W
    PROVE  /\ IsFiniteSet(T) /\ Cardinality(T) \in Nat /\ Cardinality(S) \in Nat
           /\ Cardinality(T) <= Cardinality(S) + 1
<1>1. CASE W = {}
  BY <1>1, PartOf
<1>2. CASE W # {}
  <2>1. PICK a \in W : W = {a}
    BY <1>2
  <2>2. /\ IsFiniteSet(S \cup {a})
        /\ Cardinality(S \cup {a}) = IF a \in S THEN Cardinality(S) ELSE Cardinality(S) + 1
    BY FS_AddElement
  <2>3. /\ IsFiniteSet(T) /\ Cardinality(T) \in Nat
        /\ Cardinality(T) <= Cardinality(S \cup {a}) /\ Cardinality(S) \in Nat
    BY <2>1, <2>2, PartOf
  <2> QED
    BY <2>2, <2>3
<1> QED
  BY <1>1, <1>2

LEMMA PairSets ==
    ASSUME NEW n \in Nat, NEW S, S \subseteq Urls \X (0..n)
    PROVE  IsFiniteSet(S) /\ Cardinality(S) \in Nat
<1>1. IsFiniteSet(0..n)
  BY FS_Interval
<1>2. IsFiniteSet(Urls \X (0..n))
  BY <1>1, FS_Product
<1> QED
  BY <1>2, PartOf

(* Where a row stands in the order of the listing                          *)
LEMMA NewerOrder ==
    ASSUME TypeOK, NEW u \in Stored, NEW v \in Urls, created[u] > created[v]
    PROVE  /\ Cardinality(Newer(u)) \in Nat /\ Cardinality(Newer(v)) \in Nat
           /\ Cardinality(Newer(u)) < Cardinality(Newer(v))
<1>1. u \in Urls /\ Newer(u) \subseteq Urls /\ Newer(v) \subseteq Urls
  BY DEF Newer, Stored
<1>2. u \notin Newer(u)
  BY <1>1 DEF Newer, TypeOK
<1>3. Newer(u) \cup {u} \subseteq Newer(v)
  BY <1>1 DEF Newer, TypeOK, Stored
<1>4. IsFiniteSet(Newer(u)) /\ Cardinality(Newer(u)) \in Nat /\ IsFiniteSet(Newer(v))
  BY <1>1, RowSets
<1>5. Cardinality(Newer(u) \cup {u}) = Cardinality(Newer(u)) + 1
  BY <1>2, <1>4, FS_AddElement
<1>6. Cardinality(Newer(u) \cup {u}) <= Cardinality(Newer(v)) /\ Cardinality(Newer(v)) \in Nat
  BY <1>3, <1>4, PartOf
<1> QED
  BY <1>4, <1>5, <1>6

At(k) == {u \in Stored : Untied(u) /\ Cardinality(Newer(u)) = k}

LEMMA OneAtEachPlace ==
    ASSUME TypeOK, NEW k
    PROVE  \A u, v \in At(k) : u = v
<1> SUFFICES ASSUME NEW u \in At(k), NEW v \in At(k), u # v PROVE FALSE
  OBVIOUS
<1>1. u \in Stored /\ v \in Stored /\ u \in Urls /\ v \in Urls
  BY DEF At, Stored
<1>2. created[u] # created[v]
  BY <1>1 DEF At, Untied, Stored
<1>3. created[u] > created[v] \/ created[v] > created[u]
  <2>1. created[u] \in 0..MaxTime /\ created[v] \in 0..MaxTime
    BY <1>1 DEF TypeOK
  <2>2. created[u] \in Int /\ created[v] \in Int
    BY <2>1
  <2> QED
    BY <1>2, <2>2
<1>4. Cardinality(Newer(u)) = Cardinality(Newer(v))
  BY DEF At
<1>5. CASE created[u] > created[v]
  BY <1>1, <1>4, <1>5, NewerOrder
<1>6. CASE created[v] > created[u]
  BY <1>1, <1>4, <1>6, NewerOrder
<1> QED
  BY <1>3, <1>5, <1>6

(* A row that came keeps its created_at, and its ties.                     *)
RowsStay == \A u \in Urls : Came(u) => Came(u)' /\ created'[u] = created[u]

LEMMA FaultsShrink ==
    ASSUME TypeOK, RowsStay, NEW q \in Readers, WalkOK(q), walk'[q] = walk[q],
           changes'[q].kept \subseteq changes[q].kept
    PROVE  /\ \A u \in Urls : Came(u) /\ Untied(u)' => Untied(u)
           /\ Skipped(q)' \subseteq Skipped(q)
           /\ Repeats(q)' \subseteq Repeats(q)
           /\ IsFiniteSet(Skipped(q)) /\ IsFiniteSet(Repeats(q))
           /\ Cardinality(Skipped(q)') \in Nat /\ Cardinality(Repeats(q)') \in Nat
           /\ Cardinality(Skipped(q)') <= Cardinality(Skipped(q))
           /\ Cardinality(Repeats(q)') <= Cardinality(Repeats(q))
<1>1. ASSUME NEW u \in Urls, Came(u), Untied(u)' PROVE Untied(u)
  BY <1>1 DEF RowsStay, Untied, Came
<1>2. changes[q].kept \subseteq Urls /\ walk[q].skip \in Nat
  BY DEF TypeOK
<1>3. Skipped(q)' \subseteq Skipped(q)
  BY <1>1, <1>2 DEF Skipped, WalkOK
<1>4. Repeats(q)' \subseteq Repeats(q)
  <2> SUFFICES ASSUME NEW r \in Repeats(q)' PROVE r \in Repeats(q)
    OBVIOUS
  <2>1. /\ r \in Urls \X (0..walk[q].skip) /\ Untied(r[1])' /\ r[2] \in walk[q].seen[r[1]]
        /\ \E s \in walk[q].seen[r[1]] : s < r[2]
    BY DEF Repeats
  <2>2. r[1] \in Urls
    BY <2>1
  <2>3. Came(r[1])
    BY <2>1, <2>2 DEF WalkOK
  <2>4. Untied(r[1])
    BY <1>1, <2>1, <2>2, <2>3
  <2> QED
    BY <2>1, <2>4 DEF Repeats
<1>5. Skipped(q) \subseteq Urls /\ Repeats(q) \subseteq Urls \X (0..walk[q].skip)
  BY <1>2 DEF Skipped, Repeats
<1>6. IsFiniteSet(Skipped(q)) /\ IsFiniteSet(Repeats(q))
  BY <1>2, <1>5, RowSets, PairSets
<1> QED
  BY <1>1, <1>3, <1>4, <1>6, PartOf

(* A step that neither stores nor deletes a row                            *)
LEMMA WalkKept ==
    ASSUME TypeOK, NEW q \in Readers, WalkOK(q), reading' = reading,
           \A u \in Urls : /\ Came(u)' <=> Came(u)
                           /\ Came(u) => stage'[u] = stage[u] /\ created'[u] = created[u],
           walk'[q] = walk[q], changes'[q] = changes[q],
           pc'[q] = pc[q] \/ (pc'[q] \notin {"idle", "page"} /\ ~WalkDone(q)')
    PROVE  WalkOK(q)'
<1>1. Stored' = Stored
  BY DEF Stored, Came
<1>2. \A u \in Stored : Newer(u)' = Newer(u)
  BY <1>1 DEF Newer, Stored, Came
<1>3. \A u \in Urls : Came(u) => (Untied(u)' <=> Untied(u))
  BY DEF Untied, Came
<1>4. changes[q].kept \subseteq Urls
  BY DEF TypeOK
<1>5. RowsStay
  BY DEF RowsStay
<1>6. /\ Skipped(q)' \subseteq Skipped(q) /\ Repeats(q)' \subseteq Repeats(q)
      /\ IsFiniteSet(Skipped(q)) /\ IsFiniteSet(Repeats(q))
      /\ Cardinality(Skipped(q)') \in Nat /\ Cardinality(Repeats(q)') \in Nat
      /\ Cardinality(Skipped(q)') <= Cardinality(Skipped(q))
      /\ Cardinality(Repeats(q)') <= Cardinality(Repeats(q))
  BY <1>5, FaultsShrink
<1>7. ASSUME pc[q] = "page", pc'[q] = "page"
      PROVE  /\ changes[q].kept \subseteq Stored'
             /\ Cardinality(Slipped(q)') <= changes[q].deleted
             /\ Cardinality(Repeats(q)') + Cardinality(Pending(q)') <= changes[q].inserted
  <2>1. changes[q].kept \subseteq Stored
    BY <1>7 DEF WalkOK
  <2>2. Slipped(q)' \subseteq Slipped(q)
    BY <1>2, <1>6, <2>1 DEF Slipped, Skipped
  <2>3. Pending(q)' \subseteq Pending(q)
    BY <1>1, <1>2, <1>3 DEF Pending, Stored, Came
  <2>4. Slipped(q) \subseteq Urls /\ Pending(q) \subseteq Urls
    BY <1>4 DEF Slipped, Skipped, Pending, Stored
  <2>5. /\ Cardinality(Slipped(q)') \in Nat /\ Cardinality(Slipped(q)) \in Nat
        /\ Cardinality(Slipped(q)') <= Cardinality(Slipped(q))
        /\ Cardinality(Pending(q)') \in Nat /\ Cardinality(Pending(q)) \in Nat
        /\ Cardinality(Pending(q)') <= Cardinality(Pending(q))
    BY <2>2, <2>3, <2>4, RowSets, PartOf
  <2>6. Cardinality(Repeats(q)) \in Nat
    BY <1>6, FS_CardinalityType
  <2>7. changes[q].deleted \in Nat /\ changes[q].inserted \in Nat
    BY DEF TypeOK
  <2> QED
    BY <1>1, <1>6, <1>7, <2>1, <2>5, <2>6, <2>7 DEF WalkOK
<1>8. ASSUME WalkDone(q)'
      PROVE  /\ Cardinality(Skipped(q)') <= changes[q].deleted
             /\ Cardinality(Repeats(q)') <= changes[q].inserted
  <2>1. WalkDone(q)
    BY <1>8 DEF WalkDone
  <2>2. Cardinality(Repeats(q)) \in Nat /\ Cardinality(Skipped(q)) \in Nat
    BY <1>6, FS_CardinalityType
  <2>3. changes[q].deleted \in Nat /\ changes[q].inserted \in Nat
    BY DEF TypeOK
  <2> QED
    BY <1>6, <2>1, <2>2, <2>3 DEF WalkOK
<1> QED
  BY <1>4, <1>7, <1>8 DEF WalkOK

(* The end of a walk, while rows come and go                               *)
LEMMA WalkOver ==
    ASSUME TypeOK, RowsStay, NEW q \in Readers, WalkOK(q), reading' = reading, pc[q] # "page",
           pc'[q] = pc[q], walk'[q] = walk[q], changes'[q] = changes[q]
    PROVE  WalkOK(q)'
<1>1. /\ IsFiniteSet(Skipped(q)) /\ IsFiniteSet(Repeats(q))
      /\ Cardinality(Skipped(q)') \in Nat /\ Cardinality(Repeats(q)') \in Nat
      /\ Cardinality(Skipped(q)') <= Cardinality(Skipped(q))
      /\ Cardinality(Repeats(q)') <= Cardinality(Repeats(q))
  BY FaultsShrink
<1>2. Cardinality(Repeats(q)) \in Nat /\ Cardinality(Skipped(q)) \in Nat
  BY <1>1, FS_CardinalityType
<1>3. changes[q].deleted \in Nat /\ changes[q].inserted \in Nat /\ changes[q].kept \subseteq Urls
  BY DEF TypeOK
<1>4. WalkDone(q)' => WalkDone(q)
  BY DEF WalkDone
<1> QED
  BY <1>1, <1>2, <1>3, <1>4 DEF WalkOK, RowsStay


(* A row comes: one row at most is pushed back to where the walk stands.   *)
LEMMA RowComes ==
    ASSUME TypeOK, NEW q \in Readers, WalkOK(q), pc[q] = "page", NEW c \in Urls, stage[c] = "open",
           reading' = reading, stage' = [stage EXCEPT ![c] = "stored"], created' = created,
           Notice({c}, {}), pc'[q] = pc[q], walk'[q] = walk[q]
    PROVE  WalkOK(q)'
<1> DEFINE k == walk[q].skip
<1>1. /\ changes'[q].kept = changes[q].kept /\ changes'[q].deleted = changes[q].deleted
      /\ changes'[q].inserted = changes[q].inserted + 1
  <2>1. Cardinality({c}) = 1 /\ Cardinality({}) = 0
    BY FS_Singleton, FS_EmptySet
  <2>2. changes[q].deleted \in Nat /\ changes[q].inserted \in Nat
    BY DEF TypeOK
  <2> QED
    BY <2>1, <2>2 DEF Notice
<1>2. RowsStay /\ Stored' = Stored \cup {c} /\ c \notin Stored /\ ~Came(c)
  BY DEF RowsStay, Came, Stored, TypeOK
<1>3. /\ \A u \in Urls : Came(u) /\ Untied(u)' => Untied(u)
      /\ Skipped(q)' \subseteq Skipped(q) /\ IsFiniteSet(Repeats(q))
      /\ Cardinality(Repeats(q)') \in Nat /\ Cardinality(Repeats(q)') <= Cardinality(Repeats(q))
  BY <1>1, <1>2, FaultsShrink
<1>4. ASSUME NEW u \in Urls
      PROVE  /\ Cardinality(Newer(u)) \in Nat /\ Cardinality(Newer(u)') \in Nat
             /\ Cardinality(Newer(u)) <= Cardinality(Newer(u)')
             /\ Cardinality(Newer(u)') <= Cardinality(Newer(u)) + 1
  <2>1. Newer(u) \subseteq Urls /\ Newer(u)' \subseteq Urls
    BY DEF Newer, Stored
  <2>2. Newer(u) \subseteq Newer(u)' /\ Newer(u)' \subseteq Newer(u) \cup {c}
    BY <1>2 DEF Newer
  <2>3. IsFiniteSet(Newer(u)) /\ IsFiniteSet(Newer(u)')
    BY <2>1, RowSets
  <2>4. \A a, b \in {c} : a = b
    OBVIOUS
  <2> QED
    BY <2>2, <2>3, <2>4, PartOf, OneMore
<1>5. changes[q].kept \subseteq Stored /\ changes[q].kept \subseteq Urls
  BY DEF WalkOK, TypeOK
<1>6. k \in Nat
  BY DEF TypeOK
<1>7. Cardinality(Slipped(q)') <= changes[q].deleted
  <2>1. Slipped(q)' \subseteq Slipped(q)
    <3> SUFFICES ASSUME NEW u \in Slipped(q)' PROVE u \in Slipped(q)
      OBVIOUS
    <3>1. u \in Skipped(q) /\ u \in Urls /\ Cardinality(Newer(u)') < k
      BY <1>3, <1>5 DEF Slipped, Skipped
    <3> QED
      BY <3>1, <1>4, <1>6 DEF Slipped
  <2>2. Slipped(q) \subseteq Urls
    BY <1>5 DEF Slipped, Skipped
  <2>3. /\ Cardinality(Slipped(q)') \in Nat /\ Cardinality(Slipped(q)) \in Nat
        /\ Cardinality(Slipped(q)') <= Cardinality(Slipped(q))
    BY <2>1, <2>2, RowSets, PartOf
  <2>4. changes[q].deleted \in Nat
    BY DEF TypeOK
  <2> QED
    BY <2>3, <2>4 DEF WalkOK
<1>8. /\ Cardinality(Pending(q)') \in Nat /\ Cardinality(Pending(q)) \in Nat
      /\ Cardinality(Pending(q)') <= Cardinality(Pending(q)) + 1
  <2>1. Pending(q)' \subseteq Pending(q) \cup At(k - 1)
    <3> SUFFICES ASSUME NEW u \in Pending(q)' PROVE u \in Pending(q) \cup At(k - 1)
      OBVIOUS
    <3>1. /\ u \in Stored' /\ u \in Urls /\ Untied(u)' /\ walk[q].seen[u] # {}
          /\ Cardinality(Newer(u)') >= k
      BY DEF Pending, Stored
    <3>2. Came(u) /\ u \in Stored /\ Untied(u)
      BY <3>1, <1>2, <1>3 DEF WalkOK
    <3>3. Cardinality(Newer(u)) >= k \/ Cardinality(Newer(u)) = k - 1
      BY <3>1, <1>4, <1>6
    <3> QED
      BY <3>1, <3>2, <3>3 DEF Pending, At
  <2>2. Pending(q) \subseteq Urls
    BY DEF Pending, Stored
  <2>3. \A a, b \in At(k - 1) : a = b
    BY OneAtEachPlace
  <2>4. IsFiniteSet(Pending(q))
    BY <2>2, RowSets
  <2> QED
    BY <2>1, <2>3, <2>4, OneMore
<1>9. Cardinality(Repeats(q)') + Cardinality(Pending(q)') <= changes[q].inserted + 1
  <2>1. Cardinality(Repeats(q)) \in Nat /\ changes[q].inserted \in Nat
    BY <1>3, FS_CardinalityType DEF TypeOK
  <2>2. Cardinality(Repeats(q)) + Cardinality(Pending(q)) <= changes[q].inserted
    BY DEF WalkOK
  <2> QED
    BY <2>1, <2>2, <1>3, <1>8
<1>10. /\ \A u \in Urls : /\ walk'[q].seen[u] # {} => Came(u)'
                          /\ \A s \in walk'[q].seen[u] : s < walk'[q].skip
       /\ \A u \in changes'[q].kept : Came(u)'
  BY <1>1, <1>2, <1>5 DEF WalkOK, RowsStay
<1>11. changes'[q].kept \subseteq Stored'
  BY <1>1, <1>2, <1>5
<1>12. pc'[q] = "page" /\ ~WalkDone(q)'
  BY DEF WalkDone
<1> QED
  BY <1>1, <1>7, <1>9, <1>10, <1>11, <1>12 DEF WalkOK

(* A row goes: one row at most falls to where the walk has passed.         *)
LEMMA RowGoes ==
    ASSUME TypeOK, NEW q \in Readers, WalkOK(q), pc[q] = "page", NEW c \in Stored,
           reading' = reading, stage' = [stage EXCEPT ![c] = "gone"], created' = created,
           Notice({}, {c}), pc'[q] = pc[q], walk'[q] = walk[q]
    PROVE  WalkOK(q)'
<1> DEFINE k == walk[q].skip
<1>1. /\ changes'[q].kept = changes[q].kept \ {c}
      /\ changes'[q].deleted = changes[q].deleted + 1
      /\ changes'[q].inserted = changes[q].inserted
  <2>1. Cardinality({c}) = 1 /\ Cardinality({}) = 0
    BY FS_Singleton, FS_EmptySet
  <2>2. changes[q].deleted \in Nat /\ changes[q].inserted \in Nat
    BY DEF TypeOK
  <2> QED
    BY <2>1, <2>2 DEF Notice
<1>2. RowsStay /\ Stored' = Stored \ {c} /\ c \in Urls
  BY DEF RowsStay, Came, Stored, TypeOK
<1>3. /\ \A u \in Urls : Came(u) /\ Untied(u)' => Untied(u)
      /\ Skipped(q)' \subseteq Skipped(q) /\ IsFiniteSet(Repeats(q))
      /\ Cardinality(Repeats(q)') \in Nat /\ Cardinality(Repeats(q)') <= Cardinality(Repeats(q))
  BY <1>1, <1>2, FaultsShrink
<1>4. ASSUME NEW u \in Urls
      PROVE  /\ Cardinality(Newer(u)) \in Nat /\ Cardinality(Newer(u)') \in Nat
             /\ Cardinality(Newer(u)') <= Cardinality(Newer(u))
             /\ Cardinality(Newer(u)) <= Cardinality(Newer(u)') + 1
  <2>1. Newer(u) \subseteq Urls /\ Newer(u)' \subseteq Urls
    BY DEF Newer, Stored
  <2>2. Newer(u)' \subseteq Newer(u) /\ Newer(u) \subseteq Newer(u)' \cup {c}
    BY <1>2 DEF Newer
  <2>3. IsFiniteSet(Newer(u)) /\ IsFiniteSet(Newer(u)')
    BY <2>1, RowSets
  <2>4. \A a, b \in {c} : a = b
    OBVIOUS
  <2> QED
    BY <2>2, <2>3, <2>4, PartOf, OneMore
<1>5. changes[q].kept \subseteq Stored /\ changes[q].kept \subseteq Urls
  BY DEF WalkOK, TypeOK
<1>6. k \in Nat
  BY DEF TypeOK
<1>7. Cardinality(Slipped(q)') <= changes[q].deleted + 1
  <2>1. Slipped(q)' \subseteq Slipped(q) \cup At(k)
    <3> SUFFICES ASSUME NEW u \in Slipped(q)' PROVE u \in Slipped(q) \cup At(k)
      OBVIOUS
    <3>1. u \in Skipped(q) /\ u \in Urls /\ u \in Stored /\ Cardinality(Newer(u)') < k
      BY <1>3, <1>5 DEF Slipped, Skipped
    <3>2. Cardinality(Newer(u)) < k \/ Cardinality(Newer(u)) = k
      BY <3>1, <1>4, <1>6
    <3> QED
      BY <3>1, <3>2 DEF Slipped, At, Skipped
  <2>2. Slipped(q) \subseteq Urls
    BY <1>5 DEF Slipped, Skipped
  <2>3. \A a, b \in At(k) : a = b
    BY OneAtEachPlace
  <2>4. IsFiniteSet(Slipped(q))
    BY <2>2, RowSets
  <2>5. /\ Cardinality(Slipped(q)') \in Nat /\ Cardinality(Slipped(q)) \in Nat
        /\ Cardinality(Slipped(q)') <= Cardinality(Slipped(q)) + 1
    BY <2>1, <2>3, <2>4, OneMore
  <2>6. changes[q].deleted \in Nat /\ Cardinality(Slipped(q)) <= changes[q].deleted
    BY DEF TypeOK, WalkOK
  <2> QED
    BY <2>5, <2>6
<1>8. /\ Cardinality(Pending(q)') \in Nat /\ Cardinality(Pending(q)) \in Nat
      /\ Cardinality(Pending(q)') <= Cardinality(Pending(q))
  <2>1. Pending(q)' \subseteq Pending(q)
    <3> SUFFICES ASSUME NEW u \in Pending(q)' PROVE u \in Pending(q)
      OBVIOUS
    <3>1. /\ u \in Stored' /\ u \in Urls /\ Untied(u)' /\ walk[q].seen[u] # {}
          /\ Cardinality(Newer(u)') >= k
      BY DEF Pending, Stored
    <3>2. Came(u) /\ u \in Stored /\ Untied(u)
      BY <3>1, <1>2, <1>3 DEF WalkOK
    <3> QED
      BY <3>1, <3>2, <1>4, <1>6 DEF Pending
  <2>2. Pending(q) \subseteq Urls
    BY DEF Pending, Stored
  <2> QED
    BY <2>1, <2>2, RowSets, PartOf
<1>9. Cardinality(Repeats(q)') + Cardinality(Pending(q)') <= changes[q].inserted
  <2>1. Cardinality(Repeats(q)) \in Nat /\ changes[q].inserted \in Nat
    BY <1>3, FS_CardinalityType DEF TypeOK
  <2>2. Cardinality(Repeats(q)) + Cardinality(Pending(q)) <= changes[q].inserted
    BY DEF WalkOK
  <2> QED
    BY <2>1, <2>2, <1>3, <1>8
<1>10. /\ \A u \in Urls : /\ walk'[q].seen[u] # {} => Came(u)'
                          /\ \A s \in walk'[q].seen[u] : s < walk'[q].skip
       /\ \A u \in changes'[q].kept : Came(u)'
  BY <1>1, <1>2, <1>5 DEF WalkOK, RowsStay
<1>11. changes'[q].kept \subseteq Stored'
  BY <1>1, <1>2, <1>5
<1>12. pc'[q] = "page" /\ ~WalkDone(q)'
  BY DEF WalkDone
<1> QED
  BY <1>1, <1>7, <1>9, <1>10, <1>11, <1>12 DEF WalkOK


LEMMA WalkStarts ==
    ASSUME TypeOK, NEW q \in Readers, WalkOK(q), NEW limit \in Limits, StartWalk(q, limit)
    PROVE  WalkOK(q)'
<1>1. pc[q] = "idle" /\ pc'[q] = "page" /\ stage' = stage
  BY DEF StartWalk, TypeOK, urlVars
<1>2. walk[q] = NoWalk /\ changes[q] = NoChanges
  BY <1>1 DEF WalkOK
<1>3. /\ walk'[q].skip = 0 /\ walk'[q].seen = [u \in Urls |-> {}]
      /\ changes'[q].kept = Stored /\ changes'[q].deleted = 0 /\ changes'[q].inserted = 0
  BY <1>2 DEF StartWalk, TypeOK, NoWalk, NoChanges
<1>4. Repeats(q)' = {}
  <2> SUFFICES ASSUME NEW r \in Repeats(q)' PROVE FALSE
    OBVIOUS
  <2>1. r \in Urls \X (0..0) /\ r[2] \in walk'[q].seen[r[1]]
    BY <1>3 DEF Repeats
  <2> QED
    BY <2>1, <1>3
<1>5. Pending(q)' = {}
  BY <1>3 DEF Pending, Stored
<1>6. Slipped(q)' = {}
  <2> SUFFICES ASSUME NEW u \in Slipped(q)' PROVE FALSE
    OBVIOUS
  <2>1. Cardinality(Newer(u)') < 0
    BY <1>3 DEF Slipped
  <2>2. Cardinality(Newer(u)') \in Nat
    <3>1. Newer(u)' \subseteq Urls
      BY DEF Newer, Stored
    <3> QED
      BY <3>1, RowSets
  <2> QED
    BY <2>1, <2>2
<1>7. Cardinality({}) = 0
  BY FS_EmptySet
<1>8. Stored' = Stored /\ \A u \in Stored : Came(u)'
  BY <1>1 DEF Stored, Came
<1>9. ~WalkDone(q)'
  BY <1>1 DEF WalkDone
<1> QED
  BY <1>1, <1>3, <1>4, <1>5, <1>6, <1>7, <1>8, <1>9 DEF WalkOK

(* A page: it shows again only rows the walk was going to come to again,   *)
(* and passes no row.                                                      *)
LEMMA PageRead ==
    ASSUME TypeOK, NEW q \in Readers, WalkOK(q), ListPage(q)
    PROVE  WalkOK(q)'
<1> DEFINE k == walk[q].skip
           n == PageLimit(walk[q].limit)
<1>1. walk[q].limit \in Limits \cup {0} /\ k \in Nat /\ walk[q].limit >= 0 /\ pc[q] = "page"
  BY DEF ListPage, TypeOK
<1>2. PICK page \in Pages(k, n) :
        /\ walk' = [walk EXCEPT ![q] =
              [limit |-> @.limit, skip |-> @.skip + Cardinality(page), page |-> page,
               seen |-> [u \in Urls |-> @.seen[u] \cup {s \in {@.skip} : u \in page}]]]
        /\ pc' = [pc EXCEPT ![q] = IF page = {} THEN "done" ELSE "page"]
  BY DEF ListPage
<1>3. n \in Nat /\ (walk[q].limit > 0 => n > 0)
  BY <1>1, PageLimitFacts
<1>4. /\ page \subseteq Stored /\ Cardinality(page) \in Nat
      /\ n > 0 /\ page = {} => Cardinality(Stored) <= k
  BY <1>1, <1>3, PageFacts
<1>5. /\ walk'[q].limit = walk[q].limit /\ walk'[q].skip = k + Cardinality(page)
      /\ \A u \in Urls : walk'[q].seen[u] = walk[q].seen[u] \cup {s \in {k} : u \in page}
      /\ pc'[q] = IF page = {} THEN "done" ELSE "page"
  BY <1>2 DEF TypeOK
<1>6. stage' = stage /\ created' = created /\ changes' = changes /\ reading' = reading
  BY DEF ListPage, urlVars
<1>7. Stored' = Stored /\ Stored \subseteq Urls
  BY <1>6 DEF Stored
<1>8. \A u \in Urls : Newer(u)' = Newer(u)
  BY <1>6, <1>7 DEF Newer
<1>9. \A u \in Urls : (Untied(u)' <=> Untied(u)) /\ (Came(u)' <=> Came(u))
  BY <1>6 DEF Untied, Came
<1>10. ASSUME NEW u \in Urls
       PROVE  /\ IsFiniteSet(Newer(u)) /\ Cardinality(Newer(u)) \in Nat
              /\ Newer(u) \subseteq Stored /\ u \notin Newer(u)
  <2>1. Newer(u) \subseteq Stored /\ u \notin Newer(u)
    BY DEF Newer, TypeOK
  <2> QED
    BY <2>1, <1>7, RowSets
<1>11. changes[q].kept \subseteq Stored
  BY <1>1 DEF WalkOK
<1>12. /\ \A u \in Stored : Came(u)
       /\ \A u \in changes[q].kept : Came(u)'
  BY <1>7, <1>9, <1>11 DEF Stored, Came
<1>13. Cardinality(page) = 0 <=> page = {}
  BY <1>4, <1>7, RowSets, FS_EmptySet
<1>14. \A u \in Urls : /\ walk'[q].seen[u] # {} => Came(u)'
                       /\ \A s \in walk'[q].seen[u] : s < walk'[q].skip
  <2> SUFFICES ASSUME NEW u \in Urls
               PROVE  /\ walk'[q].seen[u] # {} => Came(u)'
                      /\ \A s \in walk'[q].seen[u] : s < walk'[q].skip
    OBVIOUS
  <2>1. /\ walk[q].seen[u] # {} => Came(u)
        /\ \A s \in walk[q].seen[u] : s < k
    BY DEF WalkOK
  <2>2. walk[q].seen[u] \in SUBSET Nat
    BY DEF TypeOK
  <2>3. CASE u \in page
    <3>1. walk'[q].seen[u] = walk[q].seen[u] \cup {k} /\ Cardinality(page) > 0
      BY <1>4, <1>5, <1>13, <2>3
    <3>2. Came(u)'
      BY <2>3, <1>4, <1>9, <1>12
    <3> QED
      BY <3>1, <3>2, <2>1, <2>2, <1>1, <1>4, <1>5
  <2>4. CASE u \notin page
    <3>1. walk'[q].seen[u] = walk[q].seen[u]
      BY <1>5, <2>4
    <3> QED
      BY <3>1, <2>1, <2>2, <1>1, <1>4, <1>5, <1>9
  <2> QED
    BY <2>3, <2>4
<1>15. /\ Slipped(q) \subseteq Urls /\ Pending(q) \subseteq Urls
       /\ Repeats(q) \subseteq Urls \X (0..k)
  BY <1>7, <1>11 DEF Slipped, Skipped, Pending, Repeats
<1>16. /\ IsFiniteSet(Slipped(q)) /\ Cardinality(Slipped(q)) \in Nat
       /\ IsFiniteSet(Pending(q)) /\ Cardinality(Pending(q)) \in Nat
       /\ IsFiniteSet(Repeats(q)) /\ Cardinality(Repeats(q)) \in Nat
       /\ changes[q].deleted \in Nat /\ changes[q].inserted \in Nat
  BY <1>1, <1>15, RowSets, PairSets DEF TypeOK
<1>17. /\ Cardinality(Slipped(q)) <= changes[q].deleted
       /\ Cardinality(Repeats(q)) + Cardinality(Pending(q)) <= changes[q].inserted
  BY <1>1 DEF WalkOK
<1>18. CASE page = {}
  <2>1. \A u \in Urls : walk'[q].seen[u] = walk[q].seen[u]
    BY <1>5, <1>18
  <2>2. walk'[q].skip = k /\ pc'[q] = "done"
    BY <1>1, <1>4, <1>5, <1>13, <1>18
  <2>3. Repeats(q)' \subseteq Repeats(q)
    BY <2>1, <2>2, <1>9 DEF Repeats
  <2>4. Cardinality(Repeats(q)') \in Nat /\ Cardinality(Repeats(q)') <= Cardinality(Repeats(q))
    BY <2>3, <1>16, PartOf
  <2>5. ASSUME WalkDone(q)' PROVE Cardinality(Skipped(q)') <= changes[q].deleted
    <3>1. Cardinality(Stored) <= k
      BY <2>5, <1>1, <1>3, <1>4, <1>5, <1>18 DEF WalkDone
    <3>2. Skipped(q)' \subseteq Slipped(q)
      <4> SUFFICES ASSUME NEW u \in Skipped(q)' PROVE u \in Slipped(q)
        OBVIOUS
      <4>1. u \in Skipped(q) /\ u \in Stored /\ u \in Urls
        BY <2>1, <1>6, <1>7, <1>9, <1>11 DEF Skipped
      <4>2. Newer(u) \cup {u} \subseteq Stored
            /\ Cardinality(Newer(u) \cup {u}) = Cardinality(Newer(u)) + 1
        BY <4>1, <1>10, FS_AddElement
      <4>3. IsFiniteSet(Stored) /\ Cardinality(Stored) \in Nat
        BY <1>7, RowSets
      <4>4. Cardinality(Newer(u) \cup {u}) <= Cardinality(Stored)
        BY <4>2, <4>3, PartOf
      <4>5. Cardinality(Newer(u)) < k
        BY <4>1, <4>2, <4>3, <4>4, <3>1, <1>1, <1>10
      <4> QED
        BY <4>1, <4>5 DEF Slipped
    <3>3. Cardinality(Skipped(q)') \in Nat /\ Cardinality(Skipped(q)') <= Cardinality(Slipped(q))
      BY <3>2, <1>16, PartOf
    <3> QED
      BY <3>3, <1>16, <1>17
  <2>6. Cardinality(Repeats(q)') <= changes[q].inserted
    BY <2>4, <1>16, <1>17
  <2> QED
    BY <2>2, <2>5, <2>6, <1>6, <1>12, <1>14 DEF WalkOK
<1>19. CASE page # {}
  <2>1. PICK above \in SUBSET (Stored \ page) :
          /\ Cardinality(above) = k
          /\ \A u \in above, v \in Stored \ above : created[u] >= created[v]
          /\ \A u \in page, v \in Stored \ (above \cup page) : created[u] >= created[v]
    BY <1>19 DEF Pages
  <2> DEFINE both == above \cup page
  <2>2. /\ IsFiniteSet(above) /\ IsFiniteSet(page) /\ IsFiniteSet(both)
        /\ Cardinality(both) = k + Cardinality(page)
    <3>1. IsFiniteSet(above) /\ IsFiniteSet(page) /\ above \cap page = {}
      BY <2>1, <1>4, <1>7, RowSets
    <3>2. IsFiniteSet(both) /\ Cardinality(both) =
            Cardinality(above) + Cardinality(page) - Cardinality(above \cap page)
      BY <3>1, FS_Union
    <3>3. Cardinality(above \cap page) = 0
      BY <3>1, FS_EmptySet
    <3> HIDE DEF both
    <3> QED
      BY <3>1, <3>2, <3>3, <2>1, <1>1, <1>4 DEF both
  <2>3. \A u \in Urls : created[u] \in Int
    BY DEF TypeOK
  <2>4. ASSUME NEW u \in above PROVE Cardinality(Newer(u)) < k
    <3>1. u \in Urls /\ u \in Stored
      BY <2>1, <1>7
    <3>2. Newer(u) \cup {u} \subseteq above
      BY <3>1, <2>1, <2>3, <1>7 DEF Newer
    <3>3. Cardinality(Newer(u) \cup {u}) = Cardinality(Newer(u)) + 1
      BY <3>1, <1>10, FS_AddElement
    <3>4. Cardinality(Newer(u) \cup {u}) <= Cardinality(above)
      BY <3>2, <2>2, PartOf
    <3> QED
      BY <3>1, <3>3, <3>4, <2>1, <1>1, <1>10
  <2>5. ASSUME NEW u \in page PROVE Cardinality(Newer(u)) < k + Cardinality(page)
    <3>1. u \in Urls /\ u \in Stored /\ u \notin above
      BY <2>1, <1>4, <1>7
    <3>2. Newer(u) \cup {u} \subseteq both
      BY <3>1, <2>1, <2>3, <1>7 DEF Newer
    <3>3. Cardinality(Newer(u) \cup {u}) = Cardinality(Newer(u)) + 1
      BY <3>1, <1>10, FS_AddElement
    <3>4. Cardinality(Newer(u) \cup {u}) <= Cardinality(both)
      BY <3>2, <2>2, PartOf
    <3> QED
      BY <3>1, <3>3, <3>4, <2>2, <1>1, <1>4, <1>10
  <2>6. ASSUME NEW u \in page, Untied(u) PROVE Cardinality(Newer(u)) >= k
    <3>1. u \in Urls /\ u \in Stored /\ u \notin above
      BY <2>1, <1>4, <1>7
    <3>2. above \subseteq Newer(u)
      <4> SUFFICES ASSUME NEW v \in above PROVE v \in Newer(u)
        OBVIOUS
      <4>1. v \in Stored /\ v \in Urls /\ v # u /\ created[v] >= created[u]
        BY <3>1, <2>1, <1>7
      <4>2. created[v] # created[u]
        BY <4>1, <3>1, <2>6 DEF Untied, Stored
      <4> QED
        BY <4>1, <4>2, <3>1, <2>3 DEF Newer
    <3> QED
      BY <3>1, <3>2, <2>1, <1>10, PartOf
  <2>7. ASSUME NEW u \in Stored \ both, Untied(u)
        PROVE  Cardinality(Newer(u)) >= k + Cardinality(page)
    <3>1. u \in Urls /\ u \in Stored
      BY <1>7
    <3>2. both \subseteq Newer(u)
      <4> SUFFICES ASSUME NEW v \in both PROVE v \in Newer(u)
        OBVIOUS
      <4>1. v \in Stored /\ v \in Urls /\ v # u /\ created[v] >= created[u]
        BY <3>1, <2>1, <1>4, <1>7
      <4>2. created[v] # created[u]
        BY <4>1, <3>1, <2>7 DEF Untied, Stored
      <4> QED
        BY <4>1, <4>2, <3>1, <2>3 DEF Newer
    <3> QED
      BY <3>1, <3>2, <2>2, <1>10, PartOf
  <2>8. Slipped(q)' \subseteq Slipped(q)
    <3> SUFFICES ASSUME NEW u \in Slipped(q)' PROVE u \in Slipped(q)
      OBVIOUS
    <3>1. /\ u \in changes[q].kept /\ u \in Stored /\ u \in Urls /\ Untied(u)
          /\ walk'[q].seen[u] = {} /\ Cardinality(Newer(u)) < k + Cardinality(page)
      BY <1>5, <1>6, <1>7, <1>8, <1>9, <1>11 DEF Slipped, Skipped
    <3>2. u \notin page /\ walk[q].seen[u] = {}
      BY <3>1, <1>5
    <3>3. u \in above
      BY <3>1, <3>2, <2>7, <1>1, <1>4, <1>10
    <3>4. Cardinality(Newer(u)) < k
      BY <3>3, <2>4
    <3> QED
      BY <3>1, <3>2, <3>4 DEF Slipped, Skipped
  <2> DEFINE again == Pending(q) \cap page
  <2>9. Pending(q)' \subseteq Pending(q) \ again
    <3> SUFFICES ASSUME NEW u \in Pending(q)' PROVE u \in Pending(q) \ again
      OBVIOUS
    <3>1. /\ u \in Stored /\ u \in Urls /\ Untied(u) /\ walk'[q].seen[u] # {}
          /\ Cardinality(Newer(u)) >= k + Cardinality(page)
      BY <1>5, <1>7, <1>8, <1>9 DEF Pending
    <3>2. u \notin page
      BY <3>1, <2>5, <1>1, <1>4, <1>10
    <3>3. walk[q].seen[u] # {} /\ Cardinality(Newer(u)) >= k
      BY <3>1, <3>2, <1>1, <1>4, <1>5, <1>10
    <3> QED
      BY <3>1, <3>2, <3>3 DEF Pending
  <2>10. Repeats(q)' \subseteq Repeats(q) \cup (again \X {k})
    <3> SUFFICES ASSUME NEW r \in Repeats(q)' PROVE r \in Repeats(q) \cup (again \X {k})
      OBVIOUS
    <3>1. /\ r \in Urls \X Nat /\ Untied(r[1])' /\ r[2] \in walk'[q].seen[r[1]]
          /\ \E s \in walk'[q].seen[r[1]] : s < r[2]
      BY <1>1, <1>4, <1>5 DEF Repeats
    <3> DEFINE u == r[1]
    <3>2. u \in Urls /\ r[2] \in Nat /\ r = <<u, r[2]>>
      BY <3>1
    <3> HIDE DEF u
    <3>3. Untied(u) /\ r[2] \in walk'[q].seen[u]
      BY <3>1, <3>2, <1>9 DEF u
    <3>4. PICK s \in walk'[q].seen[u] : s < r[2]
      BY <3>1 DEF u
    <3>5. walk'[q].seen[u] = walk[q].seen[u] \cup {t \in {k} : u \in page}
      BY <3>2, <1>5
    <3>6. \A t \in walk[q].seen[u] : t \in Nat /\ t < k
      BY <3>2 DEF WalkOK, TypeOK
    <3>7. s \in walk[q].seen[u]
      BY <3>2, <3>3, <3>4, <3>5, <3>6, <1>1
    <3>8. CASE r[2] \in walk[q].seen[u]
      <4>1. r[2] \in 0..k
        BY <3>2, <3>6, <3>8, <1>1
      <4> QED
        BY <4>1, <3>2, <3>3, <3>4, <3>7, <3>8 DEF Repeats
    <3>9. CASE r[2] \notin walk[q].seen[u]
      <4>1. r[2] = k /\ u \in page
        BY <3>3, <3>5, <3>9
      <4>2. u \in again
        BY <4>1, <3>3, <3>7, <2>6, <1>4 DEF Pending
      <4> QED
        BY <4>1, <4>2, <3>2
    <3> QED
      BY <3>8, <3>9
  <2>11. IsFiniteSet(again) /\ Cardinality(again) \in Nat
    BY <1>15, RowSets
  <2>12. /\ Cardinality(Pending(q)') \in Nat
         /\ Cardinality(Pending(q)') <= Cardinality(Pending(q)) - Cardinality(again)
    <3>1. /\ IsFiniteSet(Pending(q) \ again)
          /\ Cardinality(Pending(q) \ again) = Cardinality(Pending(q)) - Cardinality(Pending(q) \cap again)
      BY <1>16, FS_Difference
    <3>2. Pending(q) \cap again = again
      OBVIOUS
    <3>3. Cardinality(Pending(q)') \in Nat
          /\ Cardinality(Pending(q)') <= Cardinality(Pending(q) \ again)
      BY <2>9, <3>1, PartOf
    <3> QED
      BY <3>1, <3>2, <3>3
  <2>13. /\ Cardinality(Repeats(q)') \in Nat
         /\ Cardinality(Repeats(q)') <= Cardinality(Repeats(q)) + Cardinality(again)
    <3> DEFINE pairs == again \X {k}
    <3>1. IsFiniteSet({k}) /\ Cardinality({k}) = 1
      BY FS_Singleton
    <3>2. IsFiniteSet(pairs) /\ Cardinality(pairs) = Cardinality(again) * Cardinality({k})
      BY <3>1, <2>11, FS_Product
    <3>3. Cardinality(pairs) = Cardinality(again)
      BY <3>1, <3>2, <2>11
    <3> HIDE DEF pairs
    <3>4. /\ IsFiniteSet(Repeats(q) \cup pairs)
          /\ Cardinality(Repeats(q) \cup pairs) = Cardinality(Repeats(q)) + Cardinality(pairs)
                                                   - Cardinality(Repeats(q) \cap pairs)
      BY <3>2, <1>16, FS_Union
    <3>5. Cardinality(Repeats(q) \cap pairs) \in Nat
      BY <3>2, PartOf
    <3>6. Cardinality(Repeats(q)') \in Nat
          /\ Cardinality(Repeats(q)') <= Cardinality(Repeats(q) \cup pairs)
      BY <2>10, <3>4, PartOf DEF pairs
    <3> QED
      BY <3>3, <3>4, <3>5, <3>6, <2>11, <1>16
  <2>14. Cardinality(Slipped(q)') <= changes[q].deleted
    <3>1. Cardinality(Slipped(q)') \in Nat /\ Cardinality(Slipped(q)') <= Cardinality(Slipped(q))
      BY <2>8, <1>16, PartOf
    <3> QED
      BY <3>1, <1>16, <1>17
  <2>15. Cardinality(Repeats(q)') + Cardinality(Pending(q)') <= changes[q].inserted
    BY <2>11, <2>12, <2>13, <1>16, <1>17
  <2>16. pc'[q] = "page" /\ ~WalkDone(q)'
    BY <1>5, <1>19 DEF WalkDone
  <2> QED
    BY <2>14, <2>15, <2>16, <1>6, <1>7, <1>11, <1>12, <1>14 DEF WalkOK
<1> QED
  BY <1>18, <1>19


LEMMA WalkStep ==
    ASSUME TypeOK, ReportInv, WalkInv, [Next]_vars
    PROVE  WalkInv'
<1> SUFFICES ASSUME NEW q \in Readers PROVE WalkOK(q)'
  BY DEF WalkInv
<1> USE DEF urlVars, readerVars
<1>1. WalkOK(q) /\ ReportOK(q)
  BY DEF WalkInv, ReportInv
<1>2. ASSUME reading' = reading, stage' = stage, created' = created,
             walk'[q] = walk[q], changes'[q] = changes[q],
             pc'[q] = pc[q] \/ (pc'[q] \notin {"idle", "page"} /\ ~WalkDone(q)')
      PROVE  WalkOK(q)'
  BY <1>1, <1>2, WalkKept DEF Came
<1>3. CASE UNCHANGED vars
  BY <1>2, <1>3 DEF vars
<1>4. CASE Tick \/ DayPasses
  BY <1>2, <1>4 DEF Tick, DayPasses
<1>5. ASSUME NEW u \in Urls, NEW c \in Codes, BeginCreate(u, c) PROVE WalkOK(q)'
  <2>1. \A v \in Urls : /\ Came(v)' <=> Came(v)
                        /\ Came(v) => stage'[v] = stage[v] /\ created'[v] = created[v]
    BY <1>5 DEF BeginCreate, Came, TypeOK
  <2>2. reading' = reading /\ walk' = walk /\ changes' = changes /\ pc' = pc
    BY <1>5 DEF BeginCreate
  <2> QED
    BY <2>1, <2>2, <1>1, WalkKept
<1>6. ASSUME NEW u \in Urls, CommitCreate(u) PROVE WalkOK(q)'
  <2>1. stage[u] = "open" /\ reading' = reading /\ created' = created /\ walk' = walk /\ pc' = pc
    BY <1>6 DEF CommitCreate
  <2>2. CASE \E v \in Stored : code[v] = code[u]
    <3>1. stage' = [stage EXCEPT ![u] = "refused"] /\ changes' = changes
      BY <1>6, <2>2 DEF CommitCreate
    <3>2. \A v \in Urls : /\ Came(v)' <=> Came(v)
                          /\ Came(v) => stage'[v] = stage[v] /\ created'[v] = created[v]
      BY <2>1, <3>1 DEF Came, TypeOK
    <3> QED
      BY <2>1, <3>1, <3>2, <1>1, WalkKept
  <2>3. CASE ~\E v \in Stored : code[v] = code[u]
    <3>1. stage' = [stage EXCEPT ![u] = "stored"] /\ Notice({u}, {})
      BY <1>6, <2>3 DEF CommitCreate
    <3>2. CASE pc[q] = "page"
      BY <2>1, <3>1, <3>2, <1>1, RowComes
    <3>3. CASE pc[q] # "page"
      <4>1. RowsStay
        BY <2>1, <3>1 DEF RowsStay, Came, TypeOK
      <4>2. changes'[q] = changes[q]
        BY <3>1, <3>3 DEF Notice
      <4> QED
        BY <2>1, <3>3, <4>1, <4>2, <1>1, WalkOver
    <3> QED
      BY <3>2, <3>3
  <2> QED
    BY <2>2, <2>3
<1>7. ASSUME NEW u \in Urls, DeleteUrl(u) PROVE WalkOK(q)'
  <2>1. /\ u \in Stored /\ reading' = reading /\ created' = created /\ walk' = walk /\ pc' = pc
        /\ stage' = [stage EXCEPT ![u] = "gone"] /\ Notice({}, {u})
    BY <1>7 DEF DeleteUrl
  <2>2. CASE pc[q] = "page"
    BY <2>1, <2>2, <1>1, RowGoes
  <2>3. CASE pc[q] # "page"
    <3>1. RowsStay
      BY <2>1 DEF RowsStay, Came, TypeOK
    <3>2. changes'[q] = changes[q]
      BY <2>1, <2>3 DEF Notice
    <3> QED
      BY <2>1, <2>3, <3>1, <3>2, <1>1, WalkOver
  <2> QED
    BY <2>2, <2>3
<1>8. ASSUME NEW u \in Urls, Increment(u) \/ (\E s \in Sources : RecordClick(u, s)) PROVE WalkOK(q)'
  BY <1>2, <1>8 DEF Increment, RecordClick
<1>9. ASSUME NEW r \in Readers, NEW limit \in Limits, StartWalk(r, limit) PROVE WalkOK(q)'
  <2>1. CASE r = q
    BY <1>1, <1>9, <2>1, WalkStarts
  <2>2. CASE r # q
    <3>1. /\ reading' = reading /\ stage' = stage /\ created' = created
          /\ walk'[q] = walk[q] /\ changes'[q] = changes[q] /\ pc'[q] = pc[q]
      BY <1>9, <2>2 DEF StartWalk, TypeOK
    <3> QED
      BY <1>2, <3>1
  <2> QED
    BY <2>1, <2>2
<1>10. ASSUME NEW r \in Readers, ListPage(r) PROVE WalkOK(q)'
  <2>1. CASE r = q
    BY <1>1, <1>10, <2>1, PageRead
  <2>2. CASE r # q
    <3>1. /\ reading' = reading /\ stage' = stage /\ created' = created
          /\ walk'[q] = walk[q] /\ changes'[q] = changes[q] /\ pc'[q] = pc[q]
      BY <1>10, <2>2 DEF ListPage, TypeOK
    <3> QED
      BY <1>2, <3>1
  <2> QED
    BY <2>1, <2>2
<1>11. ASSUME NEW r \in Readers, ListFails(r) PROVE WalkOK(q)'
  <2>1. /\ reading' = reading /\ stage' = stage /\ created' = created
        /\ walk'[q] = walk[q] /\ changes'[q] = changes[q] /\ pc'[q] \in {pc[q], "error"}
    BY <1>11 DEF ListFails, TypeOK
  <2>2. pc'[q] = "error" => ~WalkDone(q)'
    BY DEF WalkDone
  <2> QED
    BY <1>2, <2>1, <2>2
<1>12. ASSUME NEW r \in Readers,
              (\E c \in Codes : ReadUrl(r, c)) \/ CountRecent(r) \/ RankReferrers(r) \/ RankAgents(r)
       PROVE  WalkOK(q)'
  <2>1. /\ reading' = reading /\ stage' = stage /\ created' = created /\ walk' = walk /\ changes' = changes
    <3>1. CASE \E c \in Codes : ReadUrl(r, c)
      BY <3>1 DEF ReadUrl
    <3> QED
      BY <1>12, <3>1 DEF CountRecent, RankReferrers, RankAgents
  <2>2. CASE q # r
    <3>1. pc'[q] = pc[q]
      <4>1. CASE \E c \in Codes : ReadUrl(r, c)
        BY <2>2, <4>1 DEF ReadUrl, TypeOK
      <4> QED
        BY <1>12, <2>2, <4>1 DEF CountRecent, RankReferrers, RankAgents, TypeOK
    <3> QED
      BY <1>2, <2>1, <3>1
  <2>3. CASE q = r
    <3>1. pc'[q] \in {"recent", "not_found", "referrers", "agents", "done"} /\ reading = "reports"
      <4>1. CASE \E c \in Codes : ReadUrl(r, c)
        BY <2>3, <4>1 DEF ReadUrl, TypeOK
      <4>2. CASE CountRecent(r) \/ RankReferrers(r) \/ RankAgents(r)
        <5>1. pc[q] \in {"recent", "referrers", "agents"}
          BY <2>3, <4>2 DEF CountRecent, RankReferrers, RankAgents
        <5>2. reading = "reports"
          BY <5>1, <1>1 DEF ReportOK
        <5> QED
          BY <2>3, <4>2, <5>2 DEF CountRecent, RankReferrers, RankAgents, TypeOK
      <4> QED
        BY <1>12, <4>1, <4>2
    <3>2. ~WalkDone(q)'
      BY <2>1, <3>1 DEF WalkDone
    <3> QED
      BY <1>2, <2>1, <3>1, <3>2
  <2> QED
    BY <2>2, <2>3
<1> QED
  BY <1>3, <1>4, <1>5, <1>6, <1>7, <1>8, <1>9, <1>10, <1>11, <1>12 DEF Next

-----------------------------------------------------------------------------
(* What the reads promise                                                  *)

LEMMA Initially ==
    ASSUME Init
    PROVE  TypeOK /\ ClicksInv /\ ReportInv /\ WalkInv
<1> USE DEF Init
<1>1. \A u \in Urls : NoWalk.seen[u] = {}
  BY DEF NoWalk
<1>2. NoWalk \in Walks /\ NoWalk.page = {} /\ NoWalk.limit = 0
  <2>1. [u \in Urls |-> {}] \in [Urls -> SUBSET Nat]
    OBVIOUS
  <2> QED
    BY <2>1 DEF NoWalk, Walks
<1>3. NoChanges \in Histories /\ NoChanges.kept = {}
  BY DEF NoChanges, Histories
<1>4. NoReport \in Reports /\ NoReport.url = {}
  BY DEF NoReport, Reports, Figures
<1>5. TypeOK
  <2>1. walk \in [Readers -> Walks] /\ changes \in [Readers -> Histories]
        /\ report \in [Readers -> Reports]
    BY <1>2, <1>3, <1>4
  <2>2. \A q \in Readers : Cardinality(walk[q].page) <= MaxPage
    <3>1. Cardinality(NoWalk.page) = 0
      BY <1>2, FS_EmptySet
    <3>2. \A q \in Readers : walk[q] = NoWalk
      OBVIOUS
    <3> QED
      BY <3>1, <3>2
  <2>3. /\ clickCount \in [Urls -> Figures] /\ created \in [Urls -> 0..MaxTime] /\ clock \in 0..MaxTime
        /\ clicks \in [Urls -> [Sources -> SUBSET (1..MaxClicks)]]
    BY DEF Figures
  <2> QED
    BY <2>1, <2>2, <2>3 DEF TypeOK, Walks, Histories, Reports
<1>6. ClicksInv
  BY DEF ClicksInv
<1>7. ReportInv
  BY <1>4 DEF ReportInv, ReportOK
<1>8. WalkInv
  <2> SUFFICES ASSUME NEW q \in Readers PROVE WalkOK(q)
    BY DEF WalkInv
  <2>1. walk[q] = NoWalk /\ changes[q] = NoChanges /\ pc[q] = "idle"
    OBVIOUS
  <2> QED
    BY <1>1, <1>3, <2>1 DEF WalkOK, WalkDone
<1> QED
  BY <1>5, <1>6, <1>7, <1>8

(* Every variable keeps its type: a page never holds more than the largest *)
(* page allowed, whatever limit is asked for, and no figure of a report    *)
(* exceeds what a counter can hold.                                        *)
THEOREM ReadsHaveTypes == Spec => []TypeOK
<1>1. Init => TypeOK /\ ClicksInv
  BY Initially
<1>2. TypeOK /\ ClicksInv /\ [Next]_vars => (TypeOK /\ ClicksInv)'
  BY TypeStep, ClicksStep
<1> QED
  BY <1>1, <1>2, PTL DEF Spec

LEMMA ReadsInvariant == Spec => [](TypeOK /\ ClicksInv /\ ReportInv /\ WalkInv)
<1>1. Init => TypeOK /\ ClicksInv /\ ReportInv /\ WalkInv
  BY Initially
<1>2. TypeOK /\ ClicksInv /\ ReportInv /\ WalkInv /\ [Next]_vars
        => (TypeOK /\ ClicksInv /\ ReportInv /\ WalkInv)'
  BY TypeStep, ClicksStep, ReportStep, WalkStep
<1> QED
  BY <1>1, <1>2, PTL DEF Spec

(* The four statements of an analytics request, between which anyone may   *)
(* commit, give figures that are all about the row read first and never    *)
(* exceed its counter; and while the row stays, a later one misses no      *)
(* click an earlier one counts.                                            *)
THEOREM ReportsAreConsistent == Spec => []ReportConsistent
<1>1. TypeOK /\ ReportInv => ReportConsistent
  BY DEF ReportInv, ReportOK, ReportConsistent, Ranked
<1> QED
  BY <1>1, ReadsInvariant, PTL

(* A walk by offset over the pages of a listing that changes meanwhile     *)
(* misses at most one row that stayed for each that is deleted, and shows  *)
(* at most one again for each that is added.                               *)
THEOREM WalksAreFaithful == Spec => []WalkFaultsExplained
<1>1. WalkInv => WalkFaultsExplained
  BY DEF WalkInv, WalkOK, WalkFaultsExplained
<1> QED
  BY <1>1, ReadsInvariant, PTL

=============================================================================

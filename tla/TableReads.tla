----------------------------- MODULE TableReads -----------------------------
(***************************************************************************)
(* The reads that take several statements or several requests while the    *)
(* tables change under them: a client that walks the pages of              *)
(* GET /api/v1/urls (URLRepository.get_all) and the four statements of     *)
(* GET /api/v1/urls/{code}/analytics (AnalyticsService).  Every statement  *)
(* sees what is committed at that moment (READ COMMITTED).                 *)
(***************************************************************************)
EXTENDS Integers, FiniteSets, FiniteSetsExt

CONSTANTS
    Urls,       \* rows of the urls table ever created
    Codes,      \* short codes
    Referrers,  \* values of clicks.referrer, NULL counted as "Direct"
    Agents,     \* values of clicks.user_agent, NULL counted as "Unknown"
    Readers,    \* clients that list or ask for analytics
    Limits,     \* the limits clients ask for
    MaxPage,    \* the largest page (100 in the code)
    TopGroups,  \* groups in a ranking (5 in the code)
    MaxTime,    \* bound: ticks of the clock
    MaxRead,    \* bound: rows created when reports are read
    MaxClicks   \* bound: increments of one click_count

ASSUME ReadsAssumption ==
    /\ IsFiniteSet(Urls) /\ IsFiniteSet(Referrers) /\ IsFiniteSet(Agents)
    /\ Limits \subseteq Int
    /\ {MaxPage, TopGroups} \subseteq Nat \ {0}
    /\ {MaxTime, MaxRead, MaxClicks} \subseteq Nat

(* What a row of clicks tells of where the click came from.                *)
Sources == Referrers \X Agents

VARIABLES
    reading,    \* what the readers of this behaviour read: "pages", which do
                \* not depend on clicks, or "reports", which do not depend on
                \* the time of creation
    clock,
    stage,      \* stage[u]: "unused", "open" while its transaction runs,
                \* then "stored" and "gone", or "refused"
    code,       \* code[u]: its short code
    created,    \* created[u]: its created_at
    clickCount, \* clickCount[u]
    clicks,     \* clicks[u][s]: the rows of u in clicks that came from s,
                \* each named by the click_count it made
    recent,     \* recent[u]: those of them that are younger than 24 hours
    pc,         \* pc[q]: the next statement of reader q
    walk,       \* walk[q]: its limit, offset, last page, and for each row
                \* the offsets of the pages it was on
    changes,    \* changes[q]: history, what happened during the walk
    report      \* report[q]: the figures read so far

urlVars == <<stage, code, created, clickCount, clicks, recent>>
readerVars == <<pc, walk, changes, report>>
vars == <<reading, clock, urlVars, readerVars>>

Stored == {u \in Urls : stage[u] = "stored"}

NoReport == [url |-> {}, total |-> 0, start |-> 0, recent |-> 0, referrers |-> 0, agents |-> 0]
NoWalk == [limit |-> 0, skip |-> 0, page |-> {}, seen |-> [u \in Urls |-> {}]]
NoChanges == [kept |-> {}, deleted |-> 0, inserted |-> 0]

Init ==
    /\ reading \in {"pages", "reports"}
    /\ clock = 0
    /\ stage = [u \in Urls |-> "unused"]
    /\ \E c \in Codes : code = [u \in Urls |-> c]
    /\ created = [u \in Urls |-> 0]
    /\ clickCount = [u \in Urls |-> 0]
    /\ clicks = [u \in Urls |-> [s \in Sources |-> {}]]
    /\ recent = [u \in Urls |-> {}]
    /\ pc = [q \in Readers |-> "idle"]
    /\ walk = [q \in Readers |-> NoWalk]
    /\ changes = [q \in Readers |-> NoChanges]
    /\ report = [q \in Readers |-> NoReport]

Figures == 0..MaxClicks

TypeOK ==
    /\ reading \in {"pages", "reports"}
    /\ clock \in 0..MaxTime
    /\ stage \in [Urls -> {"unused", "open", "stored", "refused", "gone"}]
    /\ code \in [Urls -> Codes]
    /\ created \in [Urls -> 0..MaxTime]
    /\ clickCount \in [Urls -> Figures]
    /\ clicks \in [Urls -> [Sources -> SUBSET (1..MaxClicks)]]
    /\ recent \in [Urls -> SUBSET (1..MaxClicks)]
    /\ pc \in [Readers -> {"idle", "page", "recent", "referrers", "agents", "done",
                           "not_found", "error"}]
    /\ walk \in [Readers -> [limit : Limits \cup {0}, skip : Nat, page : SUBSET Urls,
                             seen : [Urls -> SUBSET Nat]]]
    /\ \A q \in Readers : Cardinality(walk[q].page) <= MaxPage
    /\ changes \in [Readers -> [kept : SUBSET Urls, deleted : Nat, inserted : Nat]]
    /\ report \in [Readers -> [url : SUBSET Urls, total : Figures, start : Figures,
                               recent : Figures, referrers : Figures, agents : Figures]]

-----------------------------------------------------------------------------
(* What others commit                                                      *)

(* The history of the walks under way takes a row that comes or goes.      *)
Notice(come, go) ==
    changes' = [q \in Readers |->
        IF pc[q] = "page"
        THEN [kept |-> changes[q].kept \ go,
              deleted |-> changes[q].deleted + Cardinality(go),
              inserted |-> changes[q].inserted + Cardinality(come)]
        ELSE changes[q]]

Tick ==
    /\ reading = "pages"
    /\ clock < MaxTime
    /\ clock' = clock + 1
    /\ UNCHANGED <<reading, urlVars, readerVars>>

(* created_at is now(), the time the transaction of the create began: that *)
(* of the existence check before the INSERT.                               *)
BeginCreate(u, c) ==
    /\ stage[u] = "unused"
    /\ reading = "reports" => Cardinality({v \in Urls : stage[v] # "unused"}) < MaxRead
    /\ stage' = [stage EXCEPT ![u] = "open"]
    /\ code' = [code EXCEPT ![u] = c]
    /\ created' = [created EXCEPT ![u] = clock]
    /\ UNCHANGED <<reading, clock, clickCount, clicks, recent, readerVars>>

(* Commits come in any order; a code in use refuses the row.               *)
CommitCreate(u) ==
    /\ stage[u] = "open"
    /\ IF \E v \in Stored : code[v] = code[u]
       THEN stage' = [stage EXCEPT ![u] = "refused"] /\ UNCHANGED changes
       ELSE stage' = [stage EXCEPT ![u] = "stored"] /\ Notice({u}, {})
    /\ UNCHANGED <<reading, clock, code, created, clickCount, clicks, recent, pc, walk, report>>

(* The clicks of the row are deleted with it (ON DELETE CASCADE).          *)
DeleteUrl(u) ==
    /\ u \in Stored
    /\ stage' = [stage EXCEPT ![u] = "gone"]
    /\ clicks' = [clicks EXCEPT ![u] = [s \in Sources |-> {}]]
    /\ recent' = [recent EXCEPT ![u] = {}]
    /\ Notice({}, {u})
    /\ UNCHANGED <<reading, clock, code, created, clickCount, pc, walk, report>>

(* A redirect increments the counter ...                                   *)
Increment(u) ==
    /\ reading = "reports"
    /\ u \in Stored
    /\ clickCount[u] < MaxClicks
    /\ clickCount' = [clickCount EXCEPT ![u] = @ + 1]
    /\ UNCHANGED <<reading, clock, stage, code, created, clicks, recent, readerVars>>

(* ... and a worker commits the row of the click and increments it again.  *)
RecordClick(u, s) ==
    /\ reading = "reports"
    /\ u \in Stored
    /\ clickCount[u] < MaxClicks
    /\ clickCount' = [clickCount EXCEPT ![u] = @ + 1]
    /\ clicks' = [clicks EXCEPT ![u][s] = @ \cup {clickCount[u] + 1}]
    /\ recent' = [recent EXCEPT ![u] = @ \cup {clickCount[u] + 1}]
    /\ UNCHANGED <<reading, clock, stage, code, created, readerVars>>

(* The clicks recorded so far are older than 24 hours.                     *)
DayPasses ==
    /\ reading = "reports"
    /\ \E u \in Urls : recent[u] # {}
    /\ recent' = [u \in Urls |-> {}]
    /\ UNCHANGED <<reading, clock, stage, code, created, clickCount, clicks, readerVars>>

-----------------------------------------------------------------------------
(* Listing: URLService.list_urls and URLRepository.get_all                 *)

(* Variant: the limit of the request is taken as it is.                    *)
PageLimit_AsAsked(limit) == limit

PageLimit(limit) == IF limit < MaxPage THEN limit ELSE MaxPage

(* Variant: no ORDER BY.                                                   *)
Pages_Unordered(skip, n) ==
    {page \in SUBSET Stored :
        Cardinality(page) = Max({0, Min({n, Cardinality(Stored) - skip})})}

(* ORDER BY created_at DESC OFFSET skip LIMIT n: rows created at the same  *)
(* time come in any order, and not always in the same one.                 *)
Pages(skip, n) ==
    {page \in SUBSET Stored :
        /\ Cardinality(page) = Max({0, Min({n, Cardinality(Stored) - skip})})
        /\ page # {} => \E above \in SUBSET (Stored \ page) :
            /\ Cardinality(above) = skip
            /\ \A u \in above, v \in Stored \ above : created[u] >= created[v]
            /\ \A u \in page, v \in Stored \ (above \cup page) : created[u] >= created[v]}

StartWalk(q, limit) ==
    /\ reading = "pages" /\ pc[q] = "idle"
    /\ pc' = [pc EXCEPT ![q] = "page"]
    /\ walk' = [walk EXCEPT ![q].limit = limit]
    /\ changes' = [changes EXCEPT ![q].kept = Stored]
    /\ UNCHANGED <<reading, clock, urlVars, report>>

(* One request.  The client goes on behind the rows it got, until there are*)
(* none; PostgreSQL refuses a negative LIMIT.                              *)
ListPage(q) ==
    /\ pc[q] = "page"
    /\ walk[q].limit >= 0
    /\ \E page \in Pages(walk[q].skip, PageLimit(walk[q].limit)) :
        /\ walk' = [walk EXCEPT ![q] =
              [limit |-> @.limit, skip |-> @.skip + Cardinality(page), page |-> page,
               seen |-> [u \in Urls |-> @.seen[u] \cup {s \in {@.skip} : u \in page}]]]
        /\ pc' = [pc EXCEPT ![q] = IF page = {} THEN "done" ELSE "page"]
    /\ UNCHANGED <<reading, clock, urlVars, changes, report>>

ListFails(q) ==
    /\ pc[q] = "page"
    /\ walk[q].limit < 0
    /\ pc' = [pc EXCEPT ![q] = "error"]
    /\ UNCHANGED <<reading, clock, urlVars, walk, changes, report>>

-----------------------------------------------------------------------------
(* Analytics: AnalyticsService.get_url_analytics                           *)

ClicksFrom(u, sources) == Cardinality(UNION {clicks[u][s] : s \in sources})

(* The groups of the two rankings; each row of clicks is in one of each.   *)
ByReferrer == {{r} \X Agents : r \in Referrers}
ByAgent == {Referrers \X {a} : a \in Agents}

(* The clicks of the largest groups.                                       *)
TopClicks(u, groups) ==
    Max({ClicksFrom(u, UNION top) : top \in {t \in SUBSET groups : Cardinality(t) <= TopGroups}})

(* The row, with its click_count.                                          *)
ReadUrl(q, c) ==
    /\ reading = "reports" /\ pc[q] = "idle"
    /\ IF \E u \in Stored : code[u] = c
       THEN \E u \in Stored :
              /\ code[u] = c
              /\ report' = [report EXCEPT ![q].url = {u}, ![q].total = clickCount[u],
                                          ![q].start = ClicksFrom(u, Sources)]
              /\ pc' = [pc EXCEPT ![q] = "recent"]
       ELSE pc' = [pc EXCEPT ![q] = "not_found"] /\ UNCHANGED report
    /\ UNCHANGED <<reading, clock, urlVars, walk, changes>>

(* Variant: the clicks are looked up by short code.                        *)
CountRecent_ByCode(q) ==
    /\ pc[q] = "recent"
    /\ \E u \in report[q].url :
        report' = [report EXCEPT ![q].recent =
            Cardinality({r \in Stored \X Figures : code[r[1]] = code[u] /\ r[2] \in recent[r[1]]})]
    /\ pc' = [pc EXCEPT ![q] = "referrers"]
    /\ UNCHANGED <<reading, clock, urlVars, walk, changes>>

(* The clicks of the last 24 hours, by the id of the row read first.       *)
CountRecent(q) ==
    /\ pc[q] = "recent"
    /\ \E u \in report[q].url : report' = [report EXCEPT ![q].recent = Cardinality(recent[u])]
    /\ pc' = [pc EXCEPT ![q] = "referrers"]
    /\ UNCHANGED <<reading, clock, urlVars, walk, changes>>

RankReferrers(q) ==
    /\ pc[q] = "referrers"
    /\ \E u \in report[q].url : report' = [report EXCEPT ![q].referrers = TopClicks(u, ByReferrer)]
    /\ pc' = [pc EXCEPT ![q] = "agents"]
    /\ UNCHANGED <<reading, clock, urlVars, walk, changes>>

RankAgents(q) ==
    /\ pc[q] = "agents"
    /\ \E u \in report[q].url : report' = [report EXCEPT ![q].agents = TopClicks(u, ByAgent)]
    /\ pc' = [pc EXCEPT ![q] = "done"]
    /\ UNCHANGED <<reading, clock, urlVars, walk, changes>>

Next ==
    \/ Tick \/ DayPasses
    \/ \E u \in Urls :
        \/ \E c \in Codes : BeginCreate(u, c)
        \/ CommitCreate(u) \/ DeleteUrl(u) \/ Increment(u)
        \/ \E s \in Sources : RecordClick(u, s)
    \/ \E q \in Readers :
        \/ \E limit \in Limits : StartWalk(q, limit)
        \/ \E c \in Codes : ReadUrl(q, c)
        \/ ListPage(q) \/ ListFails(q)
        \/ CountRecent(q) \/ RankReferrers(q) \/ RankAgents(q)

Spec == Init /\ [][Next]_vars

-----------------------------------------------------------------------------
WalkDone(q) == reading = "pages" /\ pc[q] = "done" /\ walk[q].limit > 0

(* No other row was created at the same time.                              *)
Untied(u) == \A v \in Urls \ {u} : stage[v] \in {"stored", "gone"} => created[v] # created[u]

(* The rows that were there all the time and the walk has missed           *)
Skipped(q) == {u \in changes[q].kept : Untied(u) /\ walk[q].seen[u] = {}}

(* The times it has shown a row again: rows, with the offset of the page   *)
Repeats(q) ==
    {r \in Urls \X (0..walk[q].skip) :
        LET seen == walk[q].seen[r[1]] IN
        Untied(r[1]) /\ r[2] \in seen /\ \E s \in seen : s < r[2]}

(* A walk over the pages misses at most as many of the rows that were there*)
(* all the time as rows were deleted meanwhile, and repeats at most as many*)
(* as rows were added, whatever was committed out of order and whatever the*)
(* server makes of the limit; rows of the same created_at set apart.       *)
WalkFaultsExplained ==
    \A q \in Readers : WalkDone(q) =>
        /\ Cardinality(Skipped(q)) <= changes[q].deleted
        /\ Cardinality(Repeats(q)) <= changes[q].inserted

(* The ranking shows all groups in which the URL has clicks.               *)
RanksAll(u, groups) ==
    Cardinality({g \in groups : \E s \in g : clicks[u][s] # {}}) <= TopGroups

(* All figures of a report are about the URL it names: even if its code is *)
(* deleted and registered again between two statements, no click of the    *)
(* other URL is counted in.  And they come in the order they were read:    *)
(* unless the URL was deleted meanwhile, the total misses no click that was*)
(* recorded when the request came, and a ranking that is not cut off misses*)
(* no click that one of the figures read before it counts.  The rankings   *)
(* group by different columns: one that is cut off says nothing about the  *)
(* other.                                                                  *)
ReportConsistent ==
    \A q \in Readers : \A u \in report[q].url :
        /\ {report[q].total, report[q].recent, report[q].referrers, report[q].agents}
               \subseteq 0..clickCount[u]
        /\ pc[q] = "done" /\ u \in Stored =>
               /\ report[q].start <= report[q].total
               /\ RanksAll(u, ByReferrer) =>
                     report[q].start <= report[q].referrers /\ report[q].recent <= report[q].referrers
               /\ RanksAll(u, ByAgent) =>
                     /\ report[q].start <= report[q].agents /\ report[q].recent <= report[q].agents
                     /\ report[q].referrers <= report[q].agents

=============================================================================

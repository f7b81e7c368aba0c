-------------------------- MODULE FlushLocksProofs --------------------------
(***************************************************************************)
(* What holds of the row locks of FlushLocks for any number of flushes,    *)
(* redirects and deletes, any batches and any column width: the counters   *)
(* agree with the clicks, and a rollback always has one of the three       *)
(* reasons RollbackExplained names.                                        *)
(***************************************************************************)
EXTENDS FlushLocks, FiniteSetTheorems, WellFoundedInduction, TLAPS

USE LockAssumption

-----------------------------------------------------------------------------
(* The inductive invariant.                                                *)

Holds(t, m, u) == [by |-> t, mode |-> m] \in held[u]

(* How far a transaction can be with its batch.                            *)
BatchInv == \A t \in Transactions :
    /\ status[t] = "new" => batch[t] = <<>> /\ done[t] = 0
    /\ status[t] # "new" /\ t \notin Flushes => Len(batch[t]) = 1
    /\ Len(batch[t]) <= MaxBatch
    /\ done[t] <= 2 * Len(batch[t])
    /\ t \notin Flushes => done[t] <= Len(batch[t])

(* A lock is held by an open transaction, on a row that is still there, in *)
(* the mode of its statement, and keeps out whatever conflicts with it.    *)
LockInv == \A u \in Urls : \A l \in held[u] :
    /\ u \in stored /\ status[l.by] = "open"
    /\ l.by \in Redirects => l.mode = "update"
    /\ l.by \in Deletes => l.mode = "delete"
    /\ l.by \in Flushes => l.mode \in {"share", "update"}
    /\ l.by \notin Flushes => ~Inserting(l.by)
    /\ \A k \in held[u] : k.by # l.by => ~Conflict(k.mode, l.mode)

(* The counter of a locked row has room for what its holder adds to it.    *)
RoomInv == \A u \in Urls, t \in Transactions :
    Holds(t, "update", u) => clickCount[u] + Events(t, u) <= MaxCount

(* A flush has updated the URLs of the places behind it.                   *)
OrderInv == \A u \in Urls, t \in Flushes : Holds(t, "update", u) =>
    \E i \in FirstPlaces(t) : batch[t][i] = u /\ Len(batch[t]) + i <= done[t]

(* An open transaction has the locks of the statements behind it.          *)
TakenInv == \A t \in Transactions : status[t] = "open" =>
    /\ t \in Flushes =>
         /\ \A i \in DOMAIN batch[t] : i <= done[t] => Holds(t, "share", batch[t][i])
         /\ \A i \in FirstPlaces(t) :
              Len(batch[t]) + i <= done[t] => Holds(t, "update", batch[t][i])
    /\ t \in Redirects /\ ~Inserting(t) /\ batch[t][1] \in stored => Holds(t, "update", batch[t][1])

(* Those in a line wait for the same row, in their order of arrival.       *)
LineInv == \A t \in waiting :
    /\ AtLock(t)
    /\ t \notin ahead[t]
    /\ \A x \in ahead[t] : x \in waiting /\ NextUrl(x) = NextUrl(t) /\ ahead[x] \subseteq ahead[t]

(* The row is locked by a delete, or gone.                                 *)
Doomed(u) == u \notin stored \/ \E d \in Deletes : Holds(d, "delete", u)

(* An insert only ever waits for a delete.                                 *)
DoomInv == \A t \in waiting : t \in Flushes /\ Inserting(t) => Doomed(NextUrl(t))

StateInv ==
    /\ TypeOK /\ BatchInv /\ LockInv /\ RoomInv /\ OrderInv /\ TakenInv
    /\ LineInv /\ DoomInv

-----------------------------------------------------------------------------
(* Lemmas about batches and statements.                                    *)

(* A set of places that is not empty has a first one.                      *)
LEMMA FirstOfPlaces ==
    ASSUME NEW S \in SUBSET Nat, S # {}
    PROVE  Min(S) \in S /\ \A i \in S : Min(S) <= i
<1>1. PICK i \in S : \A j \in S : ~(<<j, i>> \in OpToRel(<, Nat))
  BY NatLessThanWellFounded, WFMin, Zenon
<1>2. \A j \in S : ~(j < i)
  BY <1>1 DEF OpToRel
<1>3. \A j \in S : i <= j
  BY <1>2
<1>4. \E m \in S : \A j \in S : m <= j
  BY <1>3
<1> QED
  BY <1>4, Zenon DEF Min

(* Batches are sequences of URLs; the events on a URL can be counted.      *)
LEMMA BatchFacts ==
    ASSUME TypeOK, NEW t \in Transactions
    PROVE  /\ Len(batch[t]) \in Nat /\ DOMAIN batch[t] = 1..Len(batch[t])
           /\ \A i \in DOMAIN batch[t] : batch[t][i] \in Urls
           /\ FirstPlaces(t) \in SUBSET (1..Len(batch[t]))
           /\ UpdatesLeft(t) \in SUBSET FirstPlaces(t)
           /\ done[t] \in Nat
           /\ \A u \in Urls : Events(t, u) \in Nat
<1>1. /\ Len(batch[t]) \in Nat /\ DOMAIN batch[t] = 1..Len(batch[t])
      /\ \A i \in DOMAIN batch[t] : batch[t][i] \in Urls
      /\ done[t] \in Nat
  BY DEF TypeOK
<1>2. /\ FirstPlaces(t) \in SUBSET (1..Len(batch[t]))
      /\ UpdatesLeft(t) \in SUBSET FirstPlaces(t)
  BY <1>1 DEF FirstPlaces, UpdatesLeft
<1>3. ASSUME NEW u \in Urls PROVE Events(t, u) \in Nat
  <2>1. {i \in DOMAIN batch[t] : batch[t][i] = u} \in SUBSET (1..Len(batch[t]))
    BY <1>1
  <2>2. IsFiniteSet(1..Len(batch[t]))
    BY <1>1, FS_Interval
  <2> QED
    BY <2>1, <2>2, FS_Subset, FS_CardinalityType DEF Events
<1> QED
  BY <1>1, <1>2, <1>3

(* A URL that occurs in a batch occurs in it for a first time.             *)
LEMMA FirstOccurrence ==
    ASSUME TypeOK, NEW t \in Transactions, NEW u \in Urls, Events(t, u) # 0
    PROVE  \E i \in FirstPlaces(t) : batch[t][i] = u
<1> DEFINE P == {i \in DOMAIN batch[t] : batch[t][i] = u}
<1>1. P \in SUBSET Nat /\ P # {}
  <2>1. P \in SUBSET (1..Len(batch[t])) /\ Len(batch[t]) \in Nat
    BY BatchFacts
  <2>2. P # {}
    BY FS_EmptySet DEF Events
  <2> QED
    BY <2>1, <2>2
<1>2. PICK m \in P : \A j \in P : m <= j
  BY <1>1, FirstOfPlaces
<1>3. m \in 1..Len(batch[t]) /\ batch[t][m] = u /\ m \in Nat /\ Len(batch[t]) \in Nat
  BY BatchFacts
<1>4. ASSUME NEW j \in 1..(m - 1), batch[t][j] = u PROVE FALSE
  <2>1. j \in 1..Len(batch[t]) /\ ~(m <= j)
    BY <1>3
  <2>2. j \in P
    BY <2>1, <1>4, BatchFacts
  <2> QED
    BY <2>1, <2>2, <1>2
<1>5. m \in FirstPlaces(t)
  BY <1>3, <1>4, BatchFacts DEF FirstPlaces
<1> QED
  BY <1>3, <1>5

(* The next statement of a transaction is about a URL of its batch.        *)
LEMMA NextStatement ==
    ASSUME TypeOK, NEW t \in Transactions, AtLock(t)
    PROVE  /\ Place(t) \in DOMAIN batch[t] /\ NextUrl(t) \in Urls
           /\ Inserting(t) => Place(t) = done[t] + 1
           /\ ~Inserting(t) =>
                /\ t \in Flushes /\ Place(t) \in FirstPlaces(t)
                /\ Len(batch[t]) + Place(t) > done[t]
                /\ \A i \in FirstPlaces(t) : Len(batch[t]) + i > done[t] => Place(t) <= i
           /\ NextMode(t) \in Modes
           /\ NextMode(t) = "share" <=> t \in Flushes /\ Inserting(t)
           /\ NextMode(t) = "delete" <=> t \in Deletes
<1>1. /\ Inserting(t) => Place(t) = done[t] + 1
      /\ ~Inserting(t) => Place(t) = Min(UpdatesLeft(t)) /\ UpdatesLeft(t) # {}
  BY DEF Place, AtLock
<1>2. ASSUME ~Inserting(t)
      PROVE  Place(t) \in UpdatesLeft(t) /\ \A i \in UpdatesLeft(t) : Place(t) <= i
  <2>1. UpdatesLeft(t) \in SUBSET Nat
    BY BatchFacts
  <2> QED
    BY <1>1, <1>2, <2>1, FirstOfPlaces
<1>3. Place(t) \in DOMAIN batch[t]
  BY <1>1, <1>2, BatchFacts DEF Inserting
<1>4. /\ NextMode(t) \in Modes
      /\ NextMode(t) = "share" <=> t \in Flushes /\ Inserting(t)
      /\ NextMode(t) = "delete" <=> t \in Deletes
  BY DEF NextMode, Modes, Transactions
<1> QED
  BY <1>1, <1>2, <1>3, <1>4, BatchFacts DEF UpdatesLeft, NextUrl

(* What is next for a transaction depends on its batch and progress only.  *)
LEMMA SameStatement ==
    ASSUME NEW t \in Transactions, batch'[t] = batch[t], done'[t] = done[t]
    PROVE  /\ Inserting(t)' = Inserting(t) /\ FirstPlaces(t)' = FirstPlaces(t)
           /\ UpdatesLeft(t)' = UpdatesLeft(t) /\ Place(t)' = Place(t)
           /\ NextUrl(t)' = NextUrl(t) /\ NextMode(t)' = NextMode(t)
<1>1. Inserting(t)' = Inserting(t)
  BY DEF Inserting
<1>2. FirstPlaces(t)' = FirstPlaces(t)
  BY DEF FirstPlaces
<1>3. UpdatesLeft(t)' = UpdatesLeft(t)
  BY <1>2 DEF UpdatesLeft
<1>4. Place(t)' = Place(t)
  BY <1>1, <1>3 DEF Place
<1> QED
  BY <1>1, <1>2, <1>3, <1>4 DEF NextUrl, NextMode

LEMMA SameEvents ==
    ASSUME NEW t \in Transactions, batch'[t] = batch[t]
    PROVE  /\ \A u \in Urls : Events(t, u)' = Events(t, u)
           /\ FirstPlaces(t)' = FirstPlaces(t)
  BY DEF Events, FirstPlaces

(* The other transactions keep their batch, their progress and their       *)
(* status; with them, the statement they are at.                           *)
OthersSame(t) == \A x \in Transactions \ {t} :
    status'[x] = status[x] /\ batch'[x] = batch[x] /\ done'[x] = done[x]

LEMMA Frame ==
    ASSUME NEW t, OthersSame(t), NEW x \in Transactions, x # t
    PROVE  /\ status'[x] = status[x] /\ batch'[x] = batch[x] /\ done'[x] = done[x]
           /\ AtLock(x)' = AtLock(x) /\ Inserting(x)' = Inserting(x)
           /\ FirstPlaces(x)' = FirstPlaces(x) /\ NextUrl(x)' = NextUrl(x)
           /\ \A u \in Urls : Events(x, u)' = Events(x, u)
<1>1. status'[x] = status[x] /\ batch'[x] = batch[x] /\ done'[x] = done[x]
  BY DEF OthersSame
<1> QED
  BY <1>1, SameStatement, SameEvents DEF AtLock

(* Who holds a lock is a transaction, and the lock is the record of it.    *)
LEMMA LockRecord ==
    ASSUME TypeOK, NEW u \in Urls, NEW l \in held[u]
    PROVE  l.by \in Transactions /\ l.mode \in Modes /\ l = [by |-> l.by, mode |-> l.mode]
  BY DEF TypeOK

(* A client that is at its lock holds none.                                *)
LEMMA ClientAtLock ==
    ASSUME StateInv, NEW t \in Transactions, t \notin Flushes, AtLock(t), NEW u \in Urls
    PROVE  Inserting(t) /\ ~HoldsLock(t, u)
<1>1. Inserting(t)
  BY DEF AtLock, UpdatesLeft
<1> QED
  BY <1>1, LockRecord DEF HoldsLock, StateInv, LockInv

-----------------------------------------------------------------------------
(* Every action preserves the invariant.                                   *)

LEMMA FunctionIsSequence ==
    ASSUME NEW n \in Nat, NEW b \in [1..n -> Urls]
    PROVE  b \in Seq(Urls) /\ Len(b) = n
  OBVIOUS

(* A batch is a sequence of URLs within its bound.                         *)
LEMMA BatchesAreSequences ==
    ASSUME stored \subseteq Urls, NEW t \in Transactions, NEW b \in Batches(t)
    PROVE  b \in Seq(Urls) /\ Len(b) <= MaxBatch /\ (t \notin Flushes => Len(b) = 1)
<1>1. CASE t \in Flushes
  <2>1. PICK n \in 0..MaxBatch : b \in [1..n -> stored]
    BY <1>1 DEF Batches
  <2>2. b \in Seq(Urls) /\ Len(b) = n
    BY <2>1
  <2> QED
    BY <2>2, <1>1
<1>2. CASE t \notin Flushes
  <2>1. PICK n \in Nat : n = 1 /\ b \in [1..n -> Urls]
    BY <1>2 DEF Batches
  <2>2. b \in Seq(Urls) /\ Len(b) = n
    BY <2>1, FunctionIsSequence
  <2> QED
    BY <2>1, <2>2
<1> QED
  BY <1>1, <1>2

LEMMA BeginStep ==
    ASSUME StateInv, NEW t \in Transactions, Begin(t)
    PROVE  StateInv'
<1> USE DEF StateInv
<1>1. PICK b \in Batches(t) : batch' = [batch EXCEPT ![t] = b]
  BY DEF Begin
<1>2. b \in Seq(Urls) /\ Len(b) <= MaxBatch /\ (t \notin Flushes => Len(b) = 1)
  BY BatchesAreSequences DEF TypeOK
<1>3. OthersSame(t)
  BY <1>1 DEF Begin, OthersSame, TypeOK
<1>4. /\ status[t] = "new" /\ status'[t] = "open" /\ batch'[t] = b
      /\ done'[t] = 0
      /\ UNCHANGED <<stored, clickCount, rows, held, waiting, ahead>>
  BY <1>1 DEF Begin, BatchInv, TypeOK, tables, locks
<1>5. t \notin waiting /\ \A u \in Urls : ~HoldsLock(t, u)
  BY <1>4 DEF LineInv, AtLock, LockInv, HoldsLock
<1>6. TypeOK'
  BY <1>1, <1>2, <1>4 DEF TypeOK, Begin
<1>7. BatchInv'
  <2>1. ASSUME NEW x \in Transactions, x # t
        PROVE  status'[x] = status[x] /\ batch'[x] = batch[x] /\ done'[x] = done[x]
    BY <1>3, <2>1, Frame
  <2>2. Len(b) \in Nat /\ 0 <= 2 * Len(b) /\ 0 <= Len(b)
    BY <1>2
  <2> QED
    BY <1>2, <1>4, <2>1, <2>2 DEF BatchInv
<1>8. LockInv' /\ RoomInv' /\ OrderInv'
  <2>1. ASSUME NEW u \in Urls, NEW l \in held[u]
        PROVE  l.by \in Transactions /\ l.by # t
    BY <1>5, LockRecord DEF HoldsLock
  <2>2. LockInv'
    BY <2>1, <1>4, <1>3, Frame DEF LockInv
  <2>3. RoomInv' /\ OrderInv'
    BY <1>5, <1>4, <1>3, Frame, LockRecord, SameEvents DEF RoomInv, OrderInv, Holds, HoldsLock, OthersSame, Transactions
  <2> QED
    BY <2>2, <2>3
<1>9. TakenInv'
  <2>1. \A i \in DOMAIN b : ~(i <= 0) /\ ~(Len(b) + i <= 0)
    BY <1>2
  <2>2. FirstPlaces(t)' \subseteq DOMAIN b
    BY <1>4 DEF FirstPlaces
  <2>3. t \notin Flushes => Inserting(t)'
    <3> SUFFICES ASSUME t \notin Flushes PROVE Inserting(t)'
      OBVIOUS
    <3>1. Len(batch'[t]) = 1 /\ done'[t] = 0
      BY <1>2, <1>4
    <3> QED
      BY <3>1 DEF Inserting
  <2>4. ASSUME NEW x \in Transactions, x # t
        PROVE  /\ status'[x] = status[x] /\ batch'[x] = batch[x] /\ done'[x] = done[x]
               /\ Inserting(x)' = Inserting(x) /\ FirstPlaces(x)' = FirstPlaces(x)
    BY <1>3, <2>4, Frame
  <2>5. t \in Redirects => t \notin Flushes
    OBVIOUS
  <2> QED
    BY <2>1, <2>2, <2>3, <2>4, <2>5, <1>4 DEF TakenInv, Holds
<1>10. LineInv' /\ DoomInv'
  <2>1. ASSUME NEW x \in waiting
        PROVE  /\ x # t /\ x \in Transactions
               /\ AtLock(x)' = AtLock(x) /\ NextUrl(x)' = NextUrl(x) /\ Inserting(x)' = Inserting(x)
    BY <1>5, <1>3, Frame DEF TypeOK
  <2>2. LineInv'
    BY <2>1, <1>4 DEF LineInv
  <2> QED
    BY <2>1, <2>2, <1>4 DEF DoomInv, Doomed, Holds
<1> QED
  BY <1>6, <1>7, <1>8, <1>9, <1>10

LEMMA WaitStep ==
    ASSUME StateInv, NEW t \in Transactions, Wait(t)
    PROVE  StateInv'
<1> USE DEF StateInv
<1>1. UNCHANGED <<stored, clickCount, rows, status, batch, done, held>>
  BY DEF Wait, tables
<1>2. OthersSame(t)
  BY <1>1 DEF OthersSame
<1>3. TypeOK'
  BY <1>1 DEF Wait, TypeOK
<1>4. ASSUME NEW x \in Transactions
      PROVE  AtLock(x)' = AtLock(x) /\ NextUrl(x)' = NextUrl(x) /\ Inserting(x)' = Inserting(x)
  BY <1>1, SameStatement DEF AtLock
<1>5. BatchInv' /\ LockInv' /\ RoomInv' /\ OrderInv' /\ TakenInv'
  <2>1. BatchInv' /\ LockInv'
    BY <1>1 DEF BatchInv, LockInv, Inserting
  <2>2. RoomInv' /\ OrderInv'
    BY <1>1 DEF RoomInv, OrderInv, Events, FirstPlaces, Holds
  <2>3. TakenInv'
    BY <1>1 DEF TakenInv, Inserting, FirstPlaces, Holds
  <2> QED
    BY <2>1, <2>2, <2>3
<1>6. LineInv'
  BY <1>4, Frame DEF LineInv, Wait, TypeOK
<1>7. Doomed(NextUrl(t)) \/ ~(t \in Flushes /\ Inserting(t))
  <2> SUFFICES ASSUME t \in Flushes, Inserting(t) PROVE Doomed(NextUrl(t))
    OBVIOUS
  <2>1. NextMode(t) = "share" /\ NextUrl(t) \in Urls
    BY NextStatement DEF Wait
  <2>2. PICK l \in held[NextUrl(t)] : Conflict(l.mode, "share")
    BY <2>1 DEF Wait, Holders
  <2>3. l.mode = "delete" /\ l.by \in Deletes
    BY <2>1, <2>2, LockRecord DEF Conflict, LockInv, Transactions
  <2> QED
    BY <2>1, <2>3, LockRecord DEF Doomed, Holds
<1>8. DoomInv'
  BY <1>1, <1>4, <1>7 DEF DoomInv, Doomed, Holds, Wait, TypeOK
<1> QED
  BY <1>3, <1>5, <1>6, <1>8

(* Who leaves a line leaves the others in it in their order.               *)
LEMMA LeavingTheLine ==
    ASSUME StateInv, NEW t \in Transactions, OthersSame(t), LeaveLine(t)
    PROVE  /\ LineInv'
           /\ waiting' = waiting \ {t}
           /\ waiting' \subseteq Transactions /\ ahead' \in [Transactions -> SUBSET Transactions]
<1>1. ASSUME NEW x \in waiting'
      PROVE  /\ x \in waiting /\ x # t /\ x \in Transactions
             /\ AtLock(x)' = AtLock(x) /\ NextUrl(x)' = NextUrl(x)
             /\ ahead'[x] = ahead[x] \ {t}
  BY Frame DEF LeaveLine, StateInv, TypeOK
<1>2. LineInv'
  BY <1>1 DEF LeaveLine, StateInv, LineInv
<1> QED
  BY <1>2 DEF LeaveLine, StateInv, TypeOK

(* A statement moves its transaction forward.                              *)
LEMMA AdvanceFacts ==
    ASSUME StateInv, NEW t \in Transactions, AtLock(t), Advance(t)
    PROVE  /\ Inserting(t) => done'[t] = Place(t)
           /\ ~Inserting(t) => done'[t] = Len(batch[t]) + Place(t)
           /\ done'[t] \in Nat /\ done[t] < done'[t] /\ done'[t] <= 2 * Len(batch[t])
           /\ t \notin Flushes => Place(t) = 1 /\ done'[t] = 1 /\ Len(batch[t]) = 1
           /\ done' \in [Transactions -> 0..(2 * MaxBatch)]
<1> USE DEF StateInv
<1>1. /\ Inserting(t) => done'[t] = Place(t)
      /\ ~Inserting(t) => done'[t] = Len(batch[t]) + Place(t)
  BY DEF Advance, TypeOK
<1>2. /\ Place(t) \in 1..Len(batch[t]) /\ Len(batch[t]) \in Nat /\ done[t] \in Nat
      /\ Inserting(t) => Place(t) = done[t] + 1
      /\ ~Inserting(t) => Len(batch[t]) + Place(t) > done[t]
  BY NextStatement, BatchFacts
<1>3. done'[t] \in Nat /\ done[t] < done'[t] /\ done'[t] <= 2 * Len(batch[t])
  BY <1>1, <1>2
<1>4. t \notin Flushes => Inserting(t) /\ Len(batch[t]) = 1
  BY ClientAtLock DEF BatchInv, AtLock, UpdatesLeft
<1>5. Len(batch[t]) <= MaxBatch /\ MaxBatch \in Nat
  BY DEF BatchInv
<1>6. done'[t] \in 0..(2 * MaxBatch)
  BY <1>2, <1>3, <1>5
<1>7. done' \in [Transactions -> 0..(2 * MaxBatch)]
  BY <1>6 DEF Advance, TypeOK
<1>8. ASSUME t \notin Flushes
      PROVE  Place(t) = 1 /\ done'[t] = 1 /\ Len(batch[t]) = 1
  <2>1. Inserting(t) /\ Len(batch[t]) = 1
    BY <1>8, <1>4
  <2>2. Place(t) = 1
    BY <2>1, <1>2
  <2> QED
    BY <2>1, <2>2, <1>1
<1> QED
  BY <1>1, <1>3, <1>7, <1>8

LEMMA LockStep ==
    ASSUME StateInv, NEW t \in Transactions, Lock(t)
    PROVE  StateInv'
<1> USE DEF StateInv
<1> DEFINE new == [by |-> t, mode |-> NextMode(t)]
           Has(x, m, u) == [by |-> x, mode |-> m] \in held'[u]
<1>1. /\ AtLock(t) /\ status[t] = "open" /\ Advance(t) /\ LeaveLine(t) /\ Holders(t) = {}
      /\ UNCHANGED <<stored, clickCount, rows, status, batch>>
  BY DEF Lock, Free, AtLock, tables
<1>2. OthersSame(t)
  BY <1>1 DEF OthersSame, Advance, TypeOK
<1>3. NextUrl(t) \in Urls /\ NextMode(t) \in Modes
  BY <1>1, NextStatement
<1>4. ASSUME NEW u \in Urls
      PROVE  held'[u] = IF u = NextUrl(t) /\ u \in stored THEN held[u] \cup {new} ELSE held[u]
  BY <1>3 DEF Lock, TypeOK
<1>5. new \in [by : Transactions, mode : Modes]
  BY <1>3
<1>6. TypeOK'
  <2>1. held' \in [Urls -> SUBSET [by : Transactions, mode : Modes]]
    BY <1>3, <1>5 DEF Lock, TypeOK
  <2> QED
    BY <2>1, <1>1, <1>2, AdvanceFacts, LeavingTheLine DEF TypeOK
<1>7. BatchInv'
  <2>1. ASSUME NEW x \in Transactions, x # t
        PROVE  status'[x] = status[x] /\ batch'[x] = batch[x] /\ done'[x] = done[x]
    BY <1>2, <2>1, Frame
  <2>2. batch'[t] = batch[t] /\ status'[t] = "open" /\ done'[t] <= 2 * Len(batch[t])
        /\ (t \notin Flushes => done'[t] = 1 /\ Len(batch[t]) = 1)
    BY <1>1, AdvanceFacts
  <2> QED
    BY <2>1, <2>2 DEF BatchInv
<1>8. LockInv'
  <2>1. ASSUME NEW u \in Urls, NEW l \in held[u]
        PROVE  /\ l.by \in Transactions
               /\ l.by \notin Flushes => l.by # t /\ Inserting(l.by)' = Inserting(l.by)
    BY <1>1, <1>2, LockRecord, ClientAtLock, Frame DEF HoldsLock
  <2>2. ASSUME NEW l \in held[NextUrl(t)], l.by # t
        PROVE  ~Conflict(l.mode, NextMode(t)) /\ ~Conflict(NextMode(t), l.mode)
    BY <1>1, <2>2 DEF Holders, Conflict
  <2>3. /\ t \in Redirects => NextMode(t) = "update"
        /\ t \in Deletes => NextMode(t) = "delete"
        /\ t \in Flushes => NextMode(t) \in {"share", "update"}
    BY DEF NextMode
  <2>4. t \notin Flushes => ~Inserting(t)'
    <3> SUFFICES ASSUME t \notin Flushes PROVE ~Inserting(t)'
      OBVIOUS
    <3>1. done'[t] = 1 /\ Len(batch'[t]) = 1
      BY <1>1, AdvanceFacts
    <3> QED
      BY <3>1 DEF Inserting
  <2>5. ASSUME NEW u \in Urls, NEW l \in held'[u]
        PROVE  l \in held[u] \/ (l = new /\ u = NextUrl(t) /\ u \in stored)
    BY <1>4
  <2>6. new.by = t /\ new.mode = NextMode(t)
    OBVIOUS
  <2> HIDE DEF new
  <2>7. ASSUME NEW u \in Urls, NEW l \in held'[u], NEW k \in held'[u], k.by # l.by
        PROVE  ~Conflict(k.mode, l.mode)
    BY <2>2, <2>5, <2>6, <2>7 DEF LockInv
  <2>8. ASSUME NEW u \in Urls, NEW l \in held'[u]
        PROVE  /\ u \in stored /\ status[l.by] = "open"
               /\ l.by \in Redirects => l.mode = "update"
               /\ l.by \in Deletes => l.mode = "delete"
               /\ l.by \in Flushes => l.mode \in {"share", "update"}
               /\ l.by \notin Flushes => ~Inserting(l.by)'
    BY <2>1, <2>3, <2>4, <2>5, <2>6, <1>1 DEF LockInv
  <2> QED
    BY <2>7, <2>8, <1>1 DEF LockInv
<1>9. ASSUME NEW u \in Urls, NEW x \in Transactions, NEW m
      PROVE  /\ Holds(x, m, u) => Has(x, m, u)
             /\ Has(x, m, u) =>
                  Holds(x, m, u) \/ (x = t /\ m = NextMode(t) /\ u = NextUrl(t) /\ u \in stored)
             /\ x = t /\ m = NextMode(t) /\ u = NextUrl(t) /\ u \in stored => Has(x, m, u)
  <2> DEFINE r == [by |-> x, mode |-> m]
  <2>1. r = new <=> x = t /\ m = NextMode(t)
    OBVIOUS
  <2>2. Holds(x, m, u) <=> r \in held[u]
    BY DEF Holds
  <2>3. Has(x, m, u) <=> r \in held'[u]
    OBVIOUS
  <2> HIDE DEF new, r, Has
  <2>4. r \in held'[u] <=> r \in held[u] \/ (r = new /\ u = NextUrl(t) /\ u \in stored)
    BY <1>4
  <2> QED
    BY <2>1, <2>2, <2>3, <2>4
<1>10. RoomInv'
  <2>1. ASSUME NextMode(t) = "update", NextUrl(t) \in stored
        PROVE  clickCount[NextUrl(t)] + Events(t, NextUrl(t)) <= MaxCount
    <3>1. Events(t, NextUrl(t)) \in Nat /\ clickCount[NextUrl(t)] \in Nat
      BY <1>3, BatchFacts DEF TypeOK
    <3> QED
      BY <2>1, <3>1 DEF Lock, Overflows
  <2>2. ASSUME NEW u \in Urls, NEW x \in Transactions
        PROVE  Events(x, u)' = Events(x, u) /\ clickCount' = clickCount
    BY <1>1, SameEvents
  <2> QED
    BY <2>1, <2>2, <1>9 DEF RoomInv, Holds
<1>11. OrderInv'
  <2>1. ASSUME NEW x \in Transactions
        PROVE  /\ batch'[x] = batch[x] /\ FirstPlaces(x)' = FirstPlaces(x)
               /\ done[x] \in Nat /\ done'[x] \in Nat /\ done[x] <= done'[x]
               /\ Len(batch[x]) \in Nat /\ FirstPlaces(x) \in SUBSET Nat
    <3>1. done[x] \in Nat /\ Len(batch[x]) \in Nat /\ FirstPlaces(x) \in SUBSET Nat
      BY BatchFacts
    <3>2. x # t => done'[x] = done[x]
      BY <1>2, Frame
    <3>3. done'[t] \in Nat /\ done[t] < done'[t]
      BY <1>1, AdvanceFacts
    <3> QED
      BY <3>1, <3>2, <3>3, <1>1, SameEvents
  <2>2. ASSUME t \in Flushes, NextMode(t) = "update"
        PROVE  /\ Place(t) \in FirstPlaces(t) /\ batch[t][Place(t)] = NextUrl(t)
               /\ Len(batch[t]) + Place(t) <= done'[t]
    BY <2>2, <1>1, NextStatement, AdvanceFacts, BatchFacts DEF NextUrl
  <2>3. ASSUME NEW u \in Urls, NEW x \in Flushes, Has(x, "update", u)
        PROVE  \E i \in FirstPlaces(x) : batch[x][i] = u /\ Len(batch[x]) + i <= done'[x]
    <3>1. x \in Transactions
      BY DEF Transactions
    <3>2. CASE Holds(x, "update", u)
      <4>1. PICK i \in FirstPlaces(x) : batch[x][i] = u /\ Len(batch[x]) + i <= done[x]
        BY <3>2 DEF OrderInv
      <4>2. Len(batch[x]) + i <= done'[x]
        BY <4>1, <3>1, <2>1
      <4> QED
        BY <4>1, <4>2
    <3> QED
      BY <2>2, <2>3, <3>1, <3>2, <1>9
  <2> QED
    BY <2>1, <2>3 DEF OrderInv, Transactions, Holds
<1>12. TakenInv'
  <2>1. ASSUME NEW x \in Transactions, x # t
        PROVE  /\ status'[x] = status[x] /\ batch'[x] = batch[x] /\ done'[x] = done[x]
               /\ Inserting(x)' = Inserting(x) /\ FirstPlaces(x)' = FirstPlaces(x)
               /\ FirstPlaces(x) \in SUBSET (DOMAIN batch[x])
               /\ DOMAIN batch[x] = 1..Len(batch[x]) /\ Len(batch[x]) \in Nat
               /\ \A i \in DOMAIN batch[x] : batch[x][i] \in Urls
    BY <2>1, <1>2, Frame, BatchFacts
  <2>2. ASSUME NEW x \in Transactions, x # t, status[x] = "open", x \in Flushes
        PROVE  /\ \A i \in DOMAIN batch[x] : i <= done[x] => Has(x, "share", batch[x][i])
               /\ \A i \in FirstPlaces(x) :
                    Len(batch[x]) + i <= done[x] => Has(x, "update", batch[x][i])
    BY <2>1, <2>2, <1>9 DEF TakenInv
  <2>3. ASSUME NEW x \in Redirects, x # t, status[x] = "open", ~Inserting(x), batch[x][1] \in stored
        PROVE  Has(x, "update", batch[x][1])
    <3>1. x \in Transactions /\ batch[x][1] \in Urls
      <4>1. x \in Transactions /\ x \notin Flushes
        BY DEF Transactions
      <4>2. Len(batch[x]) = 1
        BY <4>1, <2>3 DEF BatchInv
      <4>3. 1 \in DOMAIN batch[x]
        BY <4>1, <4>2, BatchFacts
      <4> QED
        BY <4>1, <4>3, BatchFacts
    <3> QED
      BY <2>3, <3>1, <1>9 DEF TakenInv
  <2>4. /\ batch'[t] = batch[t] /\ FirstPlaces(t)' = FirstPlaces(t)
        /\ FirstPlaces(t) \in SUBSET (DOMAIN batch[t])
        /\ DOMAIN batch[t] = 1..Len(batch[t]) /\ Len(batch[t]) \in Nat /\ done[t] \in Nat
        /\ \A i \in DOMAIN batch[t] : batch[t][i] \in Urls
    BY <1>1, SameEvents, BatchFacts
  <2>5. ASSUME t \in Flushes, Inserting(t)
        PROVE  /\ \A i \in DOMAIN batch[t] : i <= done'[t] => Has(t, "share", batch[t][i])
               /\ \A i \in FirstPlaces(t) : ~(Len(batch[t]) + i <= done'[t])
    <3>1. Place(t) = done[t] + 1 /\ done'[t] = Place(t) /\ Place(t) \in DOMAIN batch[t]
          /\ NextMode(t) = "share"
      BY <2>5, <1>1, NextStatement, AdvanceFacts
    <3>2. Has(t, "share", batch[t][Place(t)])
      BY <3>1, <1>3, <1>9 DEF Lock, NextUrl
    <3>3. ASSUME NEW i \in DOMAIN batch[t], i <= done'[t]
          PROVE  i = Place(t) \/ i <= done[t]
      BY <3>1, <3>3, <2>4
    <3>4. ASSUME NEW i \in DOMAIN batch[t], i <= done[t]
          PROVE  Has(t, "share", batch[t][i])
      BY <3>4, <2>4, <2>5, <1>1, <1>9 DEF TakenInv
    <3>5. \A i \in FirstPlaces(t) : ~(Len(batch[t]) + i <= done'[t])
      BY <3>1, <2>4
    <3> QED
      BY <3>2, <3>3, <3>4, <3>5
  <2>6. ASSUME t \in Flushes, ~Inserting(t)
        PROVE  /\ \A i \in DOMAIN batch[t] : Has(t, "share", batch[t][i])
               /\ \A i \in FirstPlaces(t) :
                    Len(batch[t]) + i <= done'[t] => Has(t, "update", batch[t][i])
    <3>1. /\ Place(t) \in FirstPlaces(t) /\ done'[t] = Len(batch[t]) + Place(t)
          /\ Len(batch[t]) + Place(t) > done[t]
          /\ \A i \in FirstPlaces(t) : Len(batch[t]) + i > done[t] => Place(t) <= i
          /\ NextMode(t) = "update"
      BY <2>6, <1>1, NextStatement, AdvanceFacts DEF NextMode
    <3>2. \A i \in DOMAIN batch[t] : i <= done[t] /\ Holds(t, "share", batch[t][i])
      BY <2>4, <2>6, <1>1 DEF TakenInv, Inserting
    <3>3. NextUrl(t) \in stored
      BY <3>1, <3>2, <2>4 DEF NextUrl, LockInv, Holds
    <3>4. Has(t, "update", batch[t][Place(t)])
      BY <3>1, <3>3, <1>3, <1>9 DEF NextUrl
    <3>5. ASSUME NEW i \in FirstPlaces(t), Len(batch[t]) + i <= done'[t]
          PROVE  i = Place(t) \/ Len(batch[t]) + i <= done[t]
      BY <3>1, <3>5, <2>4
    <3>6. ASSUME NEW i \in FirstPlaces(t), Len(batch[t]) + i <= done[t]
          PROVE  Has(t, "update", batch[t][i])
      BY <3>6, <2>4, <2>6, <1>1, <1>9 DEF TakenInv
    <3> QED
      BY <3>2, <3>4, <3>5, <3>6, <2>4, <1>9
  <2>7. ASSUME t \in Redirects, batch[t][1] \in stored
        PROVE  Has(t, "update", batch[t][1])
    <3>1. Place(t) = 1 /\ NextMode(t) = "update"
      BY <2>7, <1>1, AdvanceFacts DEF NextMode
    <3> QED
      BY <3>1, <2>7, <1>3, <1>9 DEF NextUrl
  <2>8. ASSUME NEW x \in Transactions, status[x] = "open", x \in Flushes
        PROVE  /\ \A i \in DOMAIN batch[x] : i <= done'[x] => Has(x, "share", batch[x][i])
               /\ \A i \in FirstPlaces(x) :
                    Len(batch[x]) + i <= done'[x] => Has(x, "update", batch[x][i])
    BY <2>1, <2>2, <2>5, <2>6, <2>8
  <2>9. ASSUME NEW x \in Transactions
        PROVE  batch'[x] = batch[x] /\ status'[x] = status[x] /\ FirstPlaces(x)' = FirstPlaces(x)
    BY <1>1, SameEvents
  <2>10. ASSUME NEW x \in Redirects, status[x] = "open", ~Inserting(x)', batch[x][1] \in stored
         PROVE  Has(x, "update", batch[x][1])
    BY <2>1, <2>3, <2>7, <2>10 DEF Transactions
  <2> QED
    BY <2>8, <2>9, <2>10, <1>1 DEF TakenInv, Transactions, Holds
<1>13. LineInv'
  BY <1>1, <1>2, LeavingTheLine
<1>14. DoomInv'
  <2>1. ASSUME NEW x \in waiting'
        PROVE  /\ x \in waiting /\ NextUrl(x)' = NextUrl(x) /\ Inserting(x)' = Inserting(x)
               /\ NextUrl(x) \in Urls
    <3>1. x \in waiting /\ x \in Transactions /\ x # t
      BY <1>1, <1>2, LeavingTheLine DEF TypeOK
    <3>2. NextUrl(x) \in Urls
      BY <3>1, NextStatement DEF LineInv
    <3> QED
      BY <3>1, <3>2, <1>2, Frame
  <2>2. ASSUME NEW u \in Urls, Doomed(u) PROVE Doomed(u)'
    BY <2>2, <1>1, <1>9 DEF Doomed, Holds, Transactions
  <2> QED
    BY <2>1, <2>2 DEF DoomInv
<1> QED
  BY <1>6, <1>7, <1>8, <1>10, <1>11, <1>12, <1>13, <1>14

(* What ending a transaction, in either way, does to the locks.            *)
LEMMA Releasing ==
    ASSUME StateInv, NEW t \in Transactions, OthersSame(t), ReleaseLocks(t)
    PROVE  /\ \A u \in Urls : held'[u] = {l \in held[u] : l.by # t}
           /\ held' \in [Urls -> SUBSET [by : Transactions, mode : Modes]]
           /\ \A u \in Urls, x \in Transactions, m \in Modes :
                Holds(x, m, u)' <=> x # t /\ Holds(x, m, u)
           /\ \A u \in Urls : \A l \in held'[u] :
                /\ l \in held[u] /\ l.by # t /\ l.by \in Transactions
                /\ status'[l.by] = status[l.by] /\ Inserting(l.by)' = Inserting(l.by)
           /\ OrderInv' /\ LineInv'
<1> USE DEF StateInv
<1>1. \A u \in Urls : held'[u] = {l \in held[u] : l.by # t}
  BY DEF ReleaseLocks
<1>2. held' \in [Urls -> SUBSET [by : Transactions, mode : Modes]]
  BY DEF ReleaseLocks, TypeOK
<1>3. ASSUME NEW u \in Urls, NEW x \in Transactions, NEW m \in Modes
      PROVE  Holds(x, m, u)' <=> x # t /\ Holds(x, m, u)
  <2>1. [by |-> x, mode |-> m].by = x
    OBVIOUS
  <2> QED
    BY <1>1, <2>1 DEF Holds
<1>4. ASSUME NEW u \in Urls, NEW l \in held'[u]
      PROVE  /\ l \in held[u] /\ l.by # t /\ l.by \in Transactions
             /\ status'[l.by] = status[l.by] /\ Inserting(l.by)' = Inserting(l.by)
  <2>1. l \in held[u] /\ l.by # t
    BY <1>1
  <2>2. l.by \in Transactions
    BY <2>1, LockRecord
  <2> QED
    BY <2>1, <2>2, Frame
<1>5. OrderInv'
  <2>1. ASSUME NEW u \in Urls, NEW x \in Flushes, Holds(x, "update", u)'
        PROVE  \E i \in FirstPlaces(x)' : batch'[x][i] = u /\ Len(batch'[x]) + i <= done'[x]
    <3>1. x \in Transactions /\ x # t /\ Holds(x, "update", u)
      BY <2>1, <1>3 DEF Transactions, Modes
    <3>2. FirstPlaces(x)' = FirstPlaces(x) /\ batch'[x] = batch[x] /\ done'[x] = done[x]
      BY <3>1, Frame
    <3> QED
      BY <3>1, <3>2 DEF OrderInv
  <2> QED
    BY <2>1 DEF OrderInv
<1>6. LineInv'
  BY LeavingTheLine DEF ReleaseLocks
<1> QED
  BY <1>1, <1>2, <1>3, <1>4, <1>5, <1>6

LEMMA RollBackStep ==
    ASSUME StateInv, NEW t \in Transactions, AtLock(t), RollBack(t)
    PROVE  StateInv'
<1> USE DEF StateInv
<1>1. /\ ReleaseLocks(t) /\ status'[t] = "rolled_back"
      /\ UNCHANGED <<stored, clickCount, rows, batch, done>>
  BY DEF RollBack, tables, TypeOK
<1>2. OthersSame(t)
  BY <1>1 DEF OthersSame, RollBack, TypeOK
<1>3. TypeOK'
  BY <1>1, <1>2, Releasing, LeavingTheLine DEF ReleaseLocks, RollBack, TypeOK
<1>4. BatchInv'
  BY <1>1, <1>2, Frame DEF BatchInv, AtLock
<1>5. LockInv'
  BY <1>1, <1>2, Releasing DEF LockInv
<1>6. RoomInv'
  BY <1>1, <1>2, Releasing, SameEvents DEF RoomInv, Modes
<1>7. OrderInv' /\ LineInv'
  BY <1>1, <1>2, Releasing
<1>8. TakenInv'
  <2>1. ASSUME NEW x \in Transactions, status'[x] = "open"
        PROVE  /\ x # t /\ status[x] = "open" /\ Inserting(x)' = Inserting(x)
               /\ FirstPlaces(x)' = FirstPlaces(x)
               /\ \A u \in Urls, m \in Modes : Holds(x, m, u)' <=> Holds(x, m, u)
               /\ \A i \in DOMAIN batch[x] : batch[x][i] \in Urls
               /\ FirstPlaces(x) \in SUBSET (DOMAIN batch[x])
    BY <2>1, <1>1, <1>2, Frame, Releasing, BatchFacts
  <2>2. ASSUME NEW x \in Flushes, status'[x] = "open"
        PROVE  /\ \A i \in DOMAIN batch[x] : i <= done[x] => Holds(x, "share", batch[x][i])'
               /\ \A i \in FirstPlaces(x) :
                    Len(batch[x]) + i <= done[x] => Holds(x, "update", batch[x][i])'
    BY <2>1, <2>2, <1>1 DEF TakenInv, Transactions, Modes
  <2>3. ASSUME NEW x \in Redirects, status'[x] = "open", ~Inserting(x), batch[x][1] \in stored
        PROVE  Holds(x, "update", batch[x][1])'
    <3>1. batch[x][1] \in Urls
      BY <2>3 DEF TypeOK
    <3> QED
      BY <2>1, <2>3, <3>1, <1>1 DEF TakenInv, Transactions, Modes
  <2> QED
    BY <2>1, <2>2, <2>3, <1>1 DEF TakenInv, Transactions
<1>9. DoomInv'
  <2>1. ASSUME NEW x \in waiting'
        PROVE  /\ x \in waiting /\ NextUrl(x)' = NextUrl(x) /\ Inserting(x)' = Inserting(x)
               /\ NextUrl(x) \in Urls
    <3>1. x \in waiting /\ x \in Transactions /\ x # t
      BY <1>1, <1>2, LeavingTheLine DEF TypeOK, ReleaseLocks
    <3>2. NextUrl(x) \in Urls
      BY <3>1, NextStatement DEF LineInv
    <3> QED
      BY <3>1, <3>2, <1>2, Frame
  <2>2. ASSUME NEW u \in Urls, NEW d \in Deletes, Holds(d, "delete", u)
        PROVE  Holds(d, "delete", u)'
    <3>1. d # t
      BY <2>2, ClientAtLock DEF HoldsLock, Holds, Transactions
    <3> QED
      BY <2>2, <3>1, <1>1, <1>2, Releasing DEF Transactions, Modes
  <2> QED
    BY <2>1, <2>2, <1>1 DEF DoomInv, Doomed
<1> QED
  BY <1>3, <1>4, <1>5, <1>6, <1>7, <1>8, <1>9

(* The new counts of a commit.                                             *)
LEMMA CommitTables ==
    ASSUME StateInv, NEW t \in Transactions, Commit(t), NEW u \in Urls
    PROVE  /\ u \in Updated(t) <=> Holds(t, "update", u)
           /\ u \in Deleted(t) <=> Holds(t, "delete", u)
           /\ clickCount'[u] \in 0..MaxCount /\ rows'[u] \in Nat
           /\ clickCount[u] \in Nat /\ clickCount[u] <= clickCount'[u]
           /\ u \notin Updated(t) => clickCount'[u] = clickCount[u]
<1> USE DEF StateInv
<1>1. /\ u \in Updated(t) <=> Holds(t, "update", u)
      /\ u \in Deleted(t) <=> Holds(t, "delete", u)
  BY DEF Updated, Deleted, Holds
<1>2. Events(t, u) \in Nat /\ clickCount[u] \in 0..MaxCount /\ rows[u] \in Nat /\ MaxCount \in Nat
  BY BatchFacts DEF TypeOK
<1>3. Holds(t, "update", u) => clickCount[u] + Events(t, u) <= MaxCount
  BY DEF RoomInv
<1>4. clickCount'[u] = IF u \in Updated(t) THEN clickCount[u] + Events(t, u) ELSE clickCount[u]
  BY <1>2 DEF Commit
<1>5. rows'[u] = IF u \in Deleted(t) THEN 0 ELSE rows[u] + (IF t \in Flushes THEN Events(t, u) ELSE 0)
  BY DEF Commit
<1>6. rows'[u] \in Nat
  BY <1>2, <1>5
<1>7. clickCount'[u] \in 0..MaxCount /\ clickCount[u] <= clickCount'[u]
  BY <1>1, <1>2, <1>3, <1>4
<1> QED
  BY <1>1, <1>2, <1>4, <1>6, <1>7

LEMMA CommitStep ==
    ASSUME StateInv, NEW t \in Transactions, Commit(t)
    PROVE  StateInv'
<1> USE DEF StateInv
<1>1. /\ ReleaseLocks(t) /\ status[t] = "open" /\ status'[t] = "committed"
      /\ stored' = stored \ Deleted(t)
      /\ UNCHANGED <<batch, done>>
  BY DEF Commit, TypeOK
<1>2. OthersSame(t)
  BY <1>1 DEF OthersSame, Commit, TypeOK
<1>3. TypeOK'
  <2>1. clickCount' \in [Urls -> 0..MaxCount] /\ rows' \in [Urls -> Nat]
    BY CommitTables DEF Commit
  <2> QED
    BY <2>1, <1>1, <1>2, Releasing, LeavingTheLine DEF ReleaseLocks, Commit, TypeOK
<1>4. BatchInv'
  BY <1>1, <1>2, Frame DEF BatchInv
<1>5. ASSUME NEW u \in Urls, NEW l \in held'[u]
      PROVE  ~Holds(t, "delete", u) /\ (Holds(t, "update", u) => l.mode = "share")
  <2>1. l \in held[u] /\ l.by # t /\ l.mode \in Modes
    BY <1>1, <1>2, Releasing, LockRecord
  <2>2. ASSUME NEW k \in held[u], k.by = t PROVE ~Conflict(k.mode, l.mode)
    BY <2>1, <2>2 DEF LockInv
  <2>3. ASSUME NEW m, Holds(t, m, u) PROVE ~Conflict(m, l.mode)
    <3> DEFINE k == [by |-> t, mode |-> m]
    <3>1. k \in held[u] /\ k.by = t /\ k.mode = m
      BY <2>3 DEF Holds
    <3> QED
      BY <3>1, <2>2
  <2> QED
    BY <2>1, <2>3 DEF Conflict, Modes
<1>6. LockInv'
  <2>1. ASSUME NEW u \in Urls, NEW l \in held'[u] PROVE u \in stored'
    <3>1. u \in stored
      BY <1>1, <1>2, Releasing DEF LockInv
    <3> QED
      BY <3>1, <1>1, <1>5, CommitTables
  <2> QED
    BY <2>1, <1>1, <1>2, Releasing DEF LockInv
<1>7. RoomInv'
  <2>1. ASSUME NEW u \in Urls, NEW x \in Transactions, Holds(x, "update", u)'
        PROVE  clickCount'[u] + Events(x, u)' <= MaxCount
    <3>1. x # t /\ Holds(x, "update", u)
      BY <2>1, <1>1, <1>2, Releasing DEF Modes
    <3>2. ~Holds(t, "update", u)
      <4> DEFINE l == [by |-> x, mode |-> "update"]
      <4>1. l \in held'[u] /\ l.mode # "share"
        BY <2>1 DEF Holds
      <4> QED
        BY <4>1, <1>5
    <3>3. clickCount'[u] = clickCount[u]
      BY <3>2, CommitTables
    <3>4. Events(x, u)' = Events(x, u)
      BY <1>1, SameEvents
    <3> QED
      BY <3>1, <3>3, <3>4 DEF RoomInv
  <2> QED
    BY <2>1 DEF RoomInv
<1>8. OrderInv' /\ LineInv'
  BY <1>1, <1>2, Releasing
<1>9. TakenInv'
  <2>1. ASSUME NEW x \in Transactions, status'[x] = "open"
        PROVE  /\ x # t /\ status[x] = "open" /\ Inserting(x)' = Inserting(x)
               /\ FirstPlaces(x)' = FirstPlaces(x)
               /\ \A u \in Urls, m \in Modes : Holds(x, m, u)' <=> Holds(x, m, u)
               /\ \A i \in DOMAIN batch[x] : batch[x][i] \in Urls
               /\ FirstPlaces(x) \in SUBSET (DOMAIN batch[x])
    BY <2>1, <1>1, <1>2, Frame, Releasing, BatchFacts
  <2>2. ASSUME NEW x \in Flushes, status'[x] = "open"
        PROVE  /\ \A i \in DOMAIN batch[x] : i <= done[x] => Holds(x, "share", batch[x][i])'
               /\ \A i \in FirstPlaces(x) :
                    Len(batch[x]) + i <= done[x] => Holds(x, "update", batch[x][i])'
    BY <2>1, <2>2, <1>1 DEF TakenInv, Transactions, Modes
  <2>3. ASSUME NEW x \in Redirects, status'[x] = "open", ~Inserting(x), batch[x][1] \in stored
        PROVE  Holds(x, "update", batch[x][1])'
    <3>1. batch[x][1] \in Urls
      BY <2>3 DEF TypeOK
    <3> QED
      BY <2>1, <2>3, <3>1, <1>1 DEF TakenInv, Transactions, Modes
  <2> QED
    BY <2>1, <2>2, <2>3, <1>1 DEF TakenInv, Transactions
<1>10. DoomInv'
  <2>1. ASSUME NEW x \in waiting'
        PROVE  /\ x \in waiting /\ NextUrl(x)' = NextUrl(x) /\ Inserting(x)' = Inserting(x)
               /\ NextUrl(x) \in Urls
    <3>1. x \in waiting /\ x \in Transactions /\ x # t
      BY <1>1, <1>2, LeavingTheLine DEF TypeOK, ReleaseLocks
    <3>2. NextUrl(x) \in Urls
      BY <3>1, NextStatement DEF LineInv
    <3> QED
      BY <3>1, <3>2, <1>2, Frame
  <2>2. ASSUME NEW u \in Urls, NEW d \in Deletes, Holds(d, "delete", u)
        PROVE  Holds(d, "delete", u)' \/ u \notin stored'
    <3>1. CASE d = t
      BY <3>1, <2>2, <1>1, CommitTables
    <3>2. CASE d # t
      BY <2>2, <3>2, <1>1, <1>2, Releasing DEF Transactions, Modes
    <3> QED
      BY <3>1, <3>2
  <2> QED
    BY <2>1, <2>2, <1>1 DEF DoomInv, Doomed
<1> QED
  BY <1>3, <1>4, <1>6, <1>7, <1>8, <1>9, <1>10

(* The invariant, and the five kinds of steps it is kept by.               *)
LEMMA StateStep ==
    ASSUME StateInv, [Next]_vars
    PROVE  StateInv'
<1>1. CASE Next
  <2>1. PICK t \in Transactions : Begin(t) \/ Step(t)
    BY <1>1 DEF Next
  <2>2. StatementFails(t) => AtLock(t) /\ RollBack(t)
    BY DEF StatementFails, Free
  <2>3. BreakDeadlock(t) => AtLock(t) /\ RollBack(t)
    BY DEF BreakDeadlock, StateInv, LineInv
  <2> QED
    BY <2>1, <2>2, <2>3, BeginStep, WaitStep, LockStep, RollBackStep, CommitStep DEF Step
<1>2. CASE UNCHANGED vars
  <2> USE DEF vars, tables, locks, StateInv
  <2>1. TypeOK' /\ BatchInv' /\ LockInv'
    BY <1>2 DEF TypeOK, BatchInv, LockInv, Inserting
  <2>2. RoomInv' /\ OrderInv'
    BY <1>2 DEF RoomInv, OrderInv, Events, FirstPlaces, Holds
  <2>3. TakenInv'
    BY <1>2 DEF TakenInv, Inserting, FirstPlaces, Holds
  <2>4. \A x \in Transactions :
          AtLock(x)' = AtLock(x) /\ NextUrl(x)' = NextUrl(x) /\ Inserting(x)' = Inserting(x)
    BY <1>2, SameStatement DEF AtLock
  <2>5. waiting \subseteq Transactions
    BY DEF TypeOK
  <2>6. LineInv'
    BY <1>2, <2>4, <2>5 DEF LineInv
  <2>7. DoomInv'
    BY <1>2, <2>4, <2>5 DEF DoomInv, Doomed, Holds
  <2> QED
    BY <2>1, <2>2, <2>3, <2>6, <2>7
<1> QED
  BY <1>1, <1>2

LEMMA StateInit ==
    ASSUME Init
    PROVE  StateInv
<1> USE DEF Init
<1>1. TypeOK
  BY DEF TypeOK
<1>2. BatchInv /\ LockInv /\ RoomInv /\ OrderInv /\ TakenInv /\ LineInv /\ DoomInv
  BY DEF BatchInv, LockInv, RoomInv, OrderInv, TakenInv, LineInv, DoomInv, Holds, Transactions
<1> QED
  BY <1>1, <1>2 DEF StateInv

LEMMA StateInvariant == Spec => []StateInv
  BY StateInit, StateStep, PTL DEF Spec

-----------------------------------------------------------------------------
(* The counters agree with the clicks.                                     *)

CommittedOn(u) == {r \in Redirects : status[r] = "committed" /\ Events(r, u) > 0}

CountInv == \A u \in stored : clickCount[u] = rows[u] + Cardinality(CommittedOn(u))

(* A client writes to one URL, once.                                       *)
LEMMA ClientEvents ==
    ASSUME StateInv, NEW t \in Transactions, t \notin Flushes, status[t] # "new", NEW u \in Urls
    PROVE  /\ batch[t][1] = u => Events(t, u) = 1
           /\ batch[t][1] # u => Events(t, u) = 0
<1> DEFINE P == {i \in DOMAIN batch[t] : batch[t][i] = u}
<1>1. DOMAIN batch[t] = {1}
  <2>1. Len(batch[t]) = 1 /\ DOMAIN batch[t] = 1..Len(batch[t])
    BY BatchFacts DEF StateInv, BatchInv
  <2> QED
    BY <2>1
<1>2. batch[t][1] = u => P = {1}
  BY <1>1
<1>3. batch[t][1] # u => P = {}
  BY <1>1
<1> QED
  BY <1>2, <1>3, FS_Singleton, FS_EmptySet DEF Events

(* Committed redirects are not affected by another transaction's step.     *)
LEMMA CommittedFrame ==
    ASSUME NEW t \in Transactions, OthersSame(t),
           t \notin Redirects \/ (status[t] # "committed" /\ status'[t] # "committed"),
           NEW u \in Urls
    PROVE  CommittedOn(u)' = CommittedOn(u)
<1>1. ASSUME NEW r \in Redirects, r # t
      PROVE  status'[r] = status[r] /\ Events(r, u)' = Events(r, u)
  BY <1>1, Frame DEF Transactions
<1> QED
  BY <1>1 DEF CommittedOn

LEMMA FlushCounts ==
    ASSUME StateInv, CountInv, NEW t \in Flushes, Commit(t), NEW u \in stored'
    PROVE  clickCount'[u] = rows'[u] + Cardinality(CommittedOn(u)')
<1> USE DEF StateInv
<1>1. t \in Transactions /\ u \in stored /\ u \in Urls /\ u \notin Deleted(t)
  BY DEF Commit, TypeOK, Transactions
<1>2. OthersSame(t)
  BY <1>1 DEF OthersSame, Commit, TypeOK
<1>3. CommittedOn(u)' = CommittedOn(u)
  BY <1>1, <1>2, CommittedFrame
<1>4. ASSUME u \notin Updated(t) PROVE Events(t, u) = 0
  <2> SUFFICES ASSUME Events(t, u) # 0 PROVE FALSE
    OBVIOUS
  <2>1. PICK i \in FirstPlaces(t) : batch[t][i] = u
    BY <1>1, FirstOccurrence
  <2>2. ~(Len(batch[t]) + i > done[t]) /\ status[t] = "open"
    BY DEF Commit, AtLock, UpdatesLeft
  <2>3. Len(batch[t]) + i <= done[t]
    BY <2>2, <1>1, BatchFacts
  <2>4. Holds(t, "update", u)
    BY <2>1, <2>2, <2>3, <1>1 DEF TakenInv
  <2> QED
    BY <2>4, <1>1, <1>4, CommitTables
<1>5. clickCount'[u] = clickCount[u] + Events(t, u) /\ rows'[u] = rows[u] + Events(t, u)
  <2>1. Events(t, u) \in Nat
    BY <1>1, BatchFacts
  <2> QED
    BY <2>1, <1>1, <1>4 DEF Commit
<1>6. clickCount[u] = rows[u] + Cardinality(CommittedOn(u))
  BY <1>1 DEF CountInv
<1>7. Cardinality(CommittedOn(u)) \in Nat
  <2>1. CommittedOn(u) \in SUBSET Redirects
    BY DEF CommittedOn
  <2> QED
    BY <2>1, FS_Subset, FS_CardinalityType
<1> QED
  BY <1>1, <1>3, <1>5, <1>6, <1>7, BatchFacts DEF TypeOK

LEMMA RedirectCounts ==
    ASSUME StateInv, CountInv, NEW t \in Redirects, Commit(t), NEW u \in stored'
    PROVE  clickCount'[u] = rows'[u] + Cardinality(CommittedOn(u)')
<1> USE DEF StateInv
<1>1. /\ t \in Transactions /\ t \notin Flushes /\ u \in stored /\ u \in Urls /\ u \notin Deleted(t)
      /\ status[t] = "open" /\ status'[t] = "committed"
  BY DEF Commit, TypeOK, Transactions
<1>2. OthersSame(t)
  BY <1>1 DEF OthersSame, Commit, TypeOK
<1>3. rows'[u] = rows[u] /\ rows[u] \in Nat
  BY <1>1 DEF Commit, TypeOK
<1>4. clickCount[u] = rows[u] + Cardinality(CommittedOn(u)) /\ clickCount[u] \in Nat
  BY <1>1 DEF CountInv, TypeOK
<1>5. IsFiniteSet(CommittedOn(u)) /\ Cardinality(CommittedOn(u)) \in Nat
  <2>1. CommittedOn(u) \in SUBSET Redirects
    BY DEF CommittedOn
  <2> QED
    BY <2>1, FS_Subset, FS_CardinalityType
<1>6. Events(t, u)' = Events(t, u)
  BY <1>1, SameEvents DEF Commit
<1>7. ASSUME NEW r \in Redirects, r # t
      PROVE  status'[r] = status[r] /\ Events(r, u)' = Events(r, u)
  BY <1>7, <1>1, <1>2, Frame DEF Transactions
<1>8. t \notin CommittedOn(u)
  BY <1>1 DEF CommittedOn
<1>9. CASE batch[t][1] = u
  <2>1. Events(t, u) = 1
    BY <1>1, <1>9, ClientEvents
  <2>2. Holds(t, "update", u)
    BY <1>1, <1>9 DEF TakenInv, Commit, AtLock
  <2>3. clickCount'[u] = clickCount[u] + 1
    BY <2>1, <2>2, <1>1, CommitTables DEF Commit
  <2>4. CommittedOn(u)' = CommittedOn(u) \cup {t}
    BY <2>1, <1>1, <1>6, <1>7 DEF CommittedOn
  <2>5. Cardinality(CommittedOn(u)') = Cardinality(CommittedOn(u)) + 1
    BY <2>4, <1>5, <1>8, FS_AddElement
  <2> QED
    BY <2>3, <2>5, <1>3, <1>4, <1>5
<1>10. CASE batch[t][1] # u
  <2>1. Events(t, u) = 0
    BY <1>1, <1>10, ClientEvents
  <2>2. clickCount'[u] = clickCount[u]
    BY <2>1, <1>1, <1>4 DEF Commit
  <2>3. CommittedOn(u)' = CommittedOn(u)
    BY <2>1, <1>1, <1>6, <1>7 DEF CommittedOn
  <2> QED
    BY <2>2, <2>3, <1>3, <1>4
<1> QED
  BY <1>9, <1>10

LEMMA DeleteCounts ==
    ASSUME StateInv, CountInv, NEW t \in Deletes, Commit(t), NEW u \in stored'
    PROVE  clickCount'[u] = rows'[u] + Cardinality(CommittedOn(u)')
<1> USE DEF StateInv
<1>1. /\ t \in Transactions /\ t \notin Flushes /\ t \notin Redirects
      /\ u \in stored /\ u \in Urls /\ u \notin Deleted(t)
  BY DEF Commit, TypeOK, Transactions
<1>2. CommittedOn(u)' = CommittedOn(u)
  <2>1. OthersSame(t)
    BY <1>1 DEF OthersSame, Commit, TypeOK
  <2> QED
    BY <2>1, <1>1, CommittedFrame
<1>3. u \notin Updated(t)
  <2> SUFFICES ASSUME Holds(t, "update", u) PROVE FALSE
    BY <1>1, CommitTables
  <2> DEFINE l == [by |-> t, mode |-> "update"]
  <2>1. l \in held[u] /\ l.by = t /\ l.mode = "update"
    BY DEF Holds
  <2> QED
    BY <2>1, <1>1 DEF LockInv
<1>4. clickCount'[u] = clickCount[u] /\ rows'[u] = rows[u]
  BY <1>1, <1>3 DEF Commit, TypeOK
<1> QED
  BY <1>1, <1>2, <1>4 DEF CountInv

LEMMA CountStep ==
    ASSUME StateInv, CountInv, [Next]_vars
    PROVE  CountInv'
<1> USE DEF StateInv
<1>1. ASSUME NEW t \in Transactions, Begin(t) \/ Wait(t) \/ Lock(t) \/ (RollBack(t) /\ AtLock(t))
      PROVE  CountInv'
  <2>1. UNCHANGED <<stored, clickCount, rows>>
    BY <1>1 DEF Begin, Wait, Lock, RollBack, tables
  <2>2. OthersSame(t)
    BY <1>1 DEF Begin, Wait, Lock, RollBack, Advance, OthersSame, TypeOK
  <2>3. status[t] # "committed" /\ status'[t] # "committed"
    BY <1>1 DEF Begin, Wait, Lock, Free, RollBack, AtLock, TypeOK
  <2>4. stored \subseteq Urls
    BY DEF TypeOK
  <2> QED
    BY <2>1, <2>2, <2>3, <2>4, CommittedFrame DEF CountInv
<1>2. ASSUME NEW t \in Transactions, Commit(t)
      PROVE  CountInv'
  BY <1>2, FlushCounts, RedirectCounts, DeleteCounts DEF CountInv, Transactions
<1>3. CASE UNCHANGED vars
  BY <1>3 DEF vars, tables, CountInv, CommittedOn, Events
<1>4. CASE Next
  <2>1. PICK t \in Transactions : Begin(t) \/ Step(t)
    BY <1>4 DEF Next
  <2>2. StatementFails(t) => AtLock(t) /\ RollBack(t)
    BY DEF StatementFails, Free
  <2>3. BreakDeadlock(t) => AtLock(t) /\ RollBack(t)
    BY DEF BreakDeadlock, LineInv
  <2>4. Commit(t) \/ (Begin(t) \/ Wait(t) \/ Lock(t) \/ (RollBack(t) /\ AtLock(t)))
    BY <2>1, <2>2, <2>3 DEF Step
  <2> QED
    BY <2>4, <1>1, <1>2
<1> QED
  BY <1>3, <1>4

(* click_count never leaves its column and always is the number of clicks  *)
(* stored for the URL plus the number of redirects that were counted: a    *)
(* flush commits both sides or neither (AnalyticsWorker._flush_batch,      *)
(* UrlRepository.increment_click), whatever it waits for and wherever it   *)
(* fails.                                                                  *)
THEOREM CountersAgreeWithClicks == Spec => []CountsAgree
<1>1. Init => CountInv
  <2> SUFFICES ASSUME Init PROVE CountInv
    OBVIOUS
  <2>1. ASSUME NEW u \in Urls PROVE CommittedOn(u) = {}
    BY DEF Init, CommittedOn, Transactions
  <2>2. \A u \in Urls : Cardinality(CommittedOn(u)) = 0
    BY <2>1, FS_EmptySet
  <2> QED
    BY <2>2 DEF Init, CountInv
<1>2. StateInv /\ CountInv /\ [Next]_vars => CountInv'
  BY CountStep
<1>3. StateInv /\ CountInv => CountsAgree
  BY DEF CountsAgree, CountInv, CommittedOn, StateInv
<1> QED
  BY <1>1, <1>2, <1>3, StateInvariant, PTL DEF Spec

-----------------------------------------------------------------------------
(* Whom a transaction waits on, directly or through others.                *)

LEMMA WaitsForTransactions ==
    ASSUME StateInv, NEW t \in Transactions
    PROVE  /\ WaitsFor(t) \subseteq Transactions
           /\ t \notin waiting => WaitsFor(t) = {}
           /\ Before(t) \subseteq ahead[t] /\ WaitsFor(t) \subseteq ahead[t] \cup Holders(t)
           /\ t \in waiting => Holders(t) \subseteq Transactions
<1>1. Before(t) \subseteq ahead[t] /\ ahead[t] \subseteq Transactions
  BY DEF Before, StateInv, TypeOK
<1>2. t \in waiting => Holders(t) \subseteq Transactions
  BY NextStatement, LockRecord DEF Holders, StateInv, LineInv
<1> QED
  BY <1>1, <1>2 DEF WaitsFor

LEMMA WaitsOnTransactions ==
    ASSUME StateInv, NEW t \in Transactions, NEW x, WaitsOn(t, x)
    PROVE  x \in Transactions
<1>1. \A y \in Transactions : WaitsFor(y) \subseteq Transactions
  BY WaitsForTransactions
<1> QED
  BY <1>1 DEF WaitsOn

LEMMA WaitsOnDirectly ==
    ASSUME NEW t, NEW x \in WaitsFor(t)
    PROVE  WaitsOn(t, x)
  BY DEF WaitsOn

LEMMA WaitsOnNext ==
    ASSUME NEW t, NEW x, WaitsOn(t, x), NEW y \in WaitsFor(x)
    PROVE  WaitsOn(t, y)
  BY DEF WaitsOn

LEMMA WaitsOnTransitive ==
    ASSUME NEW t, NEW x, NEW y, WaitsOn(t, x), WaitsOn(x, y)
    PROVE  WaitsOn(t, y)
<1> SUFFICES ASSUME NEW S \in SUBSET Transactions, WaitsFor(t) \subseteq S,
                    \A z \in S : WaitsFor(z) \subseteq S
             PROVE  y \in S
  BY DEF WaitsOn
<1>1. x \in S
  BY DEF WaitsOn
<1>2. WaitsFor(x) \subseteq S
  BY <1>1
<1> QED
  BY <1>2 DEF WaitsOn

(* A wait begins with one of those waited for,                             *)
LEMMA WaitsOnFirst ==
    ASSUME StateInv, NEW t \in Transactions, NEW z, WaitsOn(t, z)
    PROVE  \E y \in WaitsFor(t) : y = z \/ WaitsOn(y, z)
<1> DEFINE S == {x \in Transactions : \E y \in WaitsFor(t) : y = x \/ WaitsOn(y, x)}
<1>1. WaitsFor(t) \subseteq S
  BY WaitsForTransactions
<1>2. ASSUME NEW x \in S, NEW w \in WaitsFor(x) PROVE w \in S
  <2>1. PICK y \in WaitsFor(t) : y = x \/ WaitsOn(y, x)
    OBVIOUS
  <2>2. WaitsOn(y, w)
    BY <2>1, WaitsOnDirectly, WaitsOnNext
  <2>3. w \in Transactions
    BY WaitsForTransactions
  <2> QED
    BY <2>2, <2>3
<1>3. S \in SUBSET Transactions
  OBVIOUS
<1> HIDE DEF S
<1>4. z \in S
  BY <1>1, <1>2, <1>3 DEF WaitsOn
<1> QED
  BY <1>4 DEF S

(* and ends with one that waits for the last.                              *)
LEMMA WaitsOnLast ==
    ASSUME StateInv, NEW t \in Transactions, NEW z, WaitsOn(t, z)
    PROVE  \E y \in Transactions : (y = t \/ WaitsOn(t, y)) /\ z \in WaitsFor(y)
<1> DEFINE S == {x \in Transactions :
                   \E y \in Transactions : (y = t \/ WaitsOn(t, y)) /\ x \in WaitsFor(y)}
<1>1. WaitsFor(t) \subseteq S
  BY WaitsForTransactions
<1>2. ASSUME NEW x \in S, NEW w \in WaitsFor(x) PROVE w \in S
  <2>1. PICK y \in Transactions : (y = t \/ WaitsOn(t, y)) /\ x \in WaitsFor(y)
    OBVIOUS
  <2>2. WaitsOn(t, x)
    BY <2>1, WaitsOnDirectly, WaitsOnNext
  <2>3. w \in Transactions
    BY WaitsForTransactions
  <2> QED
    BY <2>2, <2>3
<1>3. S \in SUBSET Transactions
  OBVIOUS
<1> HIDE DEF S
<1>4. z \in S
  BY <1>1, <1>2, <1>3 DEF WaitsOn
<1> QED
  BY <1>4 DEF S

-----------------------------------------------------------------------------
(* Who can be in a deadlock.                                               *)

(* A client that waits holds no lock anywhere: those in the way of others  *)
(* are flushes, or do not wait.                                            *)
LEMMA HoldersMove ==
    ASSUME StateInv, NEW t \in waiting, NEW x \in Holders(t)
    PROVE  x \in Transactions /\ (x \in waiting => x \in Flushes)
<1>1. t \in Transactions /\ AtLock(t) /\ NextUrl(t) \in Urls
  BY NextStatement DEF StateInv, TypeOK, LineInv
<1>2. HoldsLock(x, NextUrl(t)) /\ x \in Transactions
  BY <1>1, LockRecord DEF Holders, HoldsLock, StateInv
<1> QED
  BY <1>1, <1>2, ClientAtLock DEF StateInv, LineInv

(* A doomed row is held by its delete alone, which does not wait.          *)
LEMMA DoomedHolders ==
    ASSUME StateInv, NEW t \in waiting, Doomed(NextUrl(t)), NEW x \in Holders(t)
    PROVE  x \in Transactions \ waiting
<1> DEFINE u == NextUrl(t)
<1>1. t \in Transactions /\ u \in Urls
  BY NextStatement DEF StateInv, TypeOK, LineInv
<1>2. PICK k \in held[u] : k.by = x
  BY DEF Holders
<1>3. PICK d \in Deletes : Holds(d, "delete", u)
  BY <1>1, <1>2 DEF Doomed, StateInv, LockInv
<1> DEFINE l == [by |-> d, mode |-> "delete"]
<1>4. l \in held[u] /\ l.by = d /\ l.mode = "delete"
  BY <1>3 DEF Holds
<1>5. x = d
  BY <1>1, <1>2, <1>4 DEF StateInv, LockInv, Conflict
<1>6. d \in Transactions /\ d \notin Flushes
  BY DEF Transactions
<1> QED
  BY <1>5, <1>6, HoldersMove

LEMMA AheadInLine ==
    ASSUME StateInv, NEW t \in waiting, NEW x \in ahead[t]
    PROVE  /\ x \in waiting /\ x \in Transactions /\ t \in Transactions
           /\ NextUrl(x) = NextUrl(t) /\ ahead[x] \subseteq ahead[t]
  BY DEF StateInv, TypeOK, LineInv

(* Who waits for a doomed row is in no cycle: the line before it, and the  *)
(* delete, are all there is.                                               *)
LEMMA DoomedWaiter ==
    ASSUME StateInv, NEW t \in waiting, Doomed(NextUrl(t))
    PROVE  ~Deadlocked(t)
<1> DEFINE S == ahead[t] \cup (Transactions \ waiting)
<1>1. t \in Transactions /\ t \notin S
  BY DEF StateInv, TypeOK, LineInv
<1>2. S \in SUBSET Transactions
  BY AheadInLine
<1>3. WaitsFor(t) \subseteq S
  BY <1>1, WaitsForTransactions, DoomedHolders
<1>4. ASSUME NEW x \in S PROVE WaitsFor(x) \subseteq S
  <2>1. CASE x \in ahead[t]
    <3>1. x \in waiting /\ x \in Transactions /\ Doomed(NextUrl(x)) /\ ahead[x] \subseteq ahead[t]
      BY <2>1, AheadInLine
    <3>2. WaitsFor(x) \subseteq ahead[x] \cup Holders(x) /\ Holders(x) \subseteq Transactions \ waiting
      BY <3>1, WaitsForTransactions, DoomedHolders
    <3> QED
      BY <3>1, <3>2
  <2>2. CASE x \in Transactions \ waiting
    BY <2>2, WaitsForTransactions
  <2> QED
    BY <2>1, <2>2
<1> HIDE DEF S
<1> QED
  BY <1>1, <1>2, <1>3, <1>4 DEF Deadlocked, WaitsOn

(* A flush that waits to update a row has a share lock on it: it waits for *)
(* holders only, outside the line.                                         *)
LEMMA UpdatingFlush ==
    ASSUME StateInv, NEW t \in waiting, t \in Flushes, ~Inserting(t)
    PROVE  Before(t) = {} /\ WaitsFor(t) \subseteq Holders(t)
<1>1. t \in Transactions /\ AtLock(t) /\ status[t] = "open"
  BY DEF StateInv, TypeOK, LineInv, AtLock
<1>2. Place(t) \in DOMAIN batch[t] /\ Place(t) <= done[t]
  <2>1. Place(t) \in 1..Len(batch[t]) /\ Len(batch[t]) \in Nat /\ done[t] \in Nat
    BY <1>1, NextStatement, BatchFacts DEF StateInv
  <2>2. Place(t) <= done[t]
    BY <2>1 DEF Inserting
  <2> QED
    BY <2>1, <2>2, <1>1, BatchFacts DEF StateInv
<1>3. Holds(t, "share", NextUrl(t))
  BY <1>1, <1>2 DEF StateInv, TakenInv, NextUrl
<1>4. HoldsLock(t, NextUrl(t))
  <2> DEFINE l == [by |-> t, mode |-> "share"]
  <2>1. l \in held[NextUrl(t)] /\ l.by = t
    BY <1>3 DEF Holds
  <2> QED
    BY <2>1 DEF HoldsLock
<1> QED
  BY <1>4 DEF Before, WaitsFor

(* A deadlock is between flushes, at their updates.                        *)
LEMMA DeadlockedFlush ==
    ASSUME StateInv, NEW t \in waiting, Deadlocked(t)
    PROVE  t \in Flushes /\ ~Inserting(t)
<1>1. ~Doomed(NextUrl(t))
  BY DoomedWaiter
<1>2. t \in Flushes => ~Inserting(t)
  BY <1>1 DEF StateInv, DoomInv
<1>3. ASSUME t \notin Flushes PROVE FALSE
  <2> DEFINE D == {x \in waiting : Doomed(NextUrl(x))}
             S == ahead[t] \cup (Transactions \ waiting) \cup Flushes \cup D
  <2>1. t \in Transactions /\ t \notin S
    BY <1>1, <1>3 DEF StateInv, TypeOK, LineInv
  <2>2. S \in SUBSET Transactions
    BY AheadInLine DEF StateInv, TypeOK, Transactions
  <2>3. ASSUME NEW x \in waiting PROVE Holders(x) \subseteq S
    BY HoldersMove
  <2>4. ASSUME NEW x \in waiting, ahead[x] \subseteq S PROVE WaitsFor(x) \subseteq S
    <3>1. x \in Transactions
      BY DEF StateInv, TypeOK
    <3> QED
      BY <3>1, <2>3, <2>4, WaitsForTransactions
  <2>5. ASSUME NEW x \in S PROVE WaitsFor(x) \subseteq S
    <3>1. CASE x \notin waiting
      BY <3>1, <2>2, WaitsForTransactions
    <3>2. CASE x \in ahead[t]
      BY <3>2, <2>4, AheadInLine
    <3>3. CASE x \in D
      <4>1. \A y \in ahead[x] : y \in waiting /\ Doomed(NextUrl(y))
        BY <3>3, AheadInLine
      <4> QED
        BY <4>1, <3>3, <2>4
    <3>4. CASE x \in waiting /\ x \in Flushes /\ ~Inserting(x)
      BY <3>4, <2>3, UpdatingFlush
    <3>5. CASE x \in waiting /\ x \in Flushes /\ Inserting(x)
      BY <3>3, <3>5 DEF StateInv, DoomInv
    <3> QED
      BY <3>1, <3>2, <3>3, <3>4, <3>5
  <2>6. WaitsFor(t) \subseteq S
    BY <2>4
  <2> HIDE DEF S
  <2> QED
    BY <2>1, <2>2, <2>5, <2>6 DEF Deadlocked, WaitsOn
<1> QED
  BY <1>2, <1>3

-----------------------------------------------------------------------------
(* A deadlock means that the batches name their URLs in opposed orders.    *)

Order == {p \in Urls \X Urls : \E f \in Flushes : \E i, j \in FirstPlaces(f) :
             i < j /\ p = <<batch[f][i], batch[f][j]>>}

LEMMA OpposedByCycle ==
    OpposedBatches <=>
        \E cycle \in SUBSET Order :
            cycle # {} /\ \A p \in cycle : \E q \in cycle : q[1] = p[2]
  BY DEF OpposedBatches, Order

(* Flushes that wait for one another: x waits to update a URL that y has   *)
(* updated, before the URL y waits to update.                              *)
LEMMA FlushesInTurn ==
    ASSUME StateInv,
           NEW x \in waiting, x \in Flushes, ~Inserting(x),
           NEW y \in waiting, y \in Flushes, ~Inserting(y),
           y \in WaitsFor(x)
    PROVE  /\ NextUrl(x) \in Urls /\ NextUrl(y) \in Urls
           /\ Place(y) \in FirstPlaces(y) /\ Place(y) \in Nat
           /\ \E i \in FirstPlaces(y) : i \in Nat /\ i < Place(y) /\ batch[y][i] = NextUrl(x)
<1>1. /\ x \in Transactions /\ y \in Transactions /\ AtLock(x) /\ AtLock(y)
  BY DEF StateInv, TypeOK, LineInv
<1>2. /\ NextUrl(x) \in Urls /\ NextUrl(y) \in Urls
      /\ Place(y) \in FirstPlaces(y) /\ Len(batch[y]) + Place(y) > done[y]
  BY <1>1, NextStatement DEF StateInv
<1>3. /\ Len(batch[y]) \in Nat /\ done[y] \in Nat
      /\ FirstPlaces(y) \in SUBSET (1..Len(batch[y]))
  BY <1>1, BatchFacts DEF StateInv
<1>4. PICK k \in held[NextUrl(x)] : k.by = y /\ Conflict(k.mode, NextMode(x))
  BY UpdatingFlush DEF Holders
<1>5. NextMode(x) = "update"
  BY DEF NextMode
<1>6. k.mode = "update"
  BY <1>2, <1>4, <1>5 DEF StateInv, LockInv, Conflict
<1>7. Holds(y, "update", NextUrl(x))
  BY <1>2, <1>4, <1>6, LockRecord DEF Holds, StateInv
<1>8. PICK i \in FirstPlaces(y) : batch[y][i] = NextUrl(x) /\ Len(batch[y]) + i <= done[y]
  BY <1>2, <1>7 DEF StateInv, OrderInv
<1>9. i \in Nat /\ Place(y) \in Nat /\ i < Place(y)
  BY <1>2, <1>3, <1>8
<1> QED
  BY <1>2, <1>8, <1>9

LEMMA TwoPlaces ==
    ASSUME StateInv, NEW t \in Transactions,
           NEW i \in FirstPlaces(t), NEW j \in FirstPlaces(t), i # j
    PROVE  Cardinality(FirstPlaces(t)) > 1
<1>1. Len(batch[t]) \in Nat /\ FirstPlaces(t) \in SUBSET (1..Len(batch[t]))
  BY BatchFacts DEF StateInv
<1>2. IsFiniteSet(FirstPlaces(t))
  <2>1. IsFiniteSet(1..Len(batch[t]))
    BY <1>1, FS_Interval
  <2> QED
    BY <1>1, <2>1, FS_Subset
<1>3. IsFiniteSet({i}) /\ Cardinality({i}) = 1
  BY FS_Singleton
<1>4. Cardinality({i} \cup {j}) = 2
  BY <1>3, FS_AddElement
<1>5. {i} \cup {j} \in SUBSET FirstPlaces(t)
  OBVIOUS
<1>6. Cardinality({i} \cup {j}) <= Cardinality(FirstPlaces(t))
  BY <1>2, <1>5, FS_Subset
<1>7. Cardinality(FirstPlaces(t)) \in Nat
  BY <1>2, FS_CardinalityType
<1> QED
  BY <1>4, <1>6, <1>7

LEMMA DeadlockIsOpposition ==
    ASSUME StateInv, NEW t \in waiting, Deadlocked(t)
    PROVE  t \in Flushes /\ Cardinality(FirstPlaces(t)) > 1 /\ OpposedBatches
<1> DEFINE R == {x \in Transactions : WaitsOn(t, x) /\ WaitsOn(x, t)}
           Pairs(y) == {<<batch[y][i], NextUrl(y)>> :
                          i \in {j \in FirstPlaces(y) : j < Place(y)}}
           cycle == UNION {Pairs(y) : y \in R}
<1>1. t \in Transactions /\ t \in R /\ t \in Flushes
  BY DeadlockedFlush DEF StateInv, TypeOK, Deadlocked
<1>2. ASSUME NEW x \in R PROVE x \in waiting /\ x \in Flushes /\ ~Inserting(x)
  <2>1. Deadlocked(x)
    BY WaitsOnTransitive DEF Deadlocked
  <2>2. PICK y \in WaitsFor(x) : TRUE
    BY WaitsOnFirst
  <2>3. x \in waiting
    BY <2>2, WaitsForTransactions
  <2> QED
    BY <2>1, <2>3, DeadlockedFlush
<1>3. ASSUME NEW x \in R PROVE \E y \in R : y \in WaitsFor(x)
  <2>1. PICK y \in WaitsFor(x) : y = t \/ WaitsOn(y, t)
    BY WaitsOnFirst
  <2>2. y \in Transactions /\ WaitsOn(t, y)
    BY WaitsForTransactions, WaitsOnNext
  <2>3. y \in R
    BY <2>1, <2>2, <1>1
  <2> QED
    BY <2>3
<1>4. PICK b \in R : t \in WaitsFor(b)
  <2>1. PICK y \in Transactions : (y = t \/ WaitsOn(t, y)) /\ t \in WaitsFor(y)
    BY <1>1, WaitsOnLast DEF Deadlocked
  <2>2. WaitsOn(y, t)
    BY <2>1, WaitsOnDirectly
  <2>3. y \in R
    BY <2>1, <2>2
  <2> QED
    BY <2>1, <2>3
<1>5. Cardinality(FirstPlaces(t)) > 1
  <2>1. /\ Place(t) \in FirstPlaces(t) /\ Place(t) \in Nat
        /\ \E i \in FirstPlaces(t) : i \in Nat /\ i < Place(t)
    BY <1>1, <1>2, <1>4, FlushesInTurn
  <2>2. PICK i \in FirstPlaces(t) : i # Place(t)
    BY <2>1
  <2> QED
    BY <1>1, <2>1, <2>2, TwoPlaces
<1>6. ASSUME NEW x \in R PROVE \E p \in cycle : p[1] = NextUrl(x)
  <2>1. PICK y \in R : y \in WaitsFor(x)
    BY <1>3
  <2>2. PICK i \in FirstPlaces(y) : i < Place(y) /\ batch[y][i] = NextUrl(x)
    BY <1>2, <2>1, FlushesInTurn
  <2>3. <<batch[y][i], NextUrl(y)>> \in Pairs(y)
    BY <2>2
  <2>4. <<batch[y][i], NextUrl(y)>>[1] = NextUrl(x)
    BY <2>2
  <2> QED
    BY <2>3, <2>4
<1>7. ASSUME NEW p \in cycle PROVE p \in Order /\ \E y \in R : p[2] = NextUrl(y)
  <2>1. PICK y \in R : p \in Pairs(y)
    OBVIOUS
  <2>2. PICK i \in FirstPlaces(y) : i < Place(y) /\ p = <<batch[y][i], NextUrl(y)>>
    BY <2>1
  <2>3. y \in waiting /\ y \in Flushes /\ ~Inserting(y) /\ y \in Transactions /\ AtLock(y)
    BY <1>2 DEF StateInv, LineInv
  <2>4. Place(y) \in FirstPlaces(y) /\ NextUrl(y) \in Urls /\ batch[y][i] \in Urls
    BY <2>3, NextStatement, BatchFacts DEF StateInv
  <2>5. p \in Order
    BY <2>2, <2>3, <2>4 DEF Order, NextUrl
  <2> QED
    BY <2>2, <2>5
<1> HIDE DEF cycle, R
<1>8. cycle # {} /\ cycle \in SUBSET Order
  BY <1>1, <1>6, <1>7
<1>9. \A p \in cycle : \E q \in cycle : q[1] = p[2]
  BY <1>6, <1>7
<1> QED
  BY <1>1, <1>5, <1>8, <1>9, OpposedByCycle

-----------------------------------------------------------------------------
(* Every rollback has its reason, and keeps it.                            *)

Reason(t) ==
    \/ t \notin Deletes /\ Full(t)
    \/ t \in Flushes /\ Orphan(t)
    \/ t \in Flushes /\ Cardinality(FirstPlaces(t)) > 1 /\ OpposedBatches

(* Batches stay as they are, counters rise and URLs go.                    *)
LEMMA OneWay ==
    ASSUME StateInv, [Next]_vars
    PROVE  /\ \A t \in Transactions : batch'[t] = batch[t] \/ batch[t] = <<>>
           /\ \A t \in Transactions : status[t] # "new" => batch'[t] = batch[t]
           /\ \A u \in Urls : /\ clickCount[u] \in Nat /\ clickCount'[u] \in Nat
                              /\ clickCount[u] <= clickCount'[u]
           /\ stored' \subseteq stored
<1> USE DEF StateInv
<1>1. \A u \in Urls : clickCount[u] \in Nat
  BY DEF TypeOK
<1>2. CASE UNCHANGED vars
  BY <1>1, <1>2 DEF vars, tables
<1>3. ASSUME NEW t \in Transactions, Begin(t)
      PROVE  /\ UNCHANGED <<stored, clickCount>> /\ batch[t] = <<>> /\ status[t] = "new"
             /\ \A x \in Transactions \ {t} : batch'[x] = batch[x]
  BY <1>3 DEF Begin, tables, BatchInv, TypeOK
<1>4. ASSUME NEW t \in Transactions, Commit(t)
      PROVE  /\ UNCHANGED batch /\ stored' \subseteq stored
             /\ \A u \in Urls : clickCount'[u] \in Nat /\ clickCount[u] <= clickCount'[u]
  <2>1. UNCHANGED batch /\ stored' \subseteq stored
    BY <1>4 DEF Commit
  <2>2. \A u \in Urls : clickCount'[u] \in 0..MaxCount /\ clickCount[u] <= clickCount'[u]
    BY <1>4, CommitTables
  <2> QED
    BY <2>1, <2>2
<1>5. ASSUME NEW t \in Transactions,
             Wait(t) \/ Lock(t) \/ StatementFails(t) \/ BreakDeadlock(t)
      PROVE  UNCHANGED <<stored, clickCount, batch>>
  BY <1>5 DEF Wait, Lock, StatementFails, BreakDeadlock, RollBack, tables
<1>6. CASE Next
  <2>1. PICK t \in Transactions : Begin(t) \/ Step(t)
    BY <1>6 DEF Next
  <2>2. CASE Begin(t)
    BY <2>2, <1>1, <1>3
  <2>3. CASE Commit(t)
    BY <2>3, <1>1, <1>4
  <2>4. CASE Wait(t) \/ Lock(t) \/ StatementFails(t) \/ BreakDeadlock(t)
    BY <2>4, <1>1, <1>5
  <2> QED
    BY <2>1, <2>2, <2>3, <2>4 DEF Step
<1> QED
  BY <1>2, <1>6

LEMMA OppositionLasts ==
    ASSUME StateInv, [Next]_vars, OpposedBatches
    PROVE  OpposedBatches'
<1>1. Order \subseteq Order'
  <2> SUFFICES ASSUME NEW p \in Order PROVE p \in Order'
    OBVIOUS
  <2>1. PICK f \in Flushes : \E i, j \in FirstPlaces(f) :
          i < j /\ p = <<batch[f][i], batch[f][j]>>
    BY DEF Order
  <2>2. f \in Transactions /\ batch[f] # <<>>
    BY <2>1 DEF FirstPlaces, Transactions
  <2>3. batch'[f] = batch[f] /\ FirstPlaces(f)' = FirstPlaces(f)
    BY <2>2, OneWay, SameEvents
  <2>4. p \in Urls \X Urls
    BY DEF Order
  <2> QED
    BY <2>1, <2>3, <2>4 DEF Order
<1>2. PICK cycle \in SUBSET Order :
        cycle # {} /\ \A p \in cycle : \E q \in cycle : q[1] = p[2]
  BY OpposedByCycle
<1>3. cycle \in SUBSET (Order')
  BY <1>1
<1>4. OpposedBatches' <=>
        \E c \in SUBSET (Order') : c # {} /\ \A p \in c : \E q \in c : q[1] = p[2]
  BY DEF OpposedBatches, Order
<1> QED
  BY <1>2, <1>3, <1>4

LEMMA ReasonLasts ==
    ASSUME StateInv, [Next]_vars, NEW t \in Transactions, status[t] # "new", Reason(t)
    PROVE  Reason(t)'
<1>1. batch'[t] = batch[t] /\ FirstPlaces(t)' = FirstPlaces(t)
      /\ \A u \in Urls : Events(t, u)' = Events(t, u) /\ Events(t, u) \in Nat
  BY OneWay, SameEvents, BatchFacts DEF StateInv
<1>2. Full(t) => Full(t)'
  <2> SUFFICES ASSUME Full(t) PROVE Full(t)'
    OBVIOUS
  <2>1. PICK u \in Urls : Events(t, u) > 0 /\ clickCount[u] + Events(t, u) > MaxCount
    BY DEF Full
  <2>2. clickCount'[u] + Events(t, u) > MaxCount
    BY <2>1, <1>1, OneWay
  <2> QED
    BY <2>1, <2>2, <1>1 DEF Full
<1>3. Orphan(t) => Orphan(t)'
  BY <1>1, OneWay DEF Orphan
<1> QED
  BY <1>1, <1>2, <1>3, OppositionLasts DEF Reason

(* The statement that fails names the reason.                              *)
LEMMA FailureHasReason ==
    ASSUME StateInv, NEW t \in Transactions, StatementFails(t)
    PROVE  Reason(t)
<1> USE DEF StateInv
<1>1. AtLock(t) /\ Fails(t)
  BY DEF StatementFails, Free
<1>2. NextUrl(t) \in Urls /\ Place(t) \in DOMAIN batch[t]
  BY <1>1, NextStatement
<1>3. IsFiniteSet(1..Len(batch[t]))
  <2>1. Len(batch[t]) \in Nat
    BY BatchFacts
  <2> QED
    BY <2>1, FS_Interval
<1>4. Events(t, NextUrl(t)) > 0
  <2> DEFINE P == {i \in DOMAIN batch[t] : batch[t][i] = NextUrl(t)}
  <2>1. P \in SUBSET (1..Len(batch[t]))
    BY BatchFacts
  <2>2. IsFiniteSet(P)
    BY <1>3, <2>1, FS_Subset
  <2>3. P # {}
    BY <1>2 DEF NextUrl
  <2>4. Cardinality(P) # 0
    BY <2>2, <2>3, FS_EmptySet
  <2>5. Events(t, NextUrl(t)) # 0 /\ Events(t, NextUrl(t)) \in Nat
    BY <2>4, <1>2, BatchFacts DEF Events
  <2> QED
    BY <2>5
<1>5. CASE NextMode(t) = "share" /\ NextUrl(t) \notin stored
  <2>1. t \in Flushes
    BY <1>1, <1>5, NextStatement
  <2> QED
    BY <2>1, <1>2, <1>4, <1>5 DEF Reason, Orphan
<1>6. CASE NextMode(t) = "update" /\ Overflows(t)
  <2>1. t \notin Deletes
    BY <1>1, <1>6, NextStatement
  <2> QED
    BY <2>1, <1>2, <1>4, <1>6 DEF Reason, Full, Overflows
<1> QED
  BY <1>1, <1>5, <1>6 DEF Fails

LEMMA ReasonStep ==
    ASSUME StateInv, RollbackExplained, [Next]_vars
    PROVE  RollbackExplained'
<1> SUFFICES ASSUME NEW t \in Transactions, status'[t] = "rolled_back"
             PROVE  Reason(t)'
  BY DEF RollbackExplained, Reason
<1>1. CASE status[t] = "rolled_back"
  <2>1. Reason(t)
    BY <1>1 DEF RollbackExplained, Reason
  <2> QED
    BY <2>1, <1>1, ReasonLasts
<1>2. CASE status[t] # "rolled_back"
  <2>1. status' # status
    BY <1>2
  <2>2. PICK x \in Transactions : Begin(x) \/ Step(x)
    BY <2>1 DEF Next, vars
  <2>3. StatementFails(t) \/ BreakDeadlock(t)
    BY <2>2, <1>2 DEF Begin, Step, Wait, Lock, Commit, StatementFails, BreakDeadlock, RollBack,
                      StateInv, TypeOK
  <2>4. status[t] # "new"
    BY <2>3 DEF StatementFails, BreakDeadlock, Free, AtLock, StateInv, LineInv
  <2>5. Reason(t)
    BY <2>3, FailureHasReason, DeadlockIsOpposition DEF BreakDeadlock, Reason
  <2> QED
    BY <2>4, <2>5, ReasonLasts
<1> QED
  BY <1>1, <1>2

(* A redirect or a delete is never the victim of a deadlock, and a worker  *)
(* whose batch names its URLs in an order that no other flush opposes is   *)
(* not either: a rollback always means a full counter, a URL that is gone, *)
(* or opposed batches (the ORDER of code_counts in                         *)
(* AnalyticsWorker._flush_batch).                                          *)
THEOREM RollbacksHaveReasons == Spec => []RollbackExplained
<1>1. Init => RollbackExplained
  BY DEF Init, RollbackExplained
<1>2. StateInv /\ RollbackExplained /\ [Next]_vars => RollbackExplained'
  BY ReasonStep
<1> QED
  BY <1>1, <1>2, StateInvariant, PTL DEF Spec

-----------------------------------------------------------------------------
(* Nobody is stuck.                                                        *)

(* The guards of Step: t commits, carries out its next statement, which    *)
(* succeeds or fails, joins a line, or is rolled back.                     *)
CanMove(t) ==
    \/ status[t] = "open" /\ ~AtLock(t)
    \/ Free(t)
    \/ AtLock(t) /\ t \notin waiting /\ Holders(t) # {}
    \/ t \in waiting /\ Deadlocked(t)

(* Behind every open transaction, at the head of its lines and at the      *)
(* holders of the locks in its way, is one that can move: PostgreSQL never *)
(* leaves a line standing that no deadlock explains.                       *)
SomebodyMoves ==
    \A t \in Transactions : status[t] = "open" =>
        \E x \in Transactions : (x = t \/ WaitsOn(t, x)) /\ CanMove(x)

(* However many transactions there may be, those in line are finitely many.*)
LEMMA FiniteLine == Spec => []IsFiniteSet(waiting)
<1>1. Init => IsFiniteSet(waiting)
  BY FS_EmptySet DEF Init
<1>2. IsFiniteSet(waiting) /\ [Next]_vars => IsFiniteSet(waiting)'
  <2> SUFFICES ASSUME IsFiniteSet(waiting), [Next]_vars PROVE IsFiniteSet(waiting')
    OBVIOUS
  <2>1. CASE UNCHANGED vars
    BY <2>1 DEF vars, locks
  <2>2. ASSUME NEW t \in Transactions, Begin(t) \/ Step(t) PROVE IsFiniteSet(waiting')
    <3>1. CASE Begin(t)
      BY <3>1 DEF Begin, locks
    <3>2. CASE Wait(t)
      BY <3>2, FS_AddElement DEF Wait
    <3>3. CASE Lock(t) \/ StatementFails(t) \/ Commit(t) \/ BreakDeadlock(t)
      <4>1. waiting' \subseteq waiting
        BY <3>3 DEF Lock, StatementFails, Commit, BreakDeadlock, RollBack, ReleaseLocks, LeaveLine
      <4> QED
        BY <4>1, FS_Subset
    <3> QED
      BY <2>2, <3>1, <3>2, <3>3 DEF Step
  <2> QED
    BY <2>1, <2>2 DEF Next
<1> QED
  BY <1>1, <1>2, PTL DEF Spec

(* Who cannot move is in line behind somebody who is open as well.         *)
LEMMA WhoCannotMove ==
    ASSUME StateInv, NEW t \in Transactions, status[t] = "open", ~CanMove(t)
    PROVE  /\ t \in waiting /\ ~WaitsOn(t, t)
           /\ \E y \in WaitsFor(t) : y \in Transactions /\ status[y] = "open"
<1>1. AtLock(t)
  BY DEF CanMove
<1>2. t \in waiting
  BY <1>1 DEF CanMove, Free
<1>3. Before(t) # {} \/ Holders(t) # {}
  BY <1>1 DEF CanMove, Free
<1>4. WaitsFor(t) # {}
  BY <1>2, <1>3 DEF WaitsFor
<1>5. ASSUME NEW y \in WaitsFor(t) PROVE y \in Transactions /\ status[y] = "open"
  <2>1. y \in Transactions
    BY WaitsForTransactions
  <2>2. CASE y \in ahead[t]
    BY <1>2, <2>2, AheadInLine DEF StateInv, LineInv, AtLock
  <2>3. CASE y \notin ahead[t]
    <3>1. y \in Holders(t)
      BY <2>3, WaitsForTransactions
    <3>2. NextUrl(t) \in Urls
      BY <1>1, NextStatement DEF StateInv
    <3>3. PICK l \in held[NextUrl(t)] : l.by = y
      BY <3>1 DEF Holders
    <3>4. \A u \in Urls : \A k \in held[u] : status[k.by] = "open"
      BY DEF StateInv, LockInv
    <3> QED
      BY <2>1, <3>2, <3>3, <3>4
  <2> QED
    BY <2>1, <2>2, <2>3
<1> QED
  BY <1>2, <1>4, <1>5 DEF CanMove, Deadlocked

(* Of the transactions in a chain of waits, the one that waits on the      *)
(* fewest can move: else whom it waits for would wait on fewer still, or   *)
(* on itself.                                                              *)
LEMMA SomebodyCanMove ==
    ASSUME StateInv, IsFiniteSet(waiting), NEW t \in Transactions, status[t] = "open"
    PROVE  \E x \in Transactions : (x = t \/ WaitsOn(t, x)) /\ CanMove(x)
<1> SUFFICES ASSUME \A x \in Transactions : x = t \/ WaitsOn(t, x) => ~CanMove(x)
             PROVE  FALSE
  OBVIOUS
<1> DEFINE Chain == {x \in Transactions : (x = t \/ WaitsOn(t, x)) /\ status[x] = "open"}
           Beyond(x) == {y \in Chain : WaitsOn(x, y)}
<1>1. \A x \in Chain : x \in waiting /\ ~WaitsOn(x, x) /\ \E y \in WaitsFor(x) : y \in Chain
  <2> SUFFICES ASSUME NEW x \in Chain
               PROVE  x \in waiting /\ ~WaitsOn(x, x) /\ \E y \in WaitsFor(x) : y \in Chain
    OBVIOUS
  <2>1. /\ x \in Transactions /\ x \in waiting /\ ~WaitsOn(x, x)
        /\ \E y \in WaitsFor(x) : y \in Transactions /\ status[y] = "open"
    BY WhoCannotMove
  <2>2. PICK y \in WaitsFor(x) : y \in Transactions /\ status[y] = "open"
    BY <2>1
  <2>3. WaitsOn(t, y)
    BY <2>2, WaitsOnDirectly, WaitsOnNext
  <2> QED
    BY <2>1, <2>2, <2>3
<1>2. IsFiniteSet(Chain)
  <2>1. Chain \subseteq waiting
    BY <1>1
  <2> QED
    BY <2>1, FS_Subset
<1>3. t \in Chain
  OBVIOUS
<1> HIDE DEF Chain
<1>4. \A x \in Chain : IsFiniteSet(Beyond(x)) /\ Cardinality(Beyond(x)) \in Nat
  <2>1. \A x \in Chain : Beyond(x) \subseteq Chain
    OBVIOUS
  <2> QED
    BY <1>2, <2>1, FS_Subset, FS_CardinalityType
<1> DEFINE sizes == {Cardinality(Beyond(x)) : x \in Chain}
<1>5. sizes \in SUBSET Nat /\ sizes # {}
  BY <1>3, <1>4
<1>6. PICK m \in sizes : \A n \in sizes : m <= n
  BY <1>5, FirstOfPlaces
<1>7. PICK x \in Chain : m = Cardinality(Beyond(x))
  OBVIOUS
<1>8. PICK y \in WaitsFor(x) : y \in Chain
  BY <1>1
<1>9. Beyond(y) \subseteq Beyond(x) /\ y \in Beyond(x) /\ y \notin Beyond(y)
  <2>1. WaitsOn(x, y)
    BY WaitsOnDirectly
  <2>2. \A z : WaitsOn(y, z) => WaitsOn(x, z)
    BY <2>1, WaitsOnTransitive
  <2> QED
    BY <1>1, <1>8, <2>1, <2>2
<1>10. Cardinality(Beyond(y)) < Cardinality(Beyond(x))
  <2>1. IsFiniteSet(Beyond(x)) /\ IsFiniteSet(Beyond(y))
    BY <1>4, <1>8
  <2>2. Cardinality(Beyond(y) \cup {y}) = Cardinality(Beyond(y)) + 1
        /\ IsFiniteSet(Beyond(y) \cup {y})
    BY <1>9, <2>1, FS_AddElement
  <2>3. Beyond(y) \cup {y} \subseteq Beyond(x)
    BY <1>9
  <2> HIDE DEF Beyond
  <2>4. Cardinality(Beyond(y) \cup {y}) <= Cardinality(Beyond(x))
    BY <2>1, <2>3, FS_Subset
  <2> QED
    BY <2>2, <2>4, <1>4, <1>7, <1>8
<1>11. Cardinality(Beyond(y)) \in sizes
  BY <1>8
<1> HIDE DEF sizes, Beyond
<1>12. Cardinality(Beyond(x)) <= Cardinality(Beyond(y))
  BY <1>6, <1>7, <1>11
<1> QED
  BY <1>4, <1>7, <1>8, <1>10, <1>12

(* The safety half of EveryTransactionEnds: whatever transactions lock and *)
(* wait for, an open one can move itself or waits on one that can.         *)
THEOREM NobodyIsStuck == Spec => []SomebodyMoves
<1>1. StateInv /\ IsFiniteSet(waiting) => SomebodyMoves
  BY SomebodyCanMove DEF SomebodyMoves
<1> QED
  BY <1>1, StateInvariant, FiniteLine, PTL

=============================================================================

------------------------- MODULE RateLimiterProofs -------------------------
(***************************************************************************)
(* What holds of RateLimiter for every limit, window and number of         *)
(* requests, with concurrent evaluations and failing round trips.          *)
(***************************************************************************)
EXTENDS RateLimiter, FiniteSetTheorems, TLAPS

USE LimiterAssumption

-----------------------------------------------------------------------------
(* Every action keeps the types of the log, the clock and the requests.    *)
LEMMA TypeStep == TypeOK /\ [Next]_vars => TypeOK'
<1> SUFFICES ASSUME TypeOK, [Next]_vars PROVE TypeOK'
  OBVIOUS
<1> USE DEF TypeOK
<1>1. ASSUME NEW r \in Requests, Start(r) PROVE TypeOK'
  BY <1>1 DEF Start
<1>2. ASSUME NEW r \in Requests, Check(r) PROVE TypeOK'
  BY <1>2 DEF Check, InWindow, Decide
<1>3. ASSUME NEW r \in Requests, Record(r) PROVE TypeOK'
  BY <1>3 DEF Record, AddToLog, Decide
<1>4. ASSUME NEW r \in Requests, FailOpen(r) PROVE TypeOK'
  BY <1>4 DEF FailOpen, AddToLog, InWindow, Decide
<1>5. CASE Tick \/ UNCHANGED vars
  BY <1>5 DEF Tick, vars
<1> QED
  BY <1>1, <1>2, <1>3, <1>4, <1>5 DEF Next

(* The log, the clock and the requests keep their types.                   *)
THEOREM TypeCorrect == Spec => []TypeOK
<1>1. Init => TypeOK
  BY DEF Init, TypeOK
<1> QED
  BY <1>1, TypeStep, PTL DEF Spec

(* A key with entries has not expired, and has at most the window and a    *)
(* second left to live.                                                    *)
KeyLives ==
    /\ log # {} => clock < expireAt
    /\ expireAt <= clock + Window + 1

(* A client that sends nothing is forgotten: a window and a second after   *)
(* the last request that was recorded, Redis has dropped the whole log.    *)
THEOREM KeysExpire == Spec => []KeyLives
<1>1. Init => KeyLives
  BY DEF Init, KeyLives
<1>2. TypeOK /\ KeyLives /\ [Next]_vars => KeyLives'
  <2> SUFFICES ASSUME TypeOK, KeyLives, [Next]_vars PROVE KeyLives'
    OBVIOUS
  <2> USE DEF TypeOK, KeyLives
  <2>1. ASSUME NEW r \in Requests, Start(r) PROVE KeyLives'
    BY <2>1 DEF Start
  <2>2. ASSUME NEW r \in Requests, Check(r) PROVE KeyLives'
    BY <2>2 DEF Check, InWindow
  <2>3. ASSUME NEW r \in Requests, Record(r) PROVE KeyLives'
    BY <2>3 DEF Record, AddToLog
  <2>4. ASSUME NEW r \in Requests, FailOpen(r) PROVE KeyLives'
    BY <2>4 DEF FailOpen, AddToLog, InWindow
  <2>5. CASE Tick \/ UNCHANGED vars
    BY <2>5 DEF Tick, vars
  <2> QED
    BY <2>1, <2>2, <2>3, <2>4, <2>5 DEF Next
<1> QED
  BY <1>1, <1>2, TypeCorrect, PTL DEF Spec

-----------------------------------------------------------------------------
(* Requests that passed the check and have not been recorded yet.          *)
Passed == {r \in Requests : pc[r] = "record"}

(* Each of them may still add to the log, and there are at most as many as *)
(* evaluations under way.                                                  *)
RoomInv ==
    /\ Cardinality(Pending) <= MaxInFlight
    /\ Cardinality(log) + Cardinality(Passed) <= Limit - 1 + MaxInFlight

(* Sets of requests are finite, and their cardinality is monotonic.        *)
LEMMA RequestSets ==
    ASSUME NEW S \in SUBSET Requests, NEW T \in SUBSET S
    PROVE  /\ Cardinality(S) \in Nat /\ Cardinality(T) \in Nat
           /\ Cardinality(T) <= Cardinality(S)
  BY FS_Subset, FS_CardinalityType

(* Adding or removing one request changes the cardinality by at most one.  *)
LEMMA OneRequest ==
    ASSUME NEW S \in SUBSET Requests, NEW r \in Requests
    PROVE  /\ Cardinality(S \cup {r}) <= Cardinality(S) + 1
           /\ r \in S => Cardinality(S \ {r}) = Cardinality(S) - 1
  BY FS_Subset, FS_AddElement, FS_RemoveElement, FS_CardinalityType

(* No step lets the log and the requests about to enter it grow beyond the *)
(* bound: a check that passes has just seen fewer than Limit entries.      *)
LEMMA RoomStep == TypeOK /\ RoomInv /\ [Next]_vars => RoomInv'
<1> SUFFICES ASSUME TypeOK, RoomInv, [Next]_vars PROVE RoomInv'
  OBVIOUS
<1>0. /\ Pending \subseteq Requests /\ Passed \subseteq Pending /\ log \subseteq Requests
      /\ Cardinality(Pending) \in Nat /\ Cardinality(Passed) \in Nat /\ Cardinality(log) \in Nat
  BY RequestSets DEF Pending, Passed, TypeOK
<1>1. ASSUME NEW r \in Requests, Start(r) PROVE RoomInv'
  <2>1. Passed' = Passed /\ Pending' = Pending \cup {r} /\ log' = log
    BY <1>1 DEF Start, Passed, Pending, TypeOK
  <2>2. Cardinality(Pending) + 1 <= MaxInFlight
    BY <1>0, <1>1 DEF Start
  <2> QED
    BY <1>0, <2>1, <2>2, OneRequest, RequestSets DEF RoomInv
<1>2. ASSUME NEW r \in Requests, Check(r) PROVE RoomInv'
  <2>1. /\ InWindow(r) \subseteq log /\ log' = InWindow(r)
        /\ Cardinality(log') \in Nat /\ Cardinality(log') <= Cardinality(log)
    BY <1>0, <1>2, RequestSets DEF Check, InWindow
  <2>2. CASE Cardinality(InWindow(r)) < Limit
    <3>1. Pending' = Pending /\ Passed' \subseteq Pending
      BY <1>2, <2>2 DEF Check, Pending, Passed, TypeOK
    <3>2. Cardinality(Passed') \in Nat /\ Cardinality(Passed') <= Cardinality(Pending)
      BY <1>0, <3>1, RequestSets
    <3> QED
      BY <1>0, <2>1, <2>2, <3>1, <3>2 DEF RoomInv
  <2>3. CASE ~(Cardinality(InWindow(r)) < Limit)
    <3>1. Pending' \subseteq Pending /\ Passed' \subseteq Passed
      BY <1>2, <2>3 DEF Check, Decide, Pending, Passed, TypeOK
    <3>2. /\ Cardinality(Pending') \in Nat /\ Cardinality(Pending') <= Cardinality(Pending)
          /\ Cardinality(Passed') \in Nat /\ Cardinality(Passed') <= Cardinality(Passed)
      BY <1>0, <3>1, RequestSets
    <3> QED
      BY <1>0, <2>1, <3>2 DEF RoomInv
  <2> QED
    BY <2>2, <2>3
<1>3. ASSUME NEW r \in Requests, Record(r) \/ FailOpen(r) PROVE RoomInv'
  <2>1. Pending' \subseteq Pending /\ Passed' = Passed \ {r}
    BY <1>3 DEF Record, FailOpen, Decide, Pending, Passed, TypeOK
  <2>2. /\ Cardinality(Pending') \in Nat /\ Cardinality(Pending') <= Cardinality(Pending)
        /\ Cardinality(Passed') \in Nat /\ Cardinality(Passed') <= Cardinality(Passed)
    BY <1>0, <2>1, RequestSets
  <2>3. CASE log' = log \cup {r} /\ r \in Passed
    <3>1. Cardinality(log') \in Nat /\ Cardinality(log') <= Cardinality(log) + 1
      BY <1>0, <2>3, OneRequest, RequestSets
    <3>2. Cardinality(Passed') = Cardinality(Passed) - 1
      BY <1>0, <2>1, <2>3, OneRequest
    <3> QED
      BY <1>0, <2>2, <3>1, <3>2 DEF RoomInv
  <2>4. CASE log' \subseteq log
    <3>1. Cardinality(log') \in Nat /\ Cardinality(log') <= Cardinality(log)
      BY <1>0, <2>4, RequestSets
    <3> QED
      BY <1>0, <2>2, <3>1 DEF RoomInv
  <2>5. \/ log' = log \cup {r} /\ r \in Passed
        \/ log' \subseteq log
    BY <1>3 DEF Record, FailOpen, AddToLog, InWindow, Passed
  <2> QED
    BY <2>3, <2>4, <2>5
<1>4. CASE Tick \/ UNCHANGED vars
  <2>1. log' \subseteq log /\ Pending' = Pending /\ Passed' = Passed
    BY <1>4 DEF Tick, vars, Pending, Passed
  <2>2. Cardinality(log') \in Nat /\ Cardinality(log') <= Cardinality(log)
    BY <1>0, <2>1, RequestSets
  <2> QED
    BY <1>0, <2>1, <2>2 DEF RoomInv
<1> QED
  BY <1>1, <1>2, <1>3, <1>4 DEF Next

(* However many evaluations run at once, the log of a client stays below   *)
(* its limit plus their number.                                            *)
THEOREM LogStaysBounded == Spec => []LogBounded
<1>1. Init => RoomInv
  <2> SUFFICES ASSUME Init PROVE RoomInv
    OBVIOUS
  <2>1. Pending = {} /\ Passed = {} /\ log = {}
    BY DEF Init, Pending, Passed
  <2> QED
    BY <2>1, FS_EmptySet DEF RoomInv
<1>2. TypeOK /\ RoomInv => LogBounded
  <2> SUFFICES ASSUME TypeOK, RoomInv PROVE LogBounded
    OBVIOUS
  <2>1. Cardinality(log) \in Nat /\ Cardinality(Passed) \in Nat
    BY RequestSets DEF TypeOK, Passed
  <2> QED
    BY <2>1 DEF RoomInv, LogBounded
<1> QED
  BY <1>1, <1>2, RoomStep, TypeCorrect, PTL DEF Spec

-----------------------------------------------------------------------------
(* What has been recorded of a client, seen from the request r.            *)
RecordedInWindow(r) == {q \in recorded : now[q] + Window > now[r]}

(* A request that is recorded or decided is done, and the log holds only   *)
(* recorded requests.                                                      *)
RecordedInv ==
    /\ log \subseteq recorded
    /\ \A r \in Requests : r \in recorded \/ decision[r] # "none" => pc[r] = "done"

(* The log never holds a request that was not recorded.                    *)
LEMMA RecordedStep == TypeOK /\ RecordedInv /\ [Next]_vars => RecordedInv'
<1> SUFFICES ASSUME TypeOK, RecordedInv, [Next]_vars PROVE RecordedInv'
  OBVIOUS
<1> USE DEF TypeOK, RecordedInv
<1>1. ASSUME NEW r \in Requests, Start(r) PROVE RecordedInv'
  BY <1>1 DEF Start
<1>2. ASSUME NEW r \in Requests, Check(r) PROVE RecordedInv'
  BY <1>2 DEF Check, InWindow, Decide
<1>3. ASSUME NEW r \in Requests, Record(r) PROVE RecordedInv'
  BY <1>3 DEF Record, AddToLog, Decide
<1>4. ASSUME NEW r \in Requests, FailOpen(r) PROVE RecordedInv'
  BY <1>4 DEF FailOpen, AddToLog, InWindow, Decide
<1>5. CASE Tick \/ UNCHANGED vars
  BY <1>5 DEF Tick, vars
<1> QED
  BY <1>1, <1>2, <1>3, <1>4, <1>5 DEF Next

(* What justified a rejection goes on justifying it, and a new rejection   *)
(* has counted Limit entries of the log itself.                            *)
LEMMA JustifiedStep ==
    TypeOK /\ RecordedInv /\ RejectionJustified /\ [Next]_vars => RejectionJustified'
<1> SUFFICES ASSUME TypeOK, RecordedInv, RejectionJustified, [Next]_vars,
                    NEW q \in Requests, decision'[q] = "rejected"
             PROVE  Cardinality(RecordedInWindow(q)') >= Limit
  BY DEF RejectionJustified, RecordedInWindow
<1>1. /\ recorded \subseteq recorded' /\ recorded' \subseteq Requests
      /\ \A r \in recorded : now'[r] = now[r]
  BY DEF Next, Start, Check, Record, FailOpen, AddToLog, Tick, vars, TypeOK, RecordedInv
<1>2. CASE decision[q] = "rejected"
  <2>1. pc[q] = "done" /\ now'[q] = now[q]
    BY <1>2 DEF Next, Start, Check, Record, FailOpen, Tick, vars, TypeOK, RecordedInv
  <2>2. RecordedInWindow(q) \subseteq RecordedInWindow(q)' /\ RecordedInWindow(q)' \in SUBSET Requests
    BY <1>1, <2>1 DEF RecordedInWindow
  <2>3. Cardinality(RecordedInWindow(q)) >= Limit
    BY <1>2 DEF RejectionJustified, RecordedInWindow
  <2> QED
    BY <2>2, <2>3, RequestSets
<1>3. CASE decision[q] # "rejected"
  <2>1. Check(q) /\ Cardinality(InWindow(q)) >= Limit
    <3>1. Check(q) /\ ~(Cardinality(InWindow(q)) < Limit)
      BY <1>3 DEF Next, Start, Check, Record, FailOpen, Tick, vars, Decide, TypeOK
    <3>2. Cardinality(InWindow(q)) \in Nat
      BY RequestSets DEF InWindow, TypeOK
    <3> QED
      BY <3>1, <3>2
  <2>2. InWindow(q) \subseteq RecordedInWindow(q)' /\ RecordedInWindow(q)' \in SUBSET Requests
    BY <1>1, <2>1 DEF InWindow, RecordedInWindow, RecordedInv, Check
  <2> QED
    BY <2>1, <2>2, RequestSets
<1> QED
  BY <1>2, <1>3

(* A client is only rejected after Limit recorded requests in the window,  *)
(* whatever fails and whatever runs concurrently.                          *)
THEOREM RejectionsAreJustified == Spec => []RejectionJustified
<1>1. Init => RecordedInv /\ RejectionJustified
  BY DEF Init, RecordedInv, RejectionJustified
<1> QED
  BY <1>1, RecordedStep, JustifiedStep, TypeCorrect, PTL DEF Spec

-----------------------------------------------------------------------------
(* The requests of the window from t that may still be added to it: those  *)
(* that passed the check, and all that are being evaluated.                *)
PassedFrom(t) == {r \in Passed : now[r] \in t..(t + Window - 1)}

PendingFrom(t) == {r \in Pending : now[r] \in t..(t + Window - 1)}

(* As long as the log holds every allowed request of the window from t, a  *)
(* check of the window counts them.                                        *)
Intact(t) ==
    /\ AllowedFrom(t) \subseteq log
    /\ Cardinality(AllowedFrom(t)) + Cardinality(PassedFrom(t)) <= Limit - 1 + MaxInFlight

(* Once a later request purged the log, or the key expired, the window is  *)
(* over, and only the evaluations still under way can add to it.           *)
Broken(t) ==
    /\ clock >= t + Window
    /\ Cardinality(AllowedFrom(t)) + Cardinality(PendingFrom(t)) <= Limit + Overrun

(* The clock readings are behind the clock, but by no more than            *)
(* MaxLatency while the request is evaluated, and the key lives a second   *)
(* longer than every entry of the log.                                     *)
ClockInv ==
    /\ \A r \in Requests : now[r] <= clock
    /\ \A r \in Pending : clock <= now[r] + MaxLatency
    /\ \A r \in log : now[r] + Window + 1 <= expireAt
    /\ \A r \in Requests : decision[r] # "none" => pc[r] = "done"

WindowInv == \A t \in Nat : Intact(t) \/ Broken(t)

(* Clock readings grow old while their requests are evaluated, and the key *)
(* never expires before the entries it holds leave the window.             *)
LEMMA ClockStep == TypeOK /\ RecordedInv /\ ClockInv /\ [Next]_vars => ClockInv'
<1> SUFFICES ASSUME TypeOK, RecordedInv, ClockInv, [Next]_vars PROVE ClockInv'
  OBVIOUS
<1> USE DEF TypeOK, RecordedInv, ClockInv, Pending
<1>1. ASSUME NEW r \in Requests, Start(r) PROVE ClockInv'
  BY <1>1 DEF Start
<1>2. ASSUME NEW r \in Requests, Check(r) PROVE ClockInv'
  BY <1>2 DEF Check, InWindow, Decide
<1>3. ASSUME NEW r \in Requests, Record(r) PROVE ClockInv'
  BY <1>3 DEF Record, AddToLog, Decide
<1>4. ASSUME NEW r \in Requests, FailOpen(r) PROVE ClockInv'
  BY <1>4 DEF FailOpen, AddToLog, InWindow, Decide
<1>5. CASE Tick
  BY <1>5 DEF Tick
<1>6. CASE UNCHANGED vars
  BY <1>6 DEF vars
<1> QED
  BY <1>1, <1>2, <1>3, <1>4, <1>5, <1>6 DEF Next

(* The sets of one window, and what their cardinalities can be.            *)
LEMMA WindowSets ==
    ASSUME TypeOK, RoomInv, NEW t \in Nat
    PROVE  /\ AllowedFrom(t) \in SUBSET Requests /\ Cardinality(AllowedFrom(t)) \in Nat
           /\ PassedFrom(t) \in SUBSET PendingFrom(t) /\ Cardinality(PassedFrom(t)) \in Nat
           /\ PendingFrom(t) \in SUBSET Pending /\ Cardinality(PendingFrom(t)) \in Nat
           /\ Cardinality(PendingFrom(t)) <= MaxInFlight
           /\ Overrun \in Nat /\ Overrun >= 2 * MaxInFlight - 2
           /\ MaxLatency > 1 => Overrun >= 2 * MaxInFlight - 1
<1>1. /\ AllowedFrom(t) \in SUBSET Requests
      /\ PassedFrom(t) \in SUBSET PendingFrom(t)
      /\ PendingFrom(t) \in SUBSET Pending
      /\ Pending \in SUBSET Requests
  BY DEF AllowedFrom, PassedFrom, PendingFrom, Passed, Pending
<1>2. /\ Cardinality(PendingFrom(t)) <= Cardinality(Pending)
      /\ Cardinality(Pending) \in Nat /\ Cardinality(AllowedFrom(t)) \in Nat
      /\ Cardinality(PassedFrom(t)) \in Nat /\ Cardinality(PendingFrom(t)) \in Nat
  BY <1>1, RequestSets
<1> QED
  BY <1>1, <1>2 DEF RoomInv, Overrun

(* A request that purges the log keeps what it finds in its own window, so *)
(* that a window it belongs to, or comes before, stays intact; a window    *)
(* that is over when it came in is left with the other evaluations.        *)
LEMMA PurgeStep ==
    ASSUME TypeOK, RoomInv, ClockInv, NEW t \in Nat, Intact(t),
           NEW r \in Pending, log' = InWindow(r), clock' = clock,
           AllowedFrom(t)' = AllowedFrom(t), PendingFrom(t)' \in SUBSET PendingFrom(t)
    PROVE  AllowedFrom(t) \subseteq log' \/ Broken(t)'
<1>1. CASE now[r] < t + Window
  BY <1>1 DEF Intact, AllowedFrom, InWindow, TypeOK, Pending
<1>2. CASE ~(now[r] < t + Window)
  <2>1. clock >= t + Window /\ r \notin PendingFrom(t)
    BY <1>2 DEF ClockInv, PendingFrom, Pending, TypeOK
  <2>2. Cardinality(PendingFrom(t)) + 1 <= MaxInFlight
    <3>1. /\ Pending \in SUBSET Requests /\ r \in Requests
          /\ PendingFrom(t) \in SUBSET (Pending \ {r})
      BY <2>1 DEF Pending, PendingFrom
    <3>2. Cardinality(PendingFrom(t)) <= Cardinality(Pending \ {r})
      BY <3>1, RequestSets
    <3>3. Cardinality(Pending \ {r}) = Cardinality(Pending) - 1 /\ Cardinality(Pending) \in Nat
      BY <3>1, OneRequest, RequestSets
    <3> QED
      BY <3>2, <3>3, WindowSets DEF RoomInv
  <2>3. Cardinality(PendingFrom(t)') <= Cardinality(PendingFrom(t))
        /\ Cardinality(PendingFrom(t)') \in Nat
    BY WindowSets, RequestSets, PendingFrom(t) \in SUBSET Requests DEF Pending, PendingFrom
  <2> QED
    BY <2>1, <2>2, <2>3, WindowSets DEF Intact, Broken
<1> QED
  BY <1>1, <1>2

(* The key expires: the window of every entry it held is over by then, and *)
(* if no evaluation takes longer than a second none of it is under way.    *)
LEMMA ExpiryStep ==
    ASSUME TypeOK, RoomInv, ClockInv, NEW t \in Nat, Intact(t), Tick, clock' >= expireAt,
           AllowedFrom(t) # {}
    PROVE  Broken(t)'
<1>1. PICK a \in AllowedFrom(t) : TRUE
  OBVIOUS
<1>2. clock' >= t + Window + 1 /\ clock' \in Nat
  BY <1>1 DEF Intact, AllowedFrom, ClockInv, TypeOK, Tick
<1>3. AllowedFrom(t)' = AllowedFrom(t) /\ PendingFrom(t)' = PendingFrom(t)
  BY DEF Tick, AllowedFrom, PendingFrom, Pending
<1>4. MaxLatency > 1 \/ PendingFrom(t) = {}
  BY <1>2 DEF Tick, PendingFrom, Pending, TypeOK
<1>5. /\ Cardinality(AllowedFrom(t)) \in Nat /\ Cardinality(PassedFrom(t)) \in Nat
      /\ Cardinality(PendingFrom(t)) \in Nat /\ Cardinality(PendingFrom(t)) <= MaxInFlight
      /\ Overrun \in Nat /\ Overrun >= 2 * MaxInFlight - 2
      /\ MaxLatency > 1 => Overrun >= 2 * MaxInFlight - 1
  BY WindowSets
<1>6. Cardinality(AllowedFrom(t)) + Cardinality(PendingFrom(t)) <= Limit + Overrun
  <2>1. Cardinality(AllowedFrom(t)) + Cardinality(PassedFrom(t)) <= Limit - 1 + MaxInFlight
    BY DEF Intact
  <2>2. CASE PendingFrom(t) = {}
    <3>1. Cardinality(PendingFrom(t)) = 0
      BY <2>2, FS_EmptySet
    <3> QED
      BY <1>5, <2>1, <3>1
  <2>3. CASE MaxLatency > 1
    BY <1>5, <2>1, <2>3
  <2> QED
    BY <1>4, <2>2, <2>3
<1> QED
  BY <1>2, <1>3, <1>6 DEF Broken

(* A window is intact until it is over, and no step adds more to it than   *)
(* its bound allows.                                                       *)
LEMMA WindowStep ==
    TypeOK /\ RoomInv /\ RecordedInv /\ ClockInv /\ WindowInv /\ [Next]_vars => WindowInv'
<1> SUFFICES ASSUME TypeOK, RoomInv, RecordedInv, ClockInv, WindowInv, [Next]_vars,
                    NEW t \in Nat
             PROVE  Intact(t)' \/ Broken(t)'
  BY DEF WindowInv
<1>0. Intact(t) \/ Broken(t)
  BY DEF WindowInv
<1>a. /\ AllowedFrom(t) \in SUBSET Requests /\ PassedFrom(t) \in SUBSET Requests
      /\ PendingFrom(t) \in SUBSET Requests /\ Pending \in SUBSET Requests
  BY WindowSets DEF Pending, PendingFrom, PassedFrom, Passed
<1>1. ASSUME NEW r \in Requests, Start(r) PROVE Intact(t)' \/ Broken(t)'
  <2>1. AllowedFrom(t)' = AllowedFrom(t) /\ PassedFrom(t)' = PassedFrom(t)
    BY <1>1 DEF Start, AllowedFrom, PassedFrom, Passed, TypeOK, ClockInv
  <2>2. clock >= t + Window => PendingFrom(t)' = PendingFrom(t)
    BY <1>1 DEF Start, PendingFrom, Pending, TypeOK
  <2> QED
    BY <1>0, <1>1, <2>1, <2>2 DEF Intact, Broken, Start
<1>2. ASSUME NEW r \in Requests, Check(r) PROVE Intact(t)' \/ Broken(t)'
  <2>1. /\ AllowedFrom(t)' = AllowedFrom(t) /\ PendingFrom(t)' \in SUBSET PendingFrom(t)
        /\ r \in Pending /\ log' = InWindow(r) /\ clock' = clock
    BY <1>2 DEF Check, Decide, AllowedFrom, PendingFrom, Pending, TypeOK, ClockInv
  <2>2. /\ Cardinality(PendingFrom(t)') <= Cardinality(PendingFrom(t))
        /\ Cardinality(PendingFrom(t)') \in Nat
    BY <1>a, <2>1, RequestSets
  <2>3. CASE Broken(t)
    BY <2>1, <2>2, <2>3, WindowSets DEF Broken
  <2>4. CASE Intact(t) /\ AllowedFrom(t) \subseteq log'
    <3>1. CASE Cardinality(InWindow(r)) < Limit
      <4>1. Cardinality(AllowedFrom(t)) <= Cardinality(InWindow(r))
            /\ Cardinality(InWindow(r)) \in Nat
        BY <2>1, <2>4, RequestSets DEF InWindow, TypeOK
      <4>2. Cardinality(PassedFrom(t)') <= MaxInFlight /\ Cardinality(PassedFrom(t)') \in Nat
        <5>1. PassedFrom(t)' \in SUBSET PendingFrom(t)
          BY <2>1 DEF PassedFrom, PendingFrom, Passed, Pending
        <5>2. Cardinality(PendingFrom(t)) <= MaxInFlight /\ Cardinality(PendingFrom(t)) \in Nat
          BY WindowSets
        <5> QED
          BY <1>a, <5>1, <5>2, RequestSets
      <4> QED
        BY <2>1, <2>4, <3>1, <4>1, <4>2, WindowSets DEF Intact
    <3>2. CASE ~(Cardinality(InWindow(r)) < Limit)
      <4>1. PassedFrom(t)' = PassedFrom(t)
        BY <1>2, <3>2 DEF Check, Decide, PassedFrom, Passed, TypeOK
      <4> QED
        BY <2>1, <2>4, <4>1 DEF Intact
    <3> QED
      BY <3>1, <3>2
  <2> QED
    BY <1>0, <2>1, <2>3, <2>4, PurgeStep
<1>3. ASSUME NEW r \in Requests, Record(r) PROVE Intact(t)' \/ Broken(t)'
  <2>1. log \subseteq log' /\ r \in log' /\ clock' = clock
    BY <1>3 DEF Record, AddToLog
  <2>2. CASE r \in PassedFrom(t)
    <3>1. /\ AllowedFrom(t)' = AllowedFrom(t) \cup {r} /\ PassedFrom(t)' = PassedFrom(t) \ {r}
          /\ PendingFrom(t)' = PendingFrom(t) \ {r} /\ r \in PendingFrom(t)
      BY <1>3, <2>2 DEF Record, Decide, AllowedFrom, PassedFrom, PendingFrom, Passed, Pending, TypeOK
    <3>2. /\ Cardinality(AllowedFrom(t)') <= Cardinality(AllowedFrom(t)) + 1
          /\ Cardinality(PassedFrom(t)') = Cardinality(PassedFrom(t)) - 1
          /\ Cardinality(PendingFrom(t)') = Cardinality(PendingFrom(t)) - 1
          /\ Cardinality(AllowedFrom(t)') \in Nat
      <4>1. AllowedFrom(t) \cup {r} \in SUBSET Requests
        BY <1>a
      <4> QED
        BY <1>a, <2>2, <3>1, <4>1, OneRequest, RequestSets
    <3>3. CASE Intact(t)
      BY <2>1, <3>1, <3>2, <3>3, WindowSets DEF Intact
    <3>4. CASE Broken(t)
      BY <2>1, <3>1, <3>2, <3>4, WindowSets DEF Broken
    <3> QED
      BY <1>0, <3>3, <3>4
  <2>3. CASE r \notin PassedFrom(t)
    <3>1. /\ AllowedFrom(t)' = AllowedFrom(t) /\ PassedFrom(t)' = PassedFrom(t)
          /\ PendingFrom(t)' = PendingFrom(t)
      BY <1>3, <2>3 DEF Record, Decide, AllowedFrom, PassedFrom, PendingFrom, Passed, Pending,
                        TypeOK, ClockInv
    <3> QED
      BY <1>0, <2>1, <3>1 DEF Intact, Broken
  <2> QED
    BY <2>2, <2>3
<1>4. ASSUME NEW r \in Requests, FailOpen(r) PROVE Intact(t)' \/ Broken(t)'
  <2>1. /\ AllowedFrom(t)' = AllowedFrom(t) /\ PendingFrom(t)' \in SUBSET PendingFrom(t)
        /\ PassedFrom(t)' \in SUBSET PassedFrom(t) /\ r \in Pending /\ clock' = clock
    BY <1>4 DEF FailOpen, Decide, AllowedFrom, PassedFrom, PendingFrom, Passed, Pending,
                TypeOK, ClockInv
  <2>2. /\ Cardinality(PendingFrom(t)') <= Cardinality(PendingFrom(t))
        /\ Cardinality(PassedFrom(t)') <= Cardinality(PassedFrom(t))
        /\ Cardinality(PendingFrom(t)') \in Nat /\ Cardinality(PassedFrom(t)') \in Nat
    BY <1>a, <2>1, RequestSets
  <2>3. log \subseteq log' \/ log' = InWindow(r)
    BY <1>4 DEF FailOpen, AddToLog
  <2>4. CASE Broken(t)
    BY <2>1, <2>2, <2>4, WindowSets DEF Broken
  <2>5. CASE Intact(t) /\ AllowedFrom(t) \subseteq log'
    BY <2>1, <2>2, <2>5, WindowSets DEF Intact
  <2>6. CASE Intact(t) /\ log \subseteq log'
    BY <2>5, <2>6 DEF Intact
  <2> QED
    BY <1>0, <2>1, <2>3, <2>4, <2>5, <2>6, PurgeStep
<1>5. CASE Tick
  <2>1. /\ AllowedFrom(t)' = AllowedFrom(t) /\ PendingFrom(t)' = PendingFrom(t)
        /\ PassedFrom(t)' = PassedFrom(t) /\ clock' = clock + 1
    BY <1>5 DEF Tick, AllowedFrom, PendingFrom, PassedFrom, Passed, Pending
  <2>2. CASE Broken(t)
    BY <2>1, <2>2 DEF Broken, TypeOK
  <2>3. CASE Intact(t) /\ (log' = log \/ AllowedFrom(t) = {})
    BY <2>1, <2>3 DEF Intact
  <2>4. CASE Intact(t) /\ clock' >= expireAt /\ AllowedFrom(t) # {}
    BY <1>5, <2>4, ExpiryStep
  <2> QED
    BY <1>0, <1>5, <2>2, <2>3, <2>4 DEF Tick
<1>6. CASE UNCHANGED vars
  BY <1>0, <1>6 DEF vars, Intact, Broken, AllowedFrom, PassedFrom, PendingFrom, Passed, Pending
<1> QED
  BY <1>1, <1>2, <1>3, <1>4, <1>5, <1>6 DEF Next

(* However many evaluations run at once, however long they take, and       *)
(* whatever fails: no window lets through more than the limit and Overrun. *)
THEOREM WindowOverrunIsBounded == Spec => []WindowOverrun
<1>1. Init => RoomInv /\ RecordedInv /\ ClockInv /\ WindowInv
  <2> SUFFICES ASSUME Init, NEW t \in Nat
               PROVE  RoomInv /\ RecordedInv /\ ClockInv /\ Intact(t)
    BY DEF WindowInv
  <2>1. Pending = {} /\ Passed = {} /\ log = {} /\ AllowedFrom(t) = {} /\ PassedFrom(t) = {}
    BY DEF Init, Pending, Passed, AllowedFrom, PassedFrom
  <2> QED
    BY <2>1, FS_EmptySet DEF Init, RoomInv, RecordedInv, ClockInv, Intact
<1>2. TypeOK /\ RoomInv /\ WindowInv => WindowOverrun
  <2> SUFFICES ASSUME TypeOK, RoomInv, WindowInv, NEW t \in 0..clock
               PROVE  Cardinality(AllowedFrom(t)) <= Limit + Overrun
    BY DEF WindowOverrun
  <2>1. t \in Nat
    BY DEF TypeOK
  <2> QED
    BY <2>1, WindowSets DEF WindowInv, Intact, Broken
<1> QED
  BY <1>1, <1>2, RoomStep, RecordedStep, ClockStep, WindowStep, TypeCorrect, PTL DEF Spec

=============================================================================

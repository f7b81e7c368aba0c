------------------------ MODULE ConnectionPoolsProofs ------------------------
(***************************************************************************)
(* Who holds which connection, and who waits for one, for any number of    *)
(* tasks and any size of the pools.                                        *)
(***************************************************************************)
EXTENDS ConnectionPools, FiniteSetTheorems, TLAPS

(* What a task may be at, by what it is.                                   *)
Calls(o) ==
    CASE o = "redirect" -> {"get", "increment", "lookup", "fill", "drop", "purge", "close"}
      [] o = "details" -> {"count", "record", "get", "lookup", "fill", "drop", "close"}
      [] o = "create" -> {"count", "record", "exists", "insert", "refresh", "fill", "close"}
      [] o = "delete" -> {"purge", "drop", "close"}
      [] o = "read" -> {"count", "record", "select", "close"}
      [] o = "probe" -> {"select", "ping", "close"}
      [] o = "flush" -> {"write", "close"}
      [] OTHER -> {"idle"}

(* Where a task may be with a connection in hand.                          *)
Placed(t) ==
    /\ at[t] \in Calls(op[t])
    /\ t \in redis => at[t] \in RedisCalls
    /\ t \in db => at[t] \in SqlCalls \cup {"close"} \/ (at[t] \in {"fill", "drop"} /\ op[t] # "delete")

(* The inductive invariant                                                 *)
PoolsInv ==
    /\ TypeOK
    /\ WithinLimits
    /\ \A t \in Tasks : Placed(t)

-----------------------------------------------------------------------------
(* A place in a pool is taken only if there is one, and given back.        *)
LEMMA TakePlace ==
    ASSUME NEW S \in SUBSET Tasks, NEW t \in Tasks, NEW max \in Nat, Cardinality(S) < max
    PROVE  Cardinality(S \cup {t}) <= max
<1>1. IsFiniteSet(S)
    BY PoolsAssumption, FS_Subset
<1>2. Cardinality(S) \in Nat
    BY <1>1, FS_CardinalityType
<1>3. Cardinality(S \cup {t}) = IF t \in S THEN Cardinality(S) ELSE Cardinality(S) + 1
    BY <1>1, FS_AddElement
<1> QED
    BY <1>2, <1>3

LEMMA GivePlaceBack ==
    ASSUME NEW S \in SUBSET Tasks, NEW t \in Tasks, NEW max \in Nat, Cardinality(S) <= max
    PROVE  Cardinality(S \ {t}) <= max
<1>1. IsFiniteSet(S) /\ IsFiniteSet(S \ {t})
    BY PoolsAssumption, FS_Subset
<1>2. Cardinality(S \ {t}) <= Cardinality(S)
    BY <1>1, FS_Subset
<1> QED
    BY <1>1, <1>2, FS_CardinalityType

(* The calls that may follow one of an operation are calls of it, and only *)
(* the read of a row leads to a call of Redis with a connection in hand.   *)
LEMMA FollowingCalls ==
    ASSUME NEW o \in Ops, NEW c \in Calls(o), c # "close",
           NEW d \in Then(o, c) \cup Otherwise(o, c)
    PROVE  /\ d \in Calls(o)
           /\ c \in SqlCalls /\ ~Releases(o, c) =>
                  d \in SqlCalls \cup {"close"} \/ (d \in {"fill", "drop"} /\ o # "delete")
<1> USE DEF Then, Otherwise, Calls, Handler, AfterCommit, Commits, SqlCalls, Releases
<1>1. CASE o = "redirect" BY <1>1
<1>2. CASE o = "details" BY <1>2
<1>3. CASE o = "create" BY <1>3
<1>4. CASE o = "delete" BY <1>4
<1>5. CASE o = "read" BY <1>5
<1>6. CASE o = "probe" BY <1>6
<1>7. CASE o = "flush" BY <1>7
<1> QED BY <1>1, <1>2, <1>3, <1>4, <1>5, <1>6, <1>7 DEF Ops

(* The calls of an operation are calls.                                    *)
LEMMA CallsOfOps ==
    ASSUME NEW o \in Ops
    PROVE  Calls(o) \subseteq RedisCalls \cup SqlCalls \cup {"close"}
BY DEF Ops, Calls, RedisCalls, SqlCalls

(* After a write to the cache comes a statement, or the end.               *)
LEMMA FillOrDrop ==
    ASSUME NEW o \in Ops, NEW c \in {"fill", "drop"}, NEW d \in Then(o, c) \cup Otherwise(o, c)
    PROVE  d \in SqlCalls \cup {"close"}
BY DEF Then, Otherwise, SqlCalls, Commits

-----------------------------------------------------------------------------
LEMMA InitInv == Init => PoolsInv
<1> SUFFICES ASSUME Init PROVE PoolsInv
    OBVIOUS
<1>1. TypeOK
    BY DEF Init, TypeOK
<1>2. WithinLimits
    BY FS_EmptySet, PoolsAssumption DEF Init, WithinLimits
<1>3. \A t \in Tasks : Placed(t)
    BY DEF Init, Placed, Calls
<1> QED BY <1>1, <1>2, <1>3 DEF PoolsInv

(* A step of t leaves the other tasks where they are.                      *)
LEMMA OthersStay ==
    ASSUME NEW t \in Tasks, PoolsInv, TypeOK',
           \A u \in Tasks \ {t} : /\ op'[u] = op[u] /\ at'[u] = at[u]
                                  /\ (u \in db') = (u \in db)
                                  /\ (u \in redis') = (u \in redis),
           WithinLimits', Placed(t)'
    PROVE  PoolsInv'
<1> SUFFICES ASSUME NEW u \in Tasks, u # t PROVE Placed(u)'
    BY DEF PoolsInv
<1>1. Placed(u)
    BY DEF PoolsInv
<1> QED BY <1>1 DEF Placed

LEMMA BeginInv ==
    ASSUME PoolsInv, NEW t \in Tasks, Begin(t)
    PROVE  PoolsInv'
<1>1. PICK o \in Ops : op' = [op EXCEPT ![t] = o] /\ at' = [at EXCEPT ![t] = First(o)]
    BY DEF Begin
<1>2. First(o) \in Calls(o) /\ First(o) \in RedisCalls \cup SqlCalls
    BY DEF Ops, First, Handler, Limited, Calls, RedisCalls, SqlCalls
<1>3. t \notin db /\ t \notin redis
    BY DEF PoolsInv, Placed, Begin, RedisCalls, SqlCalls, TypeOK, Ops
<1>4. TypeOK'
    BY <1>1, <1>2 DEF Begin, PoolsInv, TypeOK
<1>5. Placed(t)' /\ WithinLimits'
    BY <1>1, <1>2, <1>3 DEF Begin, PoolsInv, TypeOK, Placed, WithinLimits
<1> QED BY <1>1, <1>4, <1>5, OthersStay DEF Begin, PoolsInv, TypeOK

LEMMA CallRedisInv ==
    ASSUME PoolsInv, NEW t \in Tasks, CallRedis(t)
    PROVE  PoolsInv'
<1>1. TypeOK'
    BY DEF CallRedis, PoolsInv, TypeOK
<1>2. Cardinality(redis') <= RedisMax
    BY TakePlace, PoolsAssumption DEF CallRedis, PoolsInv, TypeOK
<1>3. Placed(t)' /\ WithinLimits'
    BY <1>2 DEF CallRedis, PoolsInv, Placed, WithinLimits
<1> QED BY <1>1, <1>3, OthersStay DEF CallRedis, PoolsInv, TypeOK

(* A task that is at a call is some operation, and the call is its own.    *)
LEMMA CallOfOperation ==
    ASSUME PoolsInv, NEW t \in Tasks, at[t] \in RedisCalls \cup SqlCalls
    PROVE  op[t] \in Ops /\ at[t] \in Calls(op[t]) /\ at[t] \notin {"close", "idle"}
<1>1. at[t] \in Calls(op[t]) /\ at[t] \notin {"close", "idle"}
    BY DEF PoolsInv, Placed, RedisCalls, SqlCalls
<1>2. op[t] # "none"
    BY <1>1 DEF Calls
<1> QED BY <1>1, <1>2 DEF PoolsInv, TypeOK

(* A task that goes on after a call of Redis stays where it may be.        *)
LEMMA GoOnAfterRedis ==
    ASSUME PoolsInv, NEW t \in Tasks, at[t] \in RedisCalls,
           GoOn(t, Then(op[t], at[t]) \cup Otherwise(op[t], at[t])),
           redis' = redis \ {t}, UNCHANGED <<op, db>>
    PROVE  PoolsInv'
<1> DEFINE o == op[t]
           c == at[t]
<1>1. PICK d \in Then(o, c) \cup Otherwise(o, c) : at' = [at EXCEPT ![t] = d]
    BY DEF GoOn
<1>2. o \in Ops /\ c \in Calls(o) /\ c # "close"
    BY CallOfOperation
<1>3. /\ d \in Calls(o)
      /\ c \in {"fill", "drop"} /\ o # "delete" => d \in SqlCalls \cup {"close"}
    BY <1>2, FollowingCalls, FillOrDrop
<1>4. d \in RedisCalls \cup SqlCalls \cup {"close"}
    BY <1>2, <1>3, CallsOfOps
<1>5. TypeOK'
    BY <1>1, <1>4 DEF PoolsInv, TypeOK
<1>6. WithinLimits'
    BY GivePlaceBack, PoolsAssumption DEF PoolsInv, TypeOK, WithinLimits
<1>7. Placed(t)
    BY DEF PoolsInv
<1>8. at'[t] = d /\ op'[t] = o
    BY <1>1 DEF PoolsInv, TypeOK
<1>9. Placed(t)'
    <2>1. t \in db => d \in SqlCalls \cup {"close"}
        BY <1>3, <1>7 DEF Placed, RedisCalls, SqlCalls
    <2> QED BY <1>3, <1>8, <2>1 DEF Placed
<1> QED BY <1>1, <1>5, <1>6, <1>9, OthersStay DEF PoolsInv, TypeOK

LEMMA RedisRefusesInv ==
    ASSUME PoolsInv, NEW t \in Tasks, RedisRefuses(t)
    PROVE  PoolsInv'
<1>1. GoOn(t, Then(op[t], at[t]) \cup Otherwise(op[t], at[t])) /\ redis' = redis \ {t}
    BY DEF RedisRefuses, GoOn
<1> QED BY <1>1, GoOnAfterRedis DEF RedisRefuses

LEMMA RedisAnswersInv ==
    ASSUME PoolsInv, NEW t \in Tasks, RedisAnswers(t)
    PROVE  PoolsInv'
<1>1. at[t] \in RedisCalls
    BY DEF RedisAnswers, PoolsInv, Placed
<1> QED BY <1>1, GoOnAfterRedis DEF RedisAnswers

LEMMA ConnectInv ==
    ASSUME PoolsInv, NEW t \in Tasks, Connect(t)
    PROVE  PoolsInv'
<1>1. TypeOK'
    BY DEF Connect, PoolsInv, TypeOK
<1>2. Cardinality(db') <= DbMax
    BY TakePlace, PoolsAssumption DEF Connect, PoolsInv, TypeOK
<1>3. Placed(t)' /\ WithinLimits'
    BY <1>2 DEF Connect, Waiting, PoolsInv, Placed, WithinLimits
<1> QED BY <1>1, <1>3, OthersStay DEF Connect, PoolsInv, TypeOK

(* A task that makes for its end is where it may be, whatever it holds.    *)
LEMMA ToClose ==
    ASSUME PoolsInv, NEW t \in Tasks, at[t] \notin {"idle", "close"},
           at' = [at EXCEPT ![t] = "close"], redis' = redis \ {t},
           UNCHANGED <<op, db>>
    PROVE  PoolsInv'
<1>1. TypeOK'
    BY DEF PoolsInv, TypeOK
<1>2. WithinLimits'
    BY GivePlaceBack, PoolsAssumption DEF PoolsInv, TypeOK, WithinLimits
<1>3. at[t] \in Calls(op[t]) /\ op[t] \in Ops \cup {"none"}
    BY DEF PoolsInv, Placed, TypeOK
<1>4. "close" \in Calls(op[t])
    BY <1>3 DEF Calls, Ops
<1>5. Placed(t)'
    BY <1>4 DEF PoolsInv, TypeOK, Placed
<1> QED BY <1>1, <1>2, <1>5, OthersStay DEF PoolsInv, TypeOK

LEMMA SqlAnswersInv ==
    ASSUME PoolsInv, NEW t \in Tasks, SqlAnswers(t)
    PROVE  PoolsInv'
<1> DEFINE o == op[t]
           c == at[t]
<1>1. PICK d \in Then(o, c) : at' = [at EXCEPT ![t] = d]
    BY DEF SqlAnswers, GoOn
<1>2. o \in Ops /\ c \in Calls(o) /\ c # "close" /\ c \in SqlCalls
    BY CallOfOperation DEF SqlAnswers
<1>3. /\ d \in Calls(o)
      /\ ~Releases(o, c) =>
             d \in SqlCalls \cup {"close"} \/ (d \in {"fill", "drop"} /\ o # "delete")
    BY <1>2, FollowingCalls
<1>4. d \in RedisCalls \cup SqlCalls \cup {"close"}
    BY <1>2, <1>3, CallsOfOps
<1>5. TypeOK'
    BY <1>1, <1>4 DEF SqlAnswers, PoolsInv, TypeOK
<1>6. WithinLimits'
    BY GivePlaceBack, PoolsAssumption DEF SqlAnswers, PoolsInv, TypeOK, WithinLimits
<1>7. Placed(t) /\ t \in db /\ t \notin redis
    BY <1>2 DEF SqlAnswers, PoolsInv, Placed, RedisCalls, SqlCalls
<1>8. at'[t] = d /\ op'[t] = o /\ t \notin redis'
    BY <1>1, <1>7 DEF SqlAnswers, PoolsInv, TypeOK
<1>9. Placed(t)'
    <2>1. t \in db' => d \in SqlCalls \cup {"close"} \/ (d \in {"fill", "drop"} /\ o # "delete")
        BY <1>3 DEF SqlAnswers
    <2> QED BY <1>3, <1>8, <2>1 DEF Placed
<1> QED BY <1>1, <1>5, <1>6, <1>9, OthersStay DEF SqlAnswers, PoolsInv, TypeOK

LEMMA CloseInv ==
    ASSUME PoolsInv, NEW t \in Tasks, Close(t)
    PROVE  PoolsInv'
<1>1. TypeOK'
    BY DEF Close, PoolsInv, TypeOK
<1>2. WithinLimits'
    BY GivePlaceBack, PoolsAssumption DEF Close, PoolsInv, TypeOK, WithinLimits
<1>3. t \notin redis
    BY DEF Close, PoolsInv, Placed, RedisCalls
<1>4. Placed(t)'
    BY <1>3 DEF Close, PoolsInv, TypeOK, Placed, Calls
<1> QED BY <1>1, <1>2, <1>4, OthersStay DEF Close, PoolsInv, TypeOK

LEMMA NextInv == PoolsInv /\ [Next]_vars => PoolsInv'
<1> SUFFICES ASSUME PoolsInv, [Next]_vars PROVE PoolsInv'
    OBVIOUS
<1>1. ASSUME NEW t \in Tasks, PoolTimeout(t) \/ SqlEnds(t) \/ Cancel(t)
      PROVE  PoolsInv'
    <2>1. at[t] \notin {"idle", "close"} /\ at' = [at EXCEPT ![t] = "close"] /\ UNCHANGED <<op, db>>
        BY <1>1 DEF PoolTimeout, SqlEnds, Cancel, Waiting, SqlCalls
    <2>2. redis' = redis \ {t}
        BY <1>1 DEF PoolTimeout, SqlEnds, Cancel, Waiting, PoolsInv, Placed, SqlCalls, RedisCalls
    <2> QED BY <2>1, <2>2, ToClose
<1>2. CASE UNCHANGED vars
    BY <1>2 DEF vars, PoolsInv, TypeOK, WithinLimits, Placed
<1>3. CASE Next
    <2>1. PICK t \in Tasks : Begin(t) \/ Proceed(t) \/ Cancel(t)
        BY <1>3 DEF Next
    <2> QED BY <1>1, <2>1, BeginInv, CallRedisInv, RedisRefusesInv, RedisAnswersInv, ConnectInv,
               SqlAnswersInv, CloseInv DEF Proceed
<1> QED BY <1>2, <1>3

LEMMA InvImplies == PoolsInv => TypeOK /\ HoldsOnlyWhatItUses
<1> SUFFICES ASSUME PoolsInv PROVE TypeOK /\ HoldsOnlyWhatItUses
    OBVIOUS
<1>1. TypeOK /\ WithinLimits
    BY DEF PoolsInv
<1>2. ASSUME NEW t \in Tasks
      PROVE  /\ at[t] = "idle" => t \notin db \cup redis
             /\ t \in db /\ at[t] \in RedisCalls =>
                    at[t] \in {"fill", "drop"} /\ op[t] \in {"redirect", "details", "create"}
             /\ t \in redis => at[t] \in RedisCalls
    <2>1. Placed(t) /\ op[t] \in Ops \cup {"none"}
        BY DEF PoolsInv, TypeOK
    <2>2. at[t] \in {"fill", "drop"} /\ op[t] # "delete" => op[t] \in {"redirect", "details", "create"}
        BY <2>1 DEF Placed, Calls, Ops
    <2> QED BY <2>1, <2>2 DEF Placed, RedisCalls, SqlCalls
<1> QED BY <1>1, <1>2 DEF HoldsOnlyWhatItUses

-----------------------------------------------------------------------------
LEMMA PoolsInvariant == Spec => []PoolsInv
BY InitInv, NextInv, PTL DEF Spec

(* The pools are used as TypeOK says, by any number of tasks.              *)
THEOREM PoolsTypeCorrect == Spec => []TypeOK
BY PoolsInvariant, InvImplies, PTL

(* No pool is overdrawn and no connection is leaked, whatever is cancelled *)
(* or times out, and no one waits for PostgreSQL with Redis in hand.       *)
THEOREM ConnectionsAreAccountedFor == Spec => []HoldsOnlyWhatItUses
BY PoolsInvariant, InvImplies, PTL

=============================================================================

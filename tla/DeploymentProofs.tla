--------------------------- MODULE DeploymentProofs ---------------------------
(***************************************************************************)
(* What startups, migrations, outages and crashes leave of the schema, for *)
(* any number of replicas.                                                 *)
(***************************************************************************)
EXTENDS Deployment, TLAPS

(* A replica about to create tables knows the ones that are missing, unless*)
(* all have been made since; a downgrade is the only way to lose one.      *)
MissingAccurate ==
    \A r \in Replicas : pc[r] = "create" /\ ~downgraded =>
        tables = AllTables \/ missing[r] = AllTables \ tables

(* A worker flushes while its replica serves or waits for it to stop, and  *)
(* once more when the loop has ended.                                      *)
FlushInTime ==
    \A r \in Replicas : session[r] # "none" => pc[r] \in {"serving", "stop", "last_flush"}

(* What has shut down keeps no connection.                                 *)
NothingPooled ==
    \A r \in Replicas : pc[r] = "down" => ~pooled[r]

(* The inductive invariant                                                 *)
DeploymentInv ==
    /\ TypeOK
    /\ MissingAccurate
    /\ SchemaComplete
    /\ RecordNeverAhead
    /\ FlushInTime
    /\ NothingPooled

LEMMA InitInv == Init => DeploymentInv
<1> SUFFICES ASSUME Init PROVE DeploymentInv
    OBVIOUS
<1>1. NoAnswer \in [status : {"none", "200", "503"}, down : SUBSET Components]
    BY DEF NoAnswer
<1>2. TypeOK
    BY <1>1 DEF Init, TypeOK, Versions, Ended, AllTables
<1> QED
    BY <1>2 DEF Init, DeploymentInv, MissingAccurate, SchemaComplete, RecordNeverAhead,
                FlushInTime, NothingPooled

(* A step that leaves the tables alone keeps what is known of them, if no  *)
(* replica comes to create tables or to a verdict about them.              *)
LEMMA TablesAlone ==
    ASSUME DeploymentInv, UNCHANGED <<tables, version, downgraded>>,
           \A r \in Replicas : pc'[r] = "create" => pc[r] = "create" /\ missing'[r] = missing[r],
           \A r \in Replicas : schema'[r] \in {"verified", "failed"} => schema'[r] = schema[r]
    PROVE  MissingAccurate' /\ SchemaComplete' /\ RecordNeverAhead'
BY DEF DeploymentInv, MissingAccurate, SchemaComplete, RecordNeverAhead

LEMMA StartProcessInv ==
    ASSUME DeploymentInv, NEW r \in Replicas, StartProcess(r) PROVE DeploymentInv'
<1> USE DEF StartProcess, GoTo, Forget, EndSchema, shared, DeploymentInv, TypeOK, Ended
<1>1. TypeOK' /\ FlushInTime' /\ NothingPooled'
    BY DEF FlushInTime, NothingPooled
<1>2. MissingAccurate' /\ SchemaComplete' /\ RecordNeverAhead'
    BY TablesAlone
<1> QED BY <1>1, <1>2

LEMMA CrashInv ==
    ASSUME DeploymentInv, NEW r \in Replicas, Crash(r) PROVE DeploymentInv'
<1> USE DEF Crash, GoTo, Forget, EndSchema, shared, DeploymentInv, TypeOK, Ended
<1>1. TypeOK' /\ FlushInTime' /\ NothingPooled'
    BY DEF FlushInTime, NothingPooled
<1>2. MissingAccurate' /\ SchemaComplete' /\ RecordNeverAhead'
    BY TablesAlone
<1> QED BY <1>1, <1>2

LEMMA InspectInv ==
    ASSUME DeploymentInv, NEW r \in Replicas, Inspect(r) PROVE DeploymentInv'
<1> USE DEF Inspect, UseDatabase, GoTo, EndSchema, shared, DeploymentInv, TypeOK, Ended
<1>1. TypeOK' /\ FlushInTime' /\ NothingPooled'
    BY DEF FlushInTime, NothingPooled
<1>2. MissingAccurate'
    BY DEF MissingAccurate
<1>3. SchemaComplete' /\ RecordNeverAhead'
    BY DEF SchemaComplete, RecordNeverAhead
<1> QED BY <1>1, <1>2, <1>3

(* create_all completes the schema, or finds it complete, or a downgrade   *)
(* has been at work.                                                       *)
LEMMA CreateTablesInv ==
    ASSUME DeploymentInv, NEW r \in Replicas, CreateTables(r) PROVE DeploymentInv'
<1> USE DEF CreateTables, GoTo, EndSchema, DeploymentInv
<1>1. TypeOK' /\ FlushInTime' /\ NothingPooled'
    BY DEF TypeOK, Ended, FlushInTime, NothingPooled
<1>2. ~downgraded => tables = AllTables \/ missing[r] = AllTables \ tables
    BY DEF MissingAccurate
<1>3. tables \subseteq tables' /\ tables' \subseteq AllTables
    BY DEF TypeOK
<1>4. ~downgraded => tables' \in {tables, AllTables}
    BY <1>2, <1>3 DEF TypeOK
<1>5. ~downgraded /\ schema'[r] \in {"verified", "failed"} => tables' = AllTables
    BY <1>2 DEF TypeOK, Creatable, AllTables, RecordNeverAhead
<1>6. MissingAccurate'
    BY <1>4 DEF MissingAccurate, TypeOK
<1>7. SchemaComplete'
    BY <1>3, <1>5 DEF SchemaComplete, TypeOK
<1>8. RecordNeverAhead'
    BY <1>3 DEF RecordNeverAhead, Creatable
<1> QED BY <1>1, <1>6, <1>7, <1>8

(* The steps of a serving or stopping replica                              *)
LEMMA ServeInv ==
    ASSUME DeploymentInv, NEW r \in Replicas,
           \/ Readiness(r) \/ BeginFlush(r) \/ Connect(r) \/ EndFlush(r) \/ Shutdown(r)
           \/ StopWorker(r) \/ Drain(r) \/ Dispose(r)
    PROVE  DeploymentInv'
<1> USE DEF UseDatabase, GoTo, shared, DeploymentInv
<1>1. CASE Readiness(r)
    <2>1. TypeOK' /\ FlushInTime' /\ NothingPooled'
        BY <1>1 DEF Readiness, TypeOK, Ended, FlushInTime, NothingPooled
    <2>2. MissingAccurate' /\ SchemaComplete' /\ RecordNeverAhead'
        BY <1>1, TablesAlone DEF Readiness
    <2> QED BY <2>1, <2>2
<1>2. CASE EndFlush(r)
    <2>1. TypeOK'
        BY <1>2 DEF EndFlush, TypeOK, Ended
    <2>2. FlushInTime' /\ NothingPooled'
        BY <1>2 DEF EndFlush, TypeOK, Ended, FlushInTime, NothingPooled
    <2>3. MissingAccurate' /\ SchemaComplete' /\ RecordNeverAhead'
        BY <1>2, TablesAlone DEF EndFlush, TypeOK
    <2> QED BY <2>1, <2>2, <2>3
<1>3. CASE BeginFlush(r) \/ Connect(r) \/ Shutdown(r) \/ StopWorker(r) \/ Drain(r) \/ Dispose(r)
    <2> USE <1>3 DEF BeginFlush, Connect, Shutdown, StopWorker, Drain, Dispose
    <2>1. TypeOK'
        BY DEF TypeOK, Ended
    <2>2. FlushInTime' /\ NothingPooled'
        BY DEF TypeOK, Ended, FlushInTime, NothingPooled
    <2>3. MissingAccurate' /\ SchemaComplete' /\ RecordNeverAhead'
        BY TablesAlone DEF TypeOK
    <2> QED BY <2>1, <2>2, <2>3
<1> QED BY <1>1, <1>2, <1>3

LEMMA DatabaseChangesInv ==
    ASSUME DeploymentInv, DatabaseChanges PROVE DeploymentInv'
<1> USE DEF DatabaseChanges, DeploymentInv
<1>1. TypeOK' /\ FlushInTime' /\ NothingPooled'
    BY DEF TypeOK, FlushInTime, NothingPooled
<1>2. MissingAccurate' /\ SchemaComplete' /\ RecordNeverAhead'
    BY TablesAlone
<1> QED BY <1>1, <1>2

(* An upgrade makes the schema complete: it finds urls or it fails.        *)
LEMMA UpgradeInv ==
    ASSUME DeploymentInv, Upgrade PROVE DeploymentInv'
<1> USE DEF Upgrade, replica, DeploymentInv
<1>1. tables' = AllTables /\ version' = "add_clicks_table"
    BY DEF Creatable, AllTables, TypeOK
<1>2. TypeOK' /\ FlushInTime' /\ NothingPooled'
    BY <1>1 DEF TypeOK, Versions, FlushInTime, NothingPooled
<1>3. MissingAccurate' /\ SchemaComplete' /\ RecordNeverAhead'
    BY <1>1 DEF MissingAccurate, SchemaComplete, RecordNeverAhead, AllTables
<1> QED BY <1>2, <1>3

LEMMA DowngradeInv ==
    ASSUME DeploymentInv, Downgrade PROVE DeploymentInv'
<1> USE DEF Downgrade, replica, DeploymentInv
<1>1. TypeOK' /\ FlushInTime' /\ NothingPooled'
    BY DEF TypeOK, Versions, FlushInTime, NothingPooled
<1>2. MissingAccurate' /\ SchemaComplete' /\ RecordNeverAhead'
    BY DEF MissingAccurate, SchemaComplete, RecordNeverAhead
<1> QED BY <1>1, <1>2

LEMMA NextInv == DeploymentInv /\ [Next]_vars => DeploymentInv'
<1> SUFFICES ASSUME DeploymentInv, [Next]_vars PROVE DeploymentInv'
    OBVIOUS
<1>1. CASE UNCHANGED vars
    BY <1>1 DEF vars, shared, replica, DeploymentInv, TypeOK, MissingAccurate, SchemaComplete,
                RecordNeverAhead, FlushInTime, NothingPooled
<1>2. ASSUME NEW r \in Replicas,
             \/ StartProcess(r) \/ Lifespan(r) \/ Readiness(r)
             \/ BeginFlush(r) \/ Shutdown(r) \/ Crash(r)
      PROVE  DeploymentInv'
    BY <1>2, StartProcessInv, CrashInv, InspectInv, CreateTablesInv, ServeInv DEF Lifespan
<1> QED BY <1>1, <1>2, DatabaseChangesInv, UpgradeInv, DowngradeInv DEF Next

LEMMA Invariant == Spec => []DeploymentInv
BY InitInv, NextInv, PTL DEF Spec

-----------------------------------------------------------------------------
(* The state of any number of replicas and of the schema is as TypeOK says.*)
THEOREM DeploymentTypeCorrect == Spec => []TypeOK
<1>1. DeploymentInv => TypeOK
    BY DEF DeploymentInv
<1> QED BY <1>1, Invariant, PTL

(* However many replicas start at once, among outages, crashes and         *)
(* upgrades, one that came to a verdict about the tables has them all.     *)
THEOREM StartupsCompleteTheSchema == Spec => []SchemaComplete
<1>1. DeploymentInv => SchemaComplete
    BY DEF DeploymentInv
<1> QED BY <1>1, Invariant, PTL

(* However many replicas create tables behind its back, alembic's record is*)
(* never ahead of the tables; that it may be behind is not excluded.       *)
THEOREM RecordIsNeverAhead == Spec => []RecordNeverAhead
<1>1. DeploymentInv => RecordNeverAhead
    BY DEF DeploymentInv
<1> QED BY <1>1, Invariant, PTL

(* When a lifespan has ended no flush goes on, not even if the last one    *)
(* raised, and no connection is open unless it did.                        *)
THEOREM ShutdownIsClean == Spec => []CleanShutdown
<1>1. DeploymentInv => CleanShutdown
    BY DEF DeploymentInv, FlushInTime, NothingPooled, CleanShutdown, TypeOK, Ended
<1> QED BY <1>1, Invariant, PTL

=============================================================================

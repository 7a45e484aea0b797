-------------------------- MODULE RtcTablesProofs ---------------------------
(***************************************************************************)
(* Proofs about the searches in the tables and about the records of the    *)
(* configurator, for every MAX_SLAVES and every number of slaves, masters  *)
(* and slaves asked for by the test.                                       *)
(***************************************************************************)
EXTENDS RtcTablesProperties, FiniteSetTheorems, TLAPS

-----------------------------------------------------------------------------
(* What the searches of module RtcProbe find.                              *)

(* A probe stays in the table.                                             *)
LEMMA ProbeInTable ==
    ASSUME NEW pid \in Pids, NEW i \in Indexes
    PROVE  ProbeAt(pid, i) \in Indexes
  BY ProbeAssumption DEF ProbeAt, Indexes

(* MAX_SLAVES probes visit every place, wherever they start.               *)
LEMMA EveryPlaceProbed ==
    ASSUME NEW pid \in Pids, NEW x \in Indexes
    PROVE  \E i \in Indexes : ProbeAt(pid, i) = x
<1> DEFINE i == IF x >= Home[pid] THEN x - Home[pid]
                ELSE x + MAX_SLAVES - Home[pid]
<1>1. i \in Indexes /\ ProbeAt(pid, i) = x
  BY ProbeAssumption DEF ProbeAt, Indexes
<1>2. QED
  BY <1>1

(* A set of places that is not empty has a first one: the sets 0 .. x - 1  *)
(* are finite, and inclusion is well-founded on finite sets.               *)
LEMMA FirstPlace ==
    ASSUME NEW S \in SUBSET Indexes, S # {}
    PROVE  \E x \in S : \A y \in S : x <= y
<1> DEFINE Below == {0 .. x - 1 : x \in S}
<1>1. Below \subseteq FiniteSubsetsOf(Indexes)
  <2>1. SUFFICES ASSUME NEW x \in S
                 PROVE  0 .. x - 1 \in FiniteSubsetsOf(Indexes)
    OBVIOUS
  <2>2. x \in Nat /\ 0 .. x - 1 \subseteq Indexes
    BY ProbeAssumption DEF Indexes
  <2>3. IsFiniteSet(0 .. x - 1)
    BY <2>2, FS_Interval
  <2>4. QED
    BY <2>2, <2>3 DEF FiniteSubsetsOf
<1>2. PICK B \in Below : \A C \in Below : <<C, B>> \notin StrictSubsetOrdering(Indexes)
  <2>1. IsWellFoundedOn(StrictSubsetOrdering(Indexes), FiniteSubsetsOf(Indexes))
    BY FS_StrictSubsetOrderingWellFounded
  <2>2. Below # {}
    OBVIOUS
  <2>3. QED
    BY <1>1, <2>1, <2>2, WFMin
<1>3. PICK x \in S : B = 0 .. x - 1
  OBVIOUS
<1>4. ASSUME NEW y \in S, y < x PROVE FALSE
  <2>1. x \in Int /\ y \in Nat
    BY ProbeAssumption DEF Indexes
  <2>2. 0 .. y - 1 \subseteq B /\ 0 .. y - 1 # B /\ B \subseteq Indexes
    BY <1>3, <1>4, <2>1, ProbeAssumption DEF Indexes
  <2>3. <<0 .. y - 1, B>> \in StrictSubsetOrdering(Indexes)
    BY <2>2 DEF StrictSubsetOrdering
  <2>4. 0 .. y - 1 \in Below
    OBVIOUS
  <2>5. QED
    BY <1>2, <2>3, <2>4
<1>5. QED
  BY <1>4 DEF Indexes

(* A search returns a place that holds the value wanted if there is one,   *)
(* and NO_IDX otherwise.                                                   *)
LEMMA SearchFinds ==
    ASSUME NEW table, NEW pid \in Pids, NEW v
    PROVE  /\ (\E x \in Indexes : table[x] = v) =>
                 /\ Search(table, pid, v) \in Indexes
                 /\ table[Search(table, pid, v)] = v
           /\ (\A x \in Indexes : table[x] # v) => Search(table, pid, v) = NO_IDX
<1> DEFINE Hits == {i \in Indexes : table[ProbeAt(pid, i)] = v}
<1>1. ASSUME NEW x \in Indexes, table[x] = v
      PROVE  Search(table, pid, v) \in Indexes /\ table[Search(table, pid, v)] = v
  <2>1. Hits # {}
    BY <1>1, EveryPlaceProbed
  <2>2. PICK i \in Hits : \A j \in Hits : i <= j
    <3>1. Hits \in SUBSET Indexes
      OBVIOUS
    <3>2. QED
      BY <2>1, <3>1, FirstPlace
  <2>3. \A j \in Indexes : j < i => table[ProbeAt(pid, j)] # v
    BY <2>2, ProbeAssumption DEF Indexes
  <2>4. /\ Misses(table, pid, v) \in Indexes
        /\ table[ProbeAt(pid, Misses(table, pid, v))] = v
    BY <2>2, <2>3 DEF Misses
  <2>5. Search(table, pid, v) = ProbeAt(pid, Misses(table, pid, v))
    BY <2>1 DEF Search
  <2>6. QED
    BY <2>4, <2>5, ProbeInTable
<1>2. ASSUME \A x \in Indexes : table[x] # v PROVE Search(table, pid, v) = NO_IDX
  BY <1>2, ProbeInTable DEF Search
<1>3. QED
  BY <1>1, <1>2

(* getAssignedShmsegIdx and getAssignedLocalIdx find a pid if and only if  *)
(* it is in the table.                                                     *)
THEOREM GetAssignedCorrect ==
    ASSUME NEW table \in Tables, NEW pid \in Pids
    PROVE  LET x == getAssignedIdx(table, pid)
           IN  IF pid \in {table[y] : y \in Indexes}
               THEN x \in Indexes /\ table[x] = pid
               ELSE x = NO_IDX
  BY SearchFinds DEF getAssignedIdx

(* assignShmsegIdx and assignLocalIdx return a free place as long as the   *)
(* table has one, whatever places have been taken and freed before.        *)
THEOREM AssignCorrect ==
    ASSUME NEW table \in Tables, NEW pid \in Pids
    PROVE  LET x == assignIdx(table, pid)
           IN  IF NO_PID \in {table[y] : y \in Indexes}
               THEN x \in Indexes /\ table[x] = NO_PID
               ELSE x = NO_IDX
  BY SearchFinds DEF assignIdx

-----------------------------------------------------------------------------

(* The inductive invariant: a recorded pid was given by fork, so the pid   *)
(* of a new slave is in no record yet.                                     *)
RegistryInv ==
    /\ forked \subseteq Slaves \cup Masters
    /\ created_pid \in [Indexes -> (forked \cap Slaves) \cup {NO_PID}]
    /\ RecordsUnique

(* A step that changes no record and no fork.                              *)
RegistryLeft == UNCHANGED <<forked, created_pid>>

(* Registration fills a free place, or none (registerSlaveLocally).        *)
LEMMA RegisterFills ==
    ASSUME NEW s \in Slaves, created_pid \in Tables, RegisterSlaveLocally(s)
    PROVE  \/ created_pid' = created_pid
           \/ \E x \in Indexes : /\ created_pid[x] = NO_PID
                                 /\ created_pid' = [created_pid EXCEPT ![x] = s]
<1> DEFINE x == assignIdx(created_pid, s)
<1>1. s \in Pids
  BY DEF Slaves
<1>2. created_pid' = [created_pid EXCEPT ![x] = s]
  BY DEF RegisterSlaveLocally, SetRecord
<1>3. CASE NO_PID \in {created_pid[y] : y \in Indexes}
  <2>1. x \in Indexes /\ created_pid[x] = NO_PID
    BY <1>1, <1>3, AssignCorrect
  <2>2. QED
    BY <1>2, <2>1
<1>4. CASE NO_PID \notin {created_pid[y] : y \in Indexes}
  <2>1. x = NO_IDX
    BY <1>1, <1>4, AssignCorrect
  <2>2. x \notin DOMAIN created_pid
    BY <2>1, ProbeAssumption DEF Tables, Indexes, NO_IDX
  <2>3. created_pid' = created_pid
    BY <1>2, <2>2 DEF Tables
  <2>4. QED
    BY <2>3
<1>5. QED
  BY <1>3, <1>4

LEMMA RegistryTables ==
    ASSUME RegistryInv
    PROVE  created_pid \in Tables
  BY DEF RegistryInv, Tables, Slaves

(* Creating a slave keeps the invariant, and every record.                 *)
LEMMA CreateKeeps ==
    ASSUME RegistryInv, NEW s \in Slaves, ForkSlave(s), RegisterSlaveLocally(s)
    PROVE  /\ RegistryInv'
           /\ \A x \in Indexes :
                 created_pid[x] # NO_PID => created_pid'[x] = created_pid[x]
<1>1. /\ s \notin forked
      /\ forked' = forked \cup {s}
  BY DEF ForkSlave
<1>2. CASE created_pid' = created_pid
  BY <1>1, <1>2 DEF RegistryInv, RecordsUnique
<1>3. ASSUME NEW x \in Indexes, created_pid[x] = NO_PID,
             created_pid' = [created_pid EXCEPT ![x] = s]
      PROVE  /\ RegistryInv'
             /\ \A y \in Indexes :
                   created_pid[y] # NO_PID => created_pid'[y] = created_pid[y]
  <2>1. created_pid' \in [Indexes -> (forked' \cap Slaves) \cup {NO_PID}]
    BY <1>1, <1>3 DEF RegistryInv
  <2>2. \A y \in Indexes :
           created_pid'[y] = IF y = x THEN s ELSE created_pid[y]
    BY <1>3 DEF RegistryInv
  <2>3. \A y \in Indexes : created_pid[y] # s
    BY <1>1, ProbeAssumption DEF RegistryInv, Slaves
  <2>4. RecordsUnique'
    BY <2>2, <2>3 DEF RegistryInv, RecordsUnique
  <2>5. QED
    BY <1>1, <1>3, <2>1, <2>2, <2>4 DEF RegistryInv
<1>4. QED
  BY <1>2, <1>3, RegisterFills, RegistryTables

(* Freeing records keeps the invariant.                                    *)
LEMMA FreeKeeps ==
    ASSUME RegistryInv, UNCHANGED forked,
           created_pid' \in [Indexes -> (forked \cap Slaves) \cup {NO_PID}],
           \A x \in Indexes : created_pid'[x] \in {created_pid[x], NO_PID}
    PROVE  RegistryInv'
  BY DEF RegistryInv, RecordsUnique

(* What every step does to the records, and that it keeps the invariant.   *)
LEMMA StepKeepsRecords ==
    ASSUME TablesAssumption, RegistryInv, [Next]_vars
    PROVE  /\ RegistryInv'
           /\ \A x \in Indexes :
                 created_pid[x] # NO_PID =>
                    created_pid'[x] \in {created_pid[x], NO_PID}
<1> DEFINE Goal == /\ RegistryInv'
                   /\ \A x \in Indexes :
                         created_pid[x] # NO_PID =>
                            created_pid'[x] \in {created_pid[x], NO_PID}
<1>1. ASSUME RegistryLeft PROVE Goal
  BY <1>1 DEF RegistryLeft, RegistryInv, RecordsUnique
<1>2. ASSUME NEW m \in Masters, StartMaster(m) PROVE Goal
  BY <1>2 DEF StartMaster, registryVars, RegistryInv, RecordsUnique, Slaves,
              TablesAssumption
<1>3. ASSUME StopMaster PROVE Goal
  <2>1. /\ UNCHANGED forked
        /\ created_pid' = [x \in Indexes |-> IF x \in Freed THEN NO_PID ELSE created_pid[x]]
    BY <1>3 DEF StopMaster
  <2>2. QED
    BY <2>1, FreeKeeps DEF RegistryInv
<1>4. ASSUME NEW s \in Slaves, CreateSlave(s) PROVE Goal
  BY <1>4, CreateKeeps DEF CreateSlave
<1>5. ASSUME NEW s \in Slaves, TestCreate(s) PROVE Goal
  BY <1>5, CreateKeeps DEF TestCreate
<1>6. ASSUME NEW s \in Slaves, DeleteSlave(s) PROVE Goal
  <2>1. PICK x : /\ UNCHANGED forked
                 /\ created_pid' = [created_pid EXCEPT ![x] = NO_PID]
    BY <1>6 DEF DeleteSlave, SetRecord
  <2>2. QED
    BY <2>1, FreeKeeps DEF RegistryInv
<1>7. CASE UNCHANGED tableVars
  BY <1>1, <1>7 DEF tableVars, procVars, registryVars, RegistryLeft
<1>8. CASE MasterSteps
  <2>1. RegistryLeft
    BY <1>8 DEF MasterSteps, MasterInit, CreateProcessorThread, SyncThreadReturns,
                SendDisconnect, ProcessorThread, CompleteExchange, procVars,
                registryVars, RegistryLeft
  <2>2. QED
    BY <1>1, <2>1
<1>9. ASSUME \/ MasterStarted \/ ReceiveResponse \/ WaitTimeout \/ TestEnd
             \/ \E s \in Slaves : ConnectSlave(s) \/ DisconnectSlave(s)
             \/ \E n \in 1 .. MaxTest : StartTest(n)
             \/ \E x \in Indexes : TestConnect(x)
      PROVE  Goal
  <2>1. RegistryLeft
    BY <1>9 DEF MasterStarted, ReceiveResponse, WaitTimeout, EndWait, TestEnd,
                ConnectSlave, DisconnectSlave, StartTest, TestConnect,
                SendCommand, procVars, registryVars, RegistryLeft
  <2>2. QED
    BY <1>1, <2>1
<1>10. QED
  BY <1>2, <1>3, <1>4, <1>5, <1>6, <1>7, <1>8, <1>9
     DEF Next, ConfiguratorSteps, ThreadMisled, vars

LEMMA RegistryInvariant == Spec => []RegistryInv
<1>1. Init => RegistryInv
  BY DEF Init, RegistryInv, RecordsUnique
<1>2. RegistryInv /\ [Next]_vars => RegistryInv'
  BY StepKeepsRecords, TablesAssumption
<1>3. QED
  BY <1>1, <1>2, PTL DEF Spec

(* No pid is ever in two records (registerSlaveLocally), whatever is       *)
(* created, deleted and stopped in whatever order.                         *)
THEOREM UniqueRecordsCorrect == Spec => []RecordsUnique
<1>1. RegistryInv => RecordsUnique
  BY DEF RegistryInv
<1>2. QED
  BY <1>1, RegistryInvariant, PTL

(* A record in use is never given to another slave (assignLocalIdx).       *)
THEOREM RecordKeptCorrect == Spec => RecordKept
<1>1. RegistryInv /\ [Next]_vars =>
        [\A x \in Indexes :
            created_pid[x] # NO_PID => created_pid'[x] \in {created_pid[x], NO_PID}]_vars
  BY StepKeepsRecords, TablesAssumption
<1>2. QED
  BY <1>1, RegistryInvariant, PTL DEF Spec, RecordKept

=============================================================================

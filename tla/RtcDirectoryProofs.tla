------------------------- MODULE RtcDirectoryProofs -------------------------
(***************************************************************************)
(* Proofs that the tables of the processes agree with each other and with  *)
(* the processes that live, and that they implement module RtcDirectory,   *)
(* for every MAX_SLAVES and every number of slaves, masters and slaves     *)
(* asked for by the test.                                                  *)
(***************************************************************************)
EXTENDS RtcServerProofs

-----------------------------------------------------------------------------
(* Types. Those of the threads and of the records are in ServerInv.        *)
ControlTypeOK ==
    /\ shm_exists \in BOOLEAN /\ master_ready \in BOOLEAN
    /\ master_usr2 \in BOOLEAN /\ configurator_usr2 \in BOOLEAN
    /\ is_connected \in [Indexes -> BOOLEAN]
    /\ connected \in [Indexes -> BOOLEAN]
    /\ created_slaves_number \in Nat
    /\ master_pid \in Masters \cup Slaves \cup {NO_PID}
    /\ cfg_pc \in {"menu", "starting", "wait", "test_create", "test_connect"}
    /\ todo \in Nat /\ (cfg_pc = "test_create" => todo > 0)
    /\ place \in 0 .. MAX_SLAVES
    /\ request \in {"OTHER", "CONNECT_SLAVE", "DISCONNECT_SLAVE"}
    /\ affected \in Slaves \cup {NO_PID}
    /\ sync_pc \in {"sigwait", "created"}
    /\ exchange \subseteq Indexes

(* The slave that is to be disconnected has a segment until the command    *)
(* thread looks for it (master.c 226).                                     *)
OwnerListed ==
    master_usr2 /\ request = "DISCONNECT_SLAVE" =>
        \E x \in Indexes : seg_pid[x] = affected

TypeInv ==
    ServerInv /\ ControlTypeOK /\ OwnerListed /\ misled \in BOOLEAN

LEMMA TypesTogether == TypeInv => TypeOK
  BY DEF TypeInv, ServerInv, RegistryInv, ServerTypeOK, ControlTypeOK, TypeOK,
         Tables, Slaves

LEMMA LowByteNat ==
    ASSUME NEW n \in Nat, NEW b \in {0, 1}
    PROVE  WithLowByte(n, b) \in Nat
<1>1. n % 256 \in 0 .. n
  OBVIOUS
<1>2. QED
  BY <1>1 DEF WithLowByte

(* Steps of the configurator that change records: the signals, the types   *)
(* of the master's state and the segments are left alone.                  *)
LEMMA RecordTypes ==
    ASSUME ControlTypeOK, NEW x, NEW pid, NEW n \in Nat, SetRecord(x, pid, n)
    PROVE  /\ connected' \in [Indexes -> BOOLEAN]
           /\ created_slaves_number' \in Nat
  BY LowByteNat DEF SetRecord, ControlTypeOK

LEMMA TypesOfCreate ==
    ASSUME TypeInv, NEW s \in Slaves, CreateSlave(s) \/ TestCreate(s)
    PROVE  ControlTypeOK' /\ OwnerListed'
<1> USE DEF TypeInv
<1>1. /\ connected' \in [Indexes -> BOOLEAN]
      /\ created_slaves_number' \in Nat
      /\ master_pid' \in {master_pid, s}
  BY RecordTypes
     DEF CreateSlave, TestCreate, RegisterSlaveLocally, ControlTypeOK
<1>2. UNCHANGED <<shm_exists, is_connected, seg_pid, request, affected,
                  master_usr2, configurator_usr2, master_ready, sync_pc, exchange>>
  BY DEF CreateSlave, TestCreate, shmVars, ctlVars, masterVars, syncVars,
         threadVars
<1>3. /\ cfg_pc' \in {"menu", "test_create", "test_connect"}
      /\ todo' \in Nat /\ (cfg_pc' = "test_create" => todo' > 0)
      /\ place' \in {place, 0}
  <2>1. CASE CreateSlave(s)
    BY <2>1 DEF CreateSlave, AtMenu, testVars, ControlTypeOK
  <2>2. CASE TestCreate(s)
    BY <2>2 DEF TestCreate, ControlTypeOK
  <2>3. QED
    BY <2>1, <2>2
<1>4. place' \in 0 .. MAX_SLAVES
  BY <1>3, ProbeAssumption DEF ControlTypeOK
<1>5. ControlTypeOK'
  BY <1>1, <1>2, <1>3, <1>4 DEF ControlTypeOK
<1>6. OwnerListed'
  BY <1>2 DEF OwnerListed
<1>7. QED
  BY <1>5, <1>6

LEMMA TypesOfSendCommand ==
    ASSUME TypeInv, NEW r \in {"CONNECT_SLAVE", "DISCONNECT_SLAVE"},
           NEW s \in Slaves, SendCommand(r, s), place' \in 0 .. MAX_SLAVES,
           r = "DISCONNECT_SLAVE" => \E x \in Indexes : seg_pid[x] = s
    PROVE  ControlTypeOK' /\ OwnerListed'
<1> USE DEF TypeInv
<1>1. UNCHANGED <<shm_exists, is_connected, seg_pid, connected, master_pid,
                  created_slaves_number, todo, configurator_usr2, master_ready,
                  sync_pc, exchange>>
  BY DEF SendCommand, shmVars, registryVars, masterVars, syncVars, threadVars
<1>2. request' = r /\ affected' = s /\ cfg_pc' = "wait"
  BY DEF SendCommand
<1>3. master_usr2' \in BOOLEAN
  BY DEF SendCommand, KillUsr2
<1>4. ControlTypeOK'
  BY <1>1, <1>2, <1>3 DEF ControlTypeOK
<1>5. OwnerListed'
  BY <1>1, <1>2 DEF OwnerListed
<1>6. QED
  BY <1>4, <1>5

LEMMA TypesOfEndWait ==
    ASSUME TypeInv, ReceiveResponse \/ WaitTimeout
    PROVE  ControlTypeOK' /\ OwnerListed'
<1> USE DEF TypeInv
<1>1. UNCHANGED <<shm_exists, is_connected, seg_pid, master_pid, todo, request,
                  affected, master_usr2, master_ready, sync_pc, exchange>>
  BY DEF ReceiveResponse, WaitTimeout, EndWait, shmVars, masterVars, syncVars,
         threadVars
<1>2. configurator_usr2' \in BOOLEAN
  BY DEF ReceiveResponse, WaitTimeout, ControlTypeOK
<1>3. /\ connected' \in [Indexes -> BOOLEAN]
      /\ created_slaves_number' \in Nat
  <2>1. CASE ReceiveResponse
    BY <2>1, LowByteNat DEF ReceiveResponse, ControlTypeOK
  <2>2. CASE WaitTimeout
    BY <2>2 DEF WaitTimeout, ControlTypeOK
  <2>3. QED
    BY <2>1, <2>2
<1>4. /\ cfg_pc' \in {"menu", "test_connect"}
      /\ place' \in 0 .. MAX_SLAVES
  BY ProbeAssumption DEF ReceiveResponse, WaitTimeout, EndWait, ControlTypeOK
<1>5. ControlTypeOK'
  BY <1>1, <1>2, <1>3, <1>4 DEF ControlTypeOK
<1>6. OwnerListed'
  BY <1>1 DEF OwnerListed
<1>7. QED
  BY <1>5, <1>6

LEMMA TypesOfMaster ==
    ASSUME TypeInv, TypeInv => ServerInv', MasterSteps
    PROVE  ControlTypeOK' /\ OwnerListed'
<1> USE DEF TypeInv
<1>1. UNCHANGED <<connected, created_slaves_number, master_pid, cfg_pc, todo,
                  place, request, affected>>
  BY DEF MasterSteps, MasterInit, CreateProcessorThread, SyncThreadReturns,
         SendDisconnect, ProcessorThread, CompleteExchange, registryVars,
         testVars, ctlVars
<1>2. CASE MasterInit
  <2>1. ~master_usr2'
    BY <1>2 DEF MasterInit, ServerInv, OneCommand, Idle
  <2>2. ControlTypeOK'
    BY <1>1, <1>2 DEF MasterInit, ControlTypeOK, threadVars
  <2>3. QED
    BY <2>1, <2>2 DEF OwnerListed
<1>3. CASE CreateProcessorThread \/ SyncThreadReturns
  <2>1. /\ master_usr2' \in BOOLEAN /\ sync_pc' \in {"sigwait", "created"}
        /\ UNCHANGED <<shm_exists, is_connected, configurator_usr2, master_ready,
                       exchange>>
    BY <1>3
       DEF CreateProcessorThread, SyncThreadReturns, ControlTypeOK, shmVars,
           ctlVars, threadVars
  <2>2. ControlTypeOK'
    BY <1>1, <2>1 DEF ControlTypeOK
  <2>3. OwnerListed'
    BY <1>3
       DEF CreateProcessorThread, SyncThreadReturns, OwnerListed, shmVars,
           ctlVars
  <2>4. QED
    BY <2>2, <2>3
<1>4. CASE SendDisconnect
  <2> DEFINE x == getAssignedIdx(seg_pid, affected)
  <2>1. \E y \in Indexes : seg_pid[y] = affected
    BY <1>4 DEF SendDisconnect, OwnerListed
  <2>2. affected \in Pids /\ seg_pid \in Tables
    BY <1>4, PidFacts
       DEF SendDisconnect, ServerInv, ServerTypeOK, OneCommand, Idle
  <2>3. x \in Indexes
    BY <2>1, <2>2, GetAssignedCorrect
  <2>4. exchange' \subseteq Indexes
    BY <1>4, <2>3 DEF SendDisconnect, ControlTypeOK
  <2>5. ControlTypeOK'
    BY <1>1, <1>4, <2>4
       DEF SendDisconnect, ControlTypeOK, shmVars, ctlVars, syncVars
  <2>6. OwnerListed'
    BY <1>4 DEF SendDisconnect, OwnerListed
  <2>7. QED
    BY <2>5, <2>6
<1>5. CASE ProcessorThread
  <2>1. PICK s \in Slaves :
            \/ ReadSlavePid(s) \/ SearchOwn(s) \/ SearchFree(s)
            \/ WriteSegmentPid(s) \/ SendConnect(s)
    BY <1>5 DEF ProcessorThread
  <2>2. thr_pc[s] # "none"
    BY <2>1
       DEF ReadSlavePid, SearchOwn, SearchFree, WriteSegmentPid, SendConnect,
           ThrGoto
  <2>3. thr_idx[s] \in Indexes
    BY DEF ServerInv, ServerTypeOK
  <2>4. /\ is_connected' \in [Indexes -> BOOLEAN]
        /\ exchange' \subseteq Indexes
    BY <2>1, <2>3
       DEF ReadSlavePid, SearchOwn, SearchFree, WriteSegmentPid, SendConnect,
           ControlTypeOK
  <2>5. UNCHANGED <<shm_exists, master_usr2, configurator_usr2, master_ready, sync_pc>>
    BY <1>5 DEF ProcessorThread, ctlVars, syncVars
  <2>6. ~master_usr2
    BY <2>2, ThreadAlone
  <2>7. ControlTypeOK'
    BY <1>1, <2>4, <2>5 DEF ControlTypeOK
  <2>8. QED
    BY <2>5, <2>6, <2>7 DEF OwnerListed
<1>6. ASSUME NEW x \in Indexes, CompleteExchange(x)
      PROVE  ControlTypeOK' /\ OwnerListed'
  <2>1. ~master_usr2'
    BY <1>6 DEF CompleteExchange, ServerInv, OneCommand
  <2>2. ControlTypeOK'
    BY <1>1, <1>6 DEF CompleteExchange, ControlTypeOK, syncVars
  <2>3. QED
    BY <2>1, <2>2 DEF OwnerListed
<1>7. QED
  BY <1>2, <1>3, <1>4, <1>5, <1>6 DEF MasterSteps

LEMMA TypeStep == TypeInv /\ [Next]_vars => TypeInv'
<1>0. ASSUME TypeInv, [Next]_vars PROVE misled' \in BOOLEAN
  BY <1>0 DEF TypeInv, Next, ThreadMisled, vars
<1> SUFFICES ASSUME TypeInv, [Next]_vars PROVE ControlTypeOK' /\ OwnerListed'
  BY <1>0, ServerStep DEF TypeInv
<1> USE DEF TypeInv
<1>1. CASE MasterSteps
  BY <1>1, TypesOfMaster, ServerStep
<1>2. CASE UNCHANGED tableVars
  BY <1>2
     DEF tableVars, shmVars, registryVars, testVars, ctlVars, masterVars, threadVars,
         syncVars, ControlTypeOK, OwnerListed
<1>3. ASSUME NEW m \in Masters, StartMaster(m)
      PROVE  ControlTypeOK' /\ OwnerListed'
  <2>1. ControlTypeOK'
    BY <1>3
       DEF StartMaster, shmVars, registryVars, testVars, ctlVars, threadVars,
           ControlTypeOK
  <2>2. OwnerListed'
    BY <1>3 DEF StartMaster, shmVars, ctlVars, OwnerListed
  <2>3. QED
    BY <2>1, <2>2
<1>4. CASE MasterStarted \/ TestEnd \/ \E n \in 1 .. MaxTest : StartTest(n)
  <2>1. UNCHANGED <<shmVars, registryVars, master_pid, request, affected,
                    master_usr2, masterVars>>
    BY <1>4 DEF MasterStarted, TestEnd, StartTest, ctlVars
  <2>2. /\ configurator_usr2' \in BOOLEAN
        /\ cfg_pc' \in {"menu", "test_create"}
        /\ todo' \in Nat /\ (cfg_pc' = "test_create" => todo' > 0)
        /\ place' \in 0 .. MAX_SLAVES
    <3>1. CASE MasterStarted
      BY <3>1 DEF MasterStarted, testVars, ControlTypeOK
    <3>2. CASE TestEnd
      BY <3>2, ProbeAssumption DEF TestEnd, ctlVars, ControlTypeOK
    <3>3. ASSUME NEW n \in 1 .. MaxTest, StartTest(n)
          PROVE  /\ configurator_usr2' = configurator_usr2
                 /\ cfg_pc' = "test_create"
                 /\ todo' = n /\ place' = place
      BY <3>3 DEF StartTest, ctlVars
    <3>4. QED
      BY <1>4, <3>1, <3>2, <3>3 DEF ControlTypeOK
  <2>3. ControlTypeOK'
    BY <2>1, <2>2
       DEF ControlTypeOK, shmVars, registryVars, masterVars, threadVars, syncVars
  <2>4. OwnerListed'
    BY <2>1 DEF OwnerListed, shmVars
  <2>5. QED
    BY <2>3, <2>4
<1>5. CASE StopMaster
  <2>1. UNCHANGED <<shmVars, cfg_pc, testVars, ctlVars, master_usr2, syncVars,
                    exchange>>
    BY <1>5 DEF StopMaster
  <2>2. /\ connected' \in [Indexes -> BOOLEAN]
        /\ created_slaves_number' \in Nat
        /\ master_pid' = NO_PID
    BY <1>5, LowByteNat DEF StopMaster, ControlTypeOK
  <2>3. ControlTypeOK'
    BY <2>1, <2>2 DEF ControlTypeOK, shmVars, testVars, ctlVars, syncVars
  <2>4. OwnerListed'
    BY <2>1 DEF OwnerListed, shmVars, ctlVars
  <2>5. QED
    BY <2>3, <2>4
<1>6. ASSUME NEW s \in Slaves, DeleteSlave(s)
      PROVE  ControlTypeOK' /\ OwnerListed'
  <2>1. UNCHANGED <<shmVars, master_pid, cfg_pc, testVars, ctlVars, master_usr2,
                    masterVars>>
    BY <1>6 DEF DeleteSlave
  <2>2. /\ connected' \in [Indexes -> BOOLEAN]
        /\ created_slaves_number' \in Nat
    BY <1>6, RecordTypes DEF DeleteSlave, ControlTypeOK
  <2>3. ControlTypeOK'
    BY <2>1, <2>2
       DEF ControlTypeOK, shmVars, testVars, ctlVars, masterVars, threadVars,
           syncVars
  <2>4. OwnerListed'
    BY <2>1 DEF OwnerListed, shmVars, ctlVars
  <2>5. QED
    BY <2>3, <2>4
<1>7. ASSUME NEW s \in Slaves, ConnectSlave(s) \/ DisconnectSlave(s)
      PROVE  ControlTypeOK' /\ OwnerListed'
  <2>1. place' \in 0 .. MAX_SLAVES
    BY <1>7 DEF ConnectSlave, DisconnectSlave, ControlTypeOK
  <2>2. QED
    BY <1>7, <2>1, TypesOfSendCommand DEF ConnectSlave, DisconnectSlave
<1>8. ASSUME NEW x \in Indexes, TestConnect(x)
      PROVE  ControlTypeOK' /\ OwnerListed'
  <2>1. place' \in 0 .. MAX_SLAVES
    BY <1>8, ProbeAssumption DEF TestConnect, Indexes
  <2>2. created_pid[x] \in Slaves
    BY <1>8 DEF TestConnect, Disconnected, ServerInv, RegistryInv
  <2>3. QED
    BY <1>8, <2>1, <2>2, TypesOfSendCommand DEF TestConnect
<1>9. QED
  BY <1>1, <1>2, <1>3, <1>4, <1>5, <1>6, <1>7, <1>8, TypesOfCreate, TypesOfEndWait
     DEF Next, ConfiguratorSteps, ThreadMisled, vars

LEMMA TypeInitially == Init => TypeInv
<1> SUFFICES ASSUME Init PROVE ControlTypeOK /\ OwnerListed
  BY ServerInitially DEF TypeInv, Init
<1>1. MAX_SLAVES \in 0 .. MAX_SLAVES
  BY ProbeAssumption
<1>2. ControlTypeOK
  BY <1>1 DEF Init, ControlTypeOK
<1>3. QED
  BY <1>2 DEF Init, OwnerListed

(* Every variable keeps its type, whatever the user asks for and in        *)
(* whatever order, with or without a master and with more slaves than      *)
(* records: what a search that fails may overwrite (created_slave[-1],     *)
(* configurator.c 61) keeps its type too, and no segment outside the array *)
(* is ever used.                                                           *)
THEOREM TablesTypeCorrect == Spec => []TypeOK
  BY TypeInitially, TypeStep, TypesTogether, PTL DEF Spec

-----------------------------------------------------------------------------
(* The rest is about a user who gives other commands only while a master   *)
(* runs and does not ask the test for more slaves than there is room for;  *)
(* without the one or the other TLC finds each of these claims violated.   *)
Polite == MasterFirst /\ ~Overfill

Running == masters # {} /\ master_ready

(* The slaves the master is connected to.                                  *)
Joined ==
    IF masters = {} \/ ~master_ready THEN {}
    ELSE {seg_pid[x] : x \in {y \in Indexes : is_connected[y]}}

(* The configurator knows the one master there is.                         *)
MasterKnown ==
    /\ master_pid \in Masters \cup {NO_PID}
    /\ masters = IF master_pid = NO_PID THEN {} ELSE {master_pid}
    /\ cfg_pc # "menu" => master_pid # NO_PID
    /\ master_ready => shm_exists

RoomKept ==
    /\ RegistryExact
    /\ cfg_pc = "test_create" => created_slaves_number + todo <= MAX_SLAVES

(* No two segments are of one pid; one that is connected is of a slave that *)
(* lives, and one that is not has its exchange before it.                  *)
SegmentsUnique ==
    \A x, y \in Indexes :
        seg_pid[x] = seg_pid[y] /\ x # y => seg_pid[x] = NO_PID

ConnectedLive == \A x \in Indexes : is_connected[x] => seg_pid[x] \in alive

OwnedForReason ==
    \A x \in Owned :
        \/ is_connected[x]
        \/ x \in exchange
        \/ \E s \in Slaves : thr_pc[s] = "send" /\ thr_idx[s] = x

SegmentsSound == Running => SegmentsUnique /\ ConnectedLive /\ OwnedForReason

(* What is under way is about a slave that lives, and the configurator is  *)
(* signalled when, and only when, what was asked for is done.              *)
CommandSound ==
    cfg_pc = "wait" =>
       /\ request \in {"CONNECT_SLAVE", "DISCONNECT_SLAVE"}
       /\ affected \in alive
       /\ affected \in Joined <=> (configurator_usr2 <=> request = "CONNECT_SLAVE")
       /\ \A x \in exchange :
             /\ seg_pid[x] = affected
             /\ is_connected[x] <=> request = "DISCONNECT_SLAVE"
       /\ request = "DISCONNECT_SLAVE" =>
             configurator_usr2 \/ master_usr2 \/ exchange # {}

(* A thread works for the slave of the command or for the stale value, and *)
(* that one has no segment until the thread gives it one.                  *)
WorksFor(s) ==
    /\ request = "CONNECT_SLAVE"
    /\ slot \in {affected, Garbage}
    /\ thr_pc[s] # "start" => thr_pid[s] \in {affected, Garbage}
    /\ thr_pc[s] \in {"assign", "write"} => thr_pid[s] \notin Attached
    /\ thr_pc[s] \in {"write", "send"} => ~is_connected[thr_idx[s]]
    /\ thr_pc[s] = "send" => seg_pid[thr_idx[s]] = thr_pid[s]

ThreadSound == \A s \in Slaves : thr_pc[s] # "none" => WorksFor(s)

(* A record says that its slave is connected if and only if it is, but for *)
(* the slave of a command under way.                                       *)
RecordsSound ==
    \A x \in Indexes :
       connected[x] <=>
          IF cfg_pc = "wait" /\ created_pid[x] = affected
          THEN request = "DISCONNECT_SLAVE"
          ELSE created_pid[x] \in Joined

Sound ==
    /\ MasterKnown
    /\ RoomKept
    /\ SegmentsSound
    /\ CommandSound
    /\ ThreadSound
    /\ RecordsSound

DirectoryInv == TypeInv /\ Sound

(* What a step has to do to the variables of RtcDirectory.                 *)
Mapped == Directory!Next \/ UNCHANGED <<Running, Recorded, Joined>>

-----------------------------------------------------------------------------
(* Counting.                                                               *)
LEMMA IndexesCounted == IsFiniteSet(Indexes) /\ Cardinality(Indexes) = MAX_SLAVES
  BY FS_Interval, ProbeAssumption DEF Indexes

LEMMA SameCount ==
    ASSUME NEW S
    PROVE  Directory!Cardinality(S) = Cardinality(S)
  BY DEF Directory!Cardinality, Cardinality

(* A table of fewer different pids than places has a free place.           *)
LEMMA FreePlace ==
    ASSUME NEW table \in Tables, NEW S, IsFiniteSet(S), Cardinality(S) < MAX_SLAVES,
           \A x \in Indexes : table[x] \in S \cup {NO_PID},
           \A x, y \in Indexes :
              table[x] = table[y] /\ x # y => table[x] = NO_PID
    PROVE  \E x \in Indexes : table[x] = NO_PID
<1> SUFFICES ASSUME \A x \in Indexes : table[x] # NO_PID PROVE FALSE
  OBVIOUS
<1>1. table \in [Indexes -> S]
  BY DEF Tables
<1>2. \E x, y \in Indexes : x # y /\ table[x] = table[y]
  BY <1>1, IndexesCounted, FS_PigeonHole
<1>3. QED
  BY <1>2

LEMMA RecordedFinite ==
    ASSUME created_pid \in Tables
    PROVE  IsFiniteSet(Recorded)
<1> DEFINE I == {created_pid[x] : x \in Indexes}
<1>1. created_pid \in Surjection(Indexes, I)
  BY DEF Surjection, Tables
<1>2. IsFiniteSet(I)
  BY <1>1, IndexesCounted, FS_Surjection
<1>3. QED
  BY <1>2, FS_RemoveElement DEF Recorded

-----------------------------------------------------------------------------
(* What the invariant says in the words of the steps below.                *)
LEMMA DirectoryFacts ==
    ASSUME DirectoryInv
    PROVE  /\ created_pid \in Tables /\ seg_pid \in Tables
           /\ created_slaves_number \in Nat
           /\ connected \in [Indexes -> BOOLEAN]
           /\ is_connected \in [Indexes -> BOOLEAN]
           /\ alive = Recorded
           /\ alive \subseteq Slaves /\ alive \subseteq forked
           /\ NO_PID \notin Slaves
           /\ \A p \in alive : \E x \in Indexes : created_pid[x] = p
           /\ RecordsUnique
<1>1. RegistryInv /\ ServerTypeOK /\ ControlTypeOK /\ RegistryExact
  BY DEF DirectoryInv, Sound, RoomKept, TypeInv, ServerInv
<1>2. Recorded \subseteq forked \cap Slaves
  BY <1>1 DEF RegistryInv, Recorded
<1>3. QED
  BY <1>1, <1>2, RegistryTables, PidFacts
     DEF RegistryExact, ServerTypeOK, ControlTypeOK, Recorded

LEMMA JoinedMember ==
    ASSUME NEW p
    PROVE  p \in Joined <=>
              Running /\ \E x \in Indexes : is_connected[x] /\ seg_pid[x] = p
  BY DEF Joined, Running

LEMMA JoinedLive ==
    ASSUME DirectoryInv
    PROVE  Joined \subseteq alive
  BY JoinedMember DEF DirectoryInv, Sound, SegmentsSound, ConnectedLive

(* With a command to give there is a master to give it to.                 *)
LEMMA MasterServes ==
    ASSUME DirectoryInv, master_pid # NO_PID, cfg_pc # "starting"
    PROVE  /\ Running /\ shm_exists
           /\ master_pid \in Masters /\ masters = {master_pid}
           /\ master_pid \notin alive
<1>1. masters = {master_pid} /\ master_pid \in Masters
  BY DEF DirectoryInv, Sound, MasterKnown
<1>2. master_ready
  BY <1>1 DEF DirectoryInv, TypeInv, ServerInv, ReadyFirst
<1>3. QED
  BY <1>1, <1>2, PidFacts, DirectoryFacts
     DEF Running, DirectoryInv, Sound, MasterKnown

(* With nothing under way, who has a segment is connected.                 *)
LEMMA SegmentsAtRest ==
    ASSUME DirectoryInv, Idle, Running
    PROVE  /\ \A x \in Indexes : is_connected[x] <=> seg_pid[x] # NO_PID
           /\ Attached = Joined
<1>1. \A x \in Indexes : seg_pid[x] # NO_PID => is_connected[x]
  BY DEF DirectoryInv, Sound, SegmentsSound, OwnedForReason, Owned, Idle
<1>2. \A x \in Indexes : is_connected[x] => seg_pid[x] # NO_PID
  BY DirectoryFacts DEF DirectoryInv, Sound, SegmentsSound, ConnectedLive
<1>3. Attached = Joined
  BY <1>1, <1>2, JoinedMember DEF Attached
<1>4. QED
  BY <1>1, <1>2, <1>3

LEMMA NotWaiting ==
    ASSUME DirectoryInv, cfg_pc # "wait"
    PROVE  /\ Idle /\ (configurator_usr2 => cfg_pc = "starting")
           /\ \A x \in Indexes : connected[x] <=> created_pid[x] \in Joined
  BY DEF DirectoryInv, TypeInv, ServerInv, OneCommand, Sound, RecordsSound

(* Steps of the configurator leave the threads and the segments alone.     *)
LEMMA SegmentsLeft ==
    ASSUME DirectoryInv, Idle, alive \subseteq alive',
           UNCHANGED <<masters, master_ready, seg_pid, is_connected, thr_pc,
                       thr_idx, exchange>>
    PROVE  /\ ThreadSound' /\ SegmentsSound'
           /\ Joined' = Joined /\ Running' = Running
<1>1. ThreadSound'
  BY DEF ThreadSound, Idle
<1>2. SegmentsSound'
  BY DEF DirectoryInv, Sound, SegmentsSound, Running, SegmentsUnique,
         ConnectedLive, OwnedForReason, Owned
<1>3. QED
  BY <1>1, <1>2 DEF Joined, Running

LEMMA RegistryLeftExact ==
    ASSUME RegistryExact, UNCHANGED <<created_pid, alive, created_slaves_number>>
    PROVE  RegistryExact' /\ Recorded' = Recorded
  BY DEF RegistryExact, Recorded, RecordsUnique

-----------------------------------------------------------------------------
(* The configurator.                                                       *)
LEMMA StartMasterSound ==
    ASSUME DirectoryInv, NEW m \in Masters, StartMaster(m)
    PROVE  Sound' /\ Mapped
<1>1. /\ cfg_pc = "menu" /\ cfg_pc' = "starting"
      /\ master_pid = NO_PID /\ master_pid' = m
      /\ master_ready' = FALSE
      /\ UNCHANGED <<alive, shm_exists, seg_pid, is_connected, created_pid, connected,
                     created_slaves_number, todo, thr_pc>>
  BY DEF StartMaster, shmVars, registryVars, testVars, threadVars
<1>2. masters = {} /\ masters' = {m} /\ m # NO_PID
  BY <1>1, TablesAssumption
     DEF StartMaster, DirectoryInv, Sound, MasterKnown
<1>3. Joined = {} /\ Joined' = {} /\ ~Running' /\ Running' = Running
  BY <1>1, <1>2 DEF Joined, Running
<1>4. MasterKnown'
  BY <1>1, <1>2 DEF MasterKnown
<1>5. RoomKept' /\ Recorded' = Recorded
  BY <1>1, RegistryLeftExact DEF DirectoryInv, Sound, RoomKept
<1>6. SegmentsSound' /\ CommandSound'
  BY <1>1, <1>3 DEF SegmentsSound, CommandSound
<1>7. ThreadSound'
  BY <1>1, NotWaiting DEF ThreadSound, Idle
<1>8. RecordsSound'
  BY <1>1, <1>3, NotWaiting DEF RecordsSound
<1>9. QED
  BY <1>3, <1>4, <1>5, <1>6, <1>7, <1>8 DEF Sound, Mapped

(* The steps that only move the configurator.                              *)
LEMMA MovesSound ==
    ASSUME DirectoryInv, Polite,
           \/ MasterStarted \/ TestEnd
           \/ \E n \in 1 .. MaxTest : StartTest(n)
    PROVE  Sound' /\ Mapped
<1>1. UNCHANGED <<alive, masters, master_ready, shm_exists, seg_pid, is_connected,
                  created_pid, connected, created_slaves_number, master_pid,
                  thr_pc, thr_idx, exchange>>
  BY DEF MasterStarted, TestEnd, StartTest, procVars, shmVars, registryVars,
         masterVars, threadVars, syncVars
<1>2. /\ cfg_pc # "wait" /\ cfg_pc' \in {"menu", "test_create"}
      /\ cfg_pc' = "test_create" => master_pid # NO_PID
  BY DEF MasterStarted, TestEnd, StartTest, AtMenu, Polite
<1>3. SegmentsSound' /\ ThreadSound' /\ Joined' = Joined /\ Running' = Running
  BY <1>1, <1>2, NotWaiting, SegmentsLeft
<1>4. MasterKnown'
  BY <1>1, <1>2 DEF DirectoryInv, Sound, MasterKnown
<1>5. RegistryExact' /\ Recorded' = Recorded
  BY <1>1, RegistryLeftExact DEF DirectoryInv, Sound, RoomKept
<1>6. RoomKept'
  <2>1. ASSUME NEW n \in 1 .. MaxTest, StartTest(n)
        PROVE  created_slaves_number' + todo' <= MAX_SLAVES
    BY <2>1 DEF StartTest, registryVars, Polite
  <2>2. CASE MasterStarted \/ TestEnd
    BY <1>5, <2>2 DEF MasterStarted, TestEnd, RoomKept
  <2>3. QED
    BY <1>5, <2>1, <2>2 DEF RoomKept
<1>7. CommandSound' /\ RecordsSound'
  BY <1>1, <1>2, <1>3, NotWaiting DEF CommandSound, RecordsSound
<1>8. QED
  BY <1>3, <1>4, <1>5, <1>6, <1>7 DEF Sound, Mapped

LEMMA StopMasterSound ==
    ASSUME DirectoryInv, StopMaster
    PROVE  Sound' /\ Mapped
<1>1. /\ cfg_pc = "menu" /\ cfg_pc' = "menu" /\ master_pid' = NO_PID
      /\ Idle /\ Running /\ shm_exists
      /\ master_pid \notin alive /\ masters = {master_pid}
      /\ UNCHANGED <<shm_exists, seg_pid, is_connected, master_ready, thr_pc>>
  BY NotWaiting, MasterServes DEF StopMaster, AtMenu, shmVars, syncVars
<1>2. Attached = Joined /\ Attached \subseteq alive
  BY <1>1, SegmentsAtRest, JoinedLive
<1> DEFINE At(p) == getAssignedIdx(created_pid, p)
<1>3. \A p \in Attached : At(p) \in Indexes /\ created_pid[At(p)] = p
  <2>1. SUFFICES ASSUME NEW p \in Attached
                 PROVE  At(p) \in Indexes /\ created_pid[At(p)] = p
    OBVIOUS
  <2>2. p \in Pids /\ p \in {created_pid[y] : y \in Indexes}
    BY <1>2, DirectoryFacts, PidFacts
  <2>3. QED
    BY <2>2, GetAssignedCorrect, DirectoryFacts
<1>4. Unrecorded = {}
  BY <1>3, ProbeAssumption DEF Unrecorded, Indexes, NO_IDX
<1>5. \A x \in Indexes : x \in Freed <=> created_pid[x] \in Attached
  <2>1. NO_PID \notin Attached
    BY DEF Attached
  <2>2. QED
    BY <1>3, <2>1, DirectoryFacts DEF Freed, RecordsUnique
<1>6. /\ alive' = alive \ Attached /\ masters' = {}
      /\ created_slaves_number' = created_slaves_number
  <2>1. alive' = alive \ (Attached \cup {master_pid}) /\ masters' = {}
    BY <1>1, <1>4 DEF StopMaster
  <2>2. QED
    BY <1>1, <1>4, <2>1 DEF StopMaster
<1>7. \A x \in Indexes :
         /\ created_pid'[x] = IF created_pid[x] \in Attached THEN NO_PID
                              ELSE created_pid[x]
         /\ ~connected'[x]
  BY <1>1, <1>2, <1>5, NotWaiting DEF StopMaster
<1>8. Recorded' = Recorded \ Attached
  BY <1>7 DEF Recorded
<1>9. RegistryExact'
  <2>1. IsFiniteSet(Recorded)
    BY RecordedFinite, DirectoryFacts
  <2>2. Cardinality(Recorded') <= Cardinality(Recorded)
    BY <1>8, <2>1, FS_Subset
  <2>3. Cardinality(Recorded) \in Nat /\ Cardinality(Recorded') \in Nat
    BY <1>8, <2>1, FS_Subset, FS_CardinalityType
  <2>4. /\ Cardinality(Recorded) <= created_slaves_number
        /\ created_slaves_number <= MAX_SLAVES
    BY DEF DirectoryInv, Sound, RoomKept, RegistryExact
  <2>5. Cardinality(Recorded') <= created_slaves_number'
    BY <1>6, <2>2, <2>3, <2>4, DirectoryFacts
  <2>6. RecordsUnique'
    BY <1>7, DirectoryFacts DEF RecordsUnique
  <2>7. QED
    BY <1>6, <1>8, <2>4, <2>5, <2>6, DirectoryFacts DEF RegistryExact
<1>10. ~Running' /\ Joined' = {}
  BY <1>6 DEF Running, Joined
<1>11. MasterKnown' /\ RoomKept'
  BY <1>1, <1>6, <1>9 DEF MasterKnown, RoomKept, DirectoryInv, Sound
<1>12. SegmentsSound' /\ CommandSound' /\ ThreadSound' /\ RecordsSound'
  BY <1>1, <1>7, <1>10
     DEF SegmentsSound, CommandSound, ThreadSound, RecordsSound, Idle
<1>13. Directory!ShutDown
  BY <1>1, <1>2, <1>6, <1>8, <1>10 DEF Directory!ShutDown, Running, Joined
<1>14. QED
  BY <1>11, <1>12, <1>13 DEF Sound, Mapped, Directory!Next

(* A slave that is created finds a place, and joins.                       *)
LEMMA CreateSound ==
    ASSUME DirectoryInv, Polite, NEW s \in Slaves, CreateSlave(s) \/ TestCreate(s)
    PROVE  Sound' /\ Mapped
<1>1. /\ cfg_pc \in {"menu", "test_create"} /\ master_pid # NO_PID
      /\ created_slaves_number < MAX_SLAVES
  <2>1. CASE CreateSlave(s)
    BY <2>1 DEF CreateSlave, AtMenu, Polite
  <2>2. CASE TestCreate(s)
    BY <2>2, ProbeAssumption
       DEF TestCreate, DirectoryInv, Sound, MasterKnown, RoomKept, TypeInv,
           ControlTypeOK
  <2>3. QED
    BY <2>1, <2>2
<1>2. Running /\ shm_exists /\ Idle
  BY <1>1, MasterServes, NotWaiting
<1>3. /\ s \notin forked /\ s \notin alive /\ s \notin Recorded
      /\ alive' = alive \cup {s}
  BY <1>2, DirectoryFacts DEF CreateSlave, TestCreate, ForkSlave
<1>4. /\ UNCHANGED <<masters, master_ready, shm_exists, seg_pid, is_connected,
                     thr_pc, thr_idx, exchange>>
      /\ cfg_pc' \in {"menu", "test_create", "test_connect"}
  BY DEF CreateSlave, TestCreate, AtMenu, shmVars, masterVars, threadVars,
         syncVars
<1>5. SegmentsSound' /\ ThreadSound' /\ Joined' = Joined /\ Running' = Running
  BY <1>2, <1>3, <1>4, SegmentsLeft
<1>6. /\ IsFiniteSet(Recorded) /\ Cardinality(Recorded) \in Nat
      /\ Cardinality(Recorded) <= created_slaves_number
  BY RecordedFinite, FS_CardinalityType, DirectoryFacts
     DEF DirectoryInv, Sound, RoomKept, RegistryExact
<1>7. Cardinality(Recorded) < MAX_SLAVES
  BY <1>1, <1>6, DirectoryFacts, ProbeAssumption
<1>8. PICK x \in Indexes :
         /\ created_pid[x] = NO_PID
         /\ created_pid' = [created_pid EXCEPT ![x] = s]
         /\ connected' = [connected EXCEPT ![x] = FALSE]
         /\ created_slaves_number' = created_slaves_number + 1
         /\ master_pid' = master_pid
  <2> DEFINE x == assignIdx(created_pid, s)
  <2>1. \A y \in Indexes : created_pid[y] \in Recorded \cup {NO_PID}
    BY DEF Recorded
  <2>2. \E y \in Indexes : created_pid[y] = NO_PID
    BY <1>6, <1>7, <2>1, FreePlace, DirectoryFacts DEF RecordsUnique
  <2>3. x \in Indexes /\ created_pid[x] = NO_PID
    BY <2>2, AssignCorrect, DirectoryFacts, PidFacts
  <2>4. x # NO_IDX
    BY <2>3, ProbeAssumption DEF Indexes, NO_IDX
  <2>5. QED
    BY <2>3, <2>4
       DEF CreateSlave, TestCreate, RegisterSlaveLocally, SetRecord
<1>9. \A y \in Indexes :
         /\ created_pid'[y] = IF y = x THEN s ELSE created_pid[y]
         /\ connected'[y] = IF y = x THEN FALSE ELSE connected[y]
  BY <1>8, DirectoryFacts DEF Tables
<1>10. Recorded' = Recorded \cup {s}
  BY <1>8, <1>9, DirectoryFacts DEF Recorded
<1>11. RegistryExact'
  <2>1. Cardinality(Recorded') = Cardinality(Recorded) + 1
    BY <1>3, <1>6, <1>10, FS_AddElement
  <2>2. RecordsUnique'
    <3>1. \A y \in Indexes : created_pid[y] # s
      BY <1>3, DirectoryFacts DEF Recorded
    <3>2. QED
      BY <1>9, <3>1, DirectoryFacts DEF RecordsUnique
  <2>3. QED
    BY <1>1, <1>3, <1>6, <1>8, <1>10, <2>1, <2>2, DirectoryFacts, ProbeAssumption
       DEF RegistryExact
<1>12. RoomKept'
  <2>1. CASE CreateSlave(s)
    BY <1>11, <2>1 DEF CreateSlave, AtMenu, RoomKept
  <2>2. CASE TestCreate(s)
    <3>1. /\ todo' = todo - 1 /\ todo \in Nat /\ cfg_pc = "test_create"
          /\ created_slaves_number + todo <= MAX_SLAVES
      BY <2>2
         DEF TestCreate, DirectoryInv, Sound, RoomKept, TypeInv, ControlTypeOK
    <3>2. created_slaves_number' + todo' <= MAX_SLAVES
      BY <1>8, <3>1, DirectoryFacts, ProbeAssumption
    <3>3. QED
      BY <1>11, <3>2 DEF RoomKept
  <2>3. QED
    BY <2>1, <2>2
<1>13. MasterKnown'
  BY <1>1, <1>4, <1>8 DEF DirectoryInv, Sound, MasterKnown
<1>14. CommandSound' /\ RecordsSound'
  <2>1. \A y \in Indexes : connected[y] <=> created_pid[y] \in Joined
    BY <1>1, NotWaiting
  <2>2. s \notin Joined
    BY <1>3, JoinedLive
  <2>3. \A y \in Indexes : connected'[y] <=> created_pid'[y] \in Joined'
    BY <1>5, <1>9, <2>1, <2>2
  <2>4. QED
    BY <1>4, <2>3 DEF CommandSound, RecordsSound
<1>15. Directory!Join(s)
  BY <1>3, <1>5, <1>7, <1>10, SameCount DEF Directory!Join, Running, Joined
<1>16. QED
  BY <1>5, <1>12, <1>13, <1>14, <1>15 DEF Sound, Mapped, Directory!Next

(* A slave that is deleted is not connected, and leaves.                   *)
LEMMA DeleteSound ==
    ASSUME DirectoryInv, Polite, NEW s \in Slaves, DeleteSlave(s)
    PROVE  Sound' /\ Mapped
<1>1. /\ cfg_pc = "menu" /\ cfg_pc' = "menu" /\ master_pid # NO_PID
      /\ UNCHANGED <<shm_exists, seg_pid, is_connected, master_pid, master_ready,
                     thr_pc, thr_idx, exchange>>
  BY DEF DeleteSlave, AtMenu, Polite, shmVars, masterVars, threadVars, syncVars
<1>2. Running /\ Idle /\ masters = {master_pid} /\ master_pid \in Masters
  BY <1>1, MasterServes, NotWaiting
<1>3. PICK x \in Indexes :
         /\ created_pid[x] = s /\ ~connected[x]
         /\ created_pid' = [created_pid EXCEPT ![x] = NO_PID]
         /\ connected' = [connected EXCEPT ![x] = FALSE]
         /\ created_slaves_number' = created_slaves_number
  <2> DEFINE x == getAssignedIdx(created_pid, s)
  <2>1. x \in Indexes /\ ~connected[x]
    BY DEF DeleteSlave, Disconnected
  <2>2. x # NO_IDX
    BY <2>1, ProbeAssumption DEF Indexes, NO_IDX
  <2>3. created_pid[x] = s
    BY <2>2, GetAssignedCorrect, DirectoryFacts, PidFacts
  <2>4. QED
    BY <2>1, <2>2, <2>3 DEF DeleteSlave, SetRecord
<1>4. s \notin Joined
  BY <1>1, <1>3, NotWaiting
<1>5. alive' = alive \ {s} /\ masters' = masters
  BY <1>2, DirectoryFacts, PidFacts DEF DeleteSlave, KillInt
<1>6. \A y \in Indexes :
         /\ created_pid'[y] = IF y = x THEN NO_PID ELSE created_pid[y]
         /\ connected'[y] = IF y = x THEN FALSE ELSE connected[y]
         /\ created_pid[y] = s => y = x
  BY <1>3, DirectoryFacts DEF Tables, RecordsUnique
<1>7. s \in Recorded /\ Recorded' = Recorded \ {s}
  BY <1>3, <1>6, DirectoryFacts DEF Recorded
<1>8. RegistryExact'
  <2>1. /\ IsFiniteSet(Recorded) /\ Cardinality(Recorded) \in Nat
        /\ Cardinality(Recorded) <= created_slaves_number
        /\ created_slaves_number <= MAX_SLAVES
    BY RecordedFinite, FS_CardinalityType, DirectoryFacts
       DEF DirectoryInv, Sound, RoomKept, RegistryExact
  <2>2. Cardinality(Recorded') = Cardinality(Recorded) - 1
    BY <1>7, <2>1, FS_RemoveElement
  <2>3. Cardinality(Recorded') <= created_slaves_number'
    BY <1>3, <2>1, <2>2, DirectoryFacts
  <2>4. RecordsUnique'
    BY <1>6, DirectoryFacts DEF RecordsUnique
  <2>5. QED
    BY <1>3, <1>5, <1>7, <2>1, <2>3, <2>4, DirectoryFacts DEF RegistryExact
<1>9. Joined' = Joined /\ Running' = Running
  BY <1>1, <1>5 DEF Joined, Running
<1>10. SegmentsSound'
  <2>1. \A y \in Indexes : is_connected[y] => seg_pid[y] # s
    BY <1>2, <1>4, JoinedMember
  <2>2. ConnectedLive'
    BY <1>1, <1>2, <1>5, <2>1
       DEF DirectoryInv, Sound, SegmentsSound, ConnectedLive
  <2>3. SegmentsUnique' /\ OwnedForReason'
    BY <1>1, <1>2
       DEF DirectoryInv, Sound, SegmentsSound, SegmentsUnique, OwnedForReason,
           Owned
  <2>4. QED
    BY <2>2, <2>3 DEF SegmentsSound
<1>11. MasterKnown' /\ RoomKept' /\ CommandSound'
  BY <1>1, <1>5, <1>8
     DEF DirectoryInv, Sound, MasterKnown, RoomKept, CommandSound
<1>12. ThreadSound'
  BY <1>1, <1>2 DEF ThreadSound, Idle
<1>13. RecordsSound'
  <2>1. NO_PID \notin Joined
    BY JoinedLive, DirectoryFacts
  <2>2. \A y \in Indexes : connected'[y] <=> created_pid'[y] \in Joined'
    BY <1>1, <1>6, <1>9, <2>1, NotWaiting
  <2>3. QED
    BY <1>1, <2>2 DEF RecordsSound
<1>14. Directory!Leave(s)
  BY <1>4, <1>7, <1>9 DEF Directory!Leave, Running, Joined
<1>15. QED
  BY <1>10, <1>11, <1>12, <1>13, <1>14 DEF Sound, Mapped, Directory!Next

(* A command about a slave that lives reaches the master.                  *)
LEMMA SendCommandSound ==
    ASSUME DirectoryInv, NEW r \in {"CONNECT_SLAVE", "DISCONNECT_SLAVE"},
           NEW s \in alive, SendCommand(r, s),
           cfg_pc \in {"menu", "test_connect"}, master_pid # NO_PID,
           s \in Joined <=> r = "DISCONNECT_SLAVE"
    PROVE  Sound' /\ Mapped
<1>1. /\ Running /\ master_pid \in Masters /\ masters = {master_pid}
      /\ Idle /\ ~configurator_usr2
      /\ master_pid \notin alive
  BY MasterServes, NotWaiting
<1>2. /\ request' = r /\ affected' = s /\ cfg_pc' = "wait"
      /\ UNCHANGED <<masters, shm_exists, seg_pid, is_connected, created_pid,
                     connected, created_slaves_number, master_pid,
                     configurator_usr2, master_ready, thr_pc, thr_idx, exchange>>
  BY DEF SendCommand, shmVars, registryVars, masterVars, syncVars, threadVars
<1>3. alive' = alive /\ master_usr2'
  BY <1>1 DEF SendCommand, KillUsr2
<1>4. SegmentsSound' /\ ThreadSound' /\ Joined' = Joined /\ Running' = Running
  BY <1>1, <1>2, <1>3, SegmentsLeft
<1>5. MasterKnown'
  BY <1>2 DEF DirectoryInv, Sound, MasterKnown
<1>6. RoomKept' /\ Recorded' = Recorded
  BY <1>2, <1>3, RegistryLeftExact DEF DirectoryInv, Sound, RoomKept
<1>7. CommandSound'
  BY <1>1, <1>2, <1>3, <1>4 DEF CommandSound, Idle
<1>8. RecordsSound'
  BY <1>2, <1>4, NotWaiting DEF RecordsSound
<1>9. QED
  BY <1>4, <1>5, <1>6, <1>7, <1>8 DEF Sound, Mapped

LEMMA CommandsSound ==
    ASSUME DirectoryInv, Polite,
           \/ \E s \in Slaves : ConnectSlave(s) \/ DisconnectSlave(s)
           \/ \E x \in Indexes : TestConnect(x)
    PROVE  Sound' /\ Mapped
<1>1. cfg_pc \in {"menu", "test_connect"} /\ master_pid # NO_PID
  BY DEF ConnectSlave, DisconnectSlave, TestConnect, AtMenu, Polite,
         DirectoryInv, Sound, MasterKnown
<1>2. \A x \in Disconnected :
         created_pid[x] \in alive /\ created_pid[x] \notin Joined
  BY <1>1, NotWaiting, DirectoryFacts DEF Disconnected, Recorded
<1>3. ASSUME NEW s \in Slaves, DisconnectSlave(s) PROVE Sound' /\ Mapped
  <2>1. s \in Joined
    BY <1>1, <1>3, JoinedMember, MasterServes DEF DisconnectSlave
  <2>2. s \in alive
    BY <2>1, JoinedLive
  <2>3. QED
    BY <1>1, <1>3, <2>1, <2>2, SendCommandSound DEF DisconnectSlave
<1>4. ASSUME NEW s \in Slaves, ConnectSlave(s) PROVE Sound' /\ Mapped
  <2>1. s \in alive /\ s \notin Joined
    BY <1>2, <1>4 DEF ConnectSlave
  <2>2. QED
    BY <1>1, <1>4, <2>1, SendCommandSound DEF ConnectSlave
<1>5. ASSUME NEW x \in Indexes, TestConnect(x) PROVE Sound' /\ Mapped
  BY <1>1, <1>2, <1>5, SendCommandSound DEF TestConnect
<1>6. QED
  BY <1>3, <1>4, <1>5

(* The wait ends with a signal if what was asked for is done, and without  *)
(* one if nothing has changed.                                             *)
LEMMA EndWaitSound ==
    ASSUME DirectoryInv, ReceiveResponse \/ WaitTimeout
    PROVE  Sound' /\ Mapped
<1>1. /\ cfg_pc = "wait" /\ cfg_pc' \in {"menu", "test_connect"}
      /\ UNCHANGED <<alive, masters, shm_exists, seg_pid, is_connected, created_pid,
                     master_pid, master_ready, thr_pc, thr_idx, exchange>>
  BY DEF ReceiveResponse, WaitTimeout, EndWait, procVars, shmVars, masterVars,
         syncVars, threadVars
<1>2. Idle
  BY DEF ReceiveResponse, WaitTimeout, AtRest, Idle, DirectoryInv, TypeInv,
         ServerInv, OneCommand
<1>3. SegmentsSound' /\ ThreadSound' /\ Joined' = Joined /\ Running' = Running
  BY <1>1, <1>2, SegmentsLeft
<1>4. /\ affected \in alive
      /\ affected \in Joined <=> (configurator_usr2 <=> request = "CONNECT_SLAVE")
      /\ request \in {"CONNECT_SLAVE", "DISCONNECT_SLAVE"}
      /\ request = "DISCONNECT_SLAVE" => configurator_usr2
  BY <1>1, <1>2 DEF DirectoryInv, Sound, CommandSound, Idle
<1>5. /\ \A y \in Indexes : connected'[y] <=> created_pid[y] \in Joined
      /\ created_slaves_number' = created_slaves_number
  <2>1. CASE ReceiveResponse
    <3>1. PICK x \in Indexes :
              /\ created_pid[x] = affected
              /\ connected' = [connected EXCEPT ![x] = (request = "CONNECT_SLAVE")]
              /\ created_slaves_number' = created_slaves_number
      <4> DEFINE x == getAssignedIdx(created_pid, affected)
      <4>1. affected \in Pids /\ affected \in {created_pid[y] : y \in Indexes}
        BY <1>4, DirectoryFacts, PidFacts
      <4>2. x \in Indexes /\ created_pid[x] = affected
        BY <4>1, GetAssignedCorrect, DirectoryFacts
      <4>3. x # NO_IDX
        BY <4>2, ProbeAssumption DEF Indexes, NO_IDX
      <4>4. QED
        BY <2>1, <4>2, <4>3 DEF ReceiveResponse
    <3>2. \A y \in Indexes :
             connected'[y] <=> IF y = x THEN request = "CONNECT_SLAVE" ELSE connected[y]
      BY <3>1, DirectoryFacts
    <3>3. \A y \in Indexes : created_pid[y] = affected => y = x
      BY <1>4, <3>1, DirectoryFacts DEF RecordsUnique
    <3>4. configurator_usr2
      BY <2>1 DEF ReceiveResponse
    <3>5. \A y \in Indexes : y # x => (connected[y] <=> created_pid[y] \in Joined)
      BY <3>3 DEF DirectoryInv, Sound, RecordsSound
    <3>6. QED
      BY <1>4, <3>1, <3>2, <3>4, <3>5
  <2>2. CASE WaitTimeout
    <3>1. ~configurator_usr2 /\ UNCHANGED <<connected, created_slaves_number>>
      BY <2>2 DEF WaitTimeout
    <3>2. request = "CONNECT_SLAVE" /\ affected \notin Joined
      BY <1>4, <3>1
    <3>3. QED
      BY <1>1, <3>1, <3>2 DEF DirectoryInv, Sound, RecordsSound
  <2>3. QED
    BY <2>1, <2>2
<1>6. MasterKnown' /\ CommandSound'
  BY <1>1 DEF DirectoryInv, Sound, MasterKnown, CommandSound
<1>7. RoomKept' /\ Recorded' = Recorded
  BY <1>1, <1>5, RegistryLeftExact DEF DirectoryInv, Sound, RoomKept
<1>8. RecordsSound'
  BY <1>1, <1>3, <1>5 DEF RecordsSound
<1>9. QED
  BY <1>3, <1>6, <1>7, <1>8 DEF Sound, Mapped

-----------------------------------------------------------------------------
(* The master.                                                             *)
LEMMA MasterInitSound ==
    ASSUME DirectoryInv, MasterInit
    PROVE  Sound' /\ Mapped
<1>1. /\ cfg_pc = "starting" /\ cfg_pc' = "starting"
      /\ ~master_ready /\ master_ready' /\ shm_exists'
      /\ \A x \in Indexes : seg_pid'[x] = NO_PID /\ ~is_connected'[x]
      /\ UNCHANGED <<alive, masters, created_pid, connected, created_slaves_number,
                     master_pid, thr_pc>>
  BY DEF MasterInit, procVars, registryVars, threadVars
<1>2. masters # {}
  BY <1>1 DEF DirectoryInv, Sound, MasterKnown
<1>3. Joined = {} /\ Joined' = {} /\ ~Running /\ Running'
  BY <1>1, <1>2 DEF Joined, Running
<1>4. MasterKnown'
  BY <1>1 DEF DirectoryInv, Sound, MasterKnown
<1>5. RoomKept' /\ Recorded' = Recorded
  BY <1>1, RegistryLeftExact DEF DirectoryInv, Sound, RoomKept
<1>6. SegmentsSound' /\ CommandSound'
  BY <1>1
     DEF SegmentsSound, SegmentsUnique, ConnectedLive, OwnedForReason, Owned,
         CommandSound
<1>7. ThreadSound' /\ RecordsSound'
  BY <1>1, <1>3, NotWaiting DEF ThreadSound, RecordsSound, Idle
<1>8. Directory!StartUp
  BY <1>3, <1>5 DEF Directory!StartUp, Running, Joined
<1>9. QED
  BY <1>4, <1>5, <1>6, <1>7, <1>8 DEF Sound, Mapped, Directory!Next

(* The steps of the master once it runs leave the rest alone.              *)
LEMMA MasterLeaves ==
    ASSUME DirectoryInv,
           UNCHANGED <<alive, masters, shm_exists, created_pid, connected,
                       created_slaves_number, master_pid, master_ready, cfg_pc, todo>>
    PROVE  MasterKnown' /\ RoomKept' /\ Recorded' = Recorded /\ Running' = Running
<1>1. MasterKnown' /\ Running' = Running
  BY DEF DirectoryInv, Sound, MasterKnown, Running
<1>2. QED
  BY <1>1, RegistryLeftExact DEF DirectoryInv, Sound, RoomKept

(* While anything is under way the master runs and the configurator waits. *)
LEMMA AtWork ==
    ASSUME DirectoryInv, ~Idle
    PROVE  /\ cfg_pc = "wait" /\ Running /\ ~configurator_usr2
           /\ affected \in alive
           /\ affected \in Joined <=> request = "DISCONNECT_SLAVE"
           /\ request \in {"CONNECT_SLAVE", "DISCONNECT_SLAVE"}
<1>1. cfg_pc = "wait" /\ ~configurator_usr2
  BY DEF DirectoryInv, TypeInv, ServerInv, OneCommand
<1>2. Running
  BY <1>1 DEF DirectoryInv, TypeInv, ServerInv, ReadyFirst, Running
<1>3. QED
  BY <1>1, <1>2 DEF DirectoryInv, Sound, CommandSound

LEMMA CommandThreadSound ==
    ASSUME DirectoryInv, CreateProcessorThread \/ SyncThreadReturns \/ SendDisconnect
    PROVE  Sound' /\ Mapped
<1>1. UNCHANGED <<alive, masters, shm_exists, seg_pid, is_connected, created_pid,
                  connected, created_slaves_number, master_pid, master_ready,
                  cfg_pc, todo, request, affected, configurator_usr2, thr_pid,
                  thr_idx>>
  BY DEF CreateProcessorThread, SyncThreadReturns, SendDisconnect, procVars,
         shmVars, registryVars, testVars, ctlVars, syncVars, threadVars
<1>2. MasterKnown' /\ RoomKept' /\ Recorded' = Recorded /\ Running' = Running
  BY <1>1, MasterLeaves
<1>3. Joined' = Joined
  BY <1>1 DEF Joined
<1>4. RecordsSound'
  BY <1>1, <1>3 DEF DirectoryInv, Sound, RecordsSound
<1>5. CASE CreateProcessorThread
  <2>1. /\ master_usr2 /\ request = "CONNECT_SLAVE"
        /\ slot' = affected /\ exchange' = exchange
        /\ thr_pc' = [thr_pc EXCEPT ![affected] = "start"]
    BY <1>5 DEF CreateProcessorThread
  <2>2. exchange = {} /\ (\A s \in Slaves : thr_pc[s] = "none") /\ affected \in Slaves
    BY <2>1, AtWork, DirectoryFacts
       DEF Idle, DirectoryInv, TypeInv, ServerInv, OneCommand
  <2>3. \A s \in Slaves : thr_pc'[s] = IF s = affected THEN "start" ELSE "none"
    BY <2>1, <2>2 DEF DirectoryInv, TypeInv, ServerInv, ServerTypeOK
  <2>4. ThreadSound'
    BY <1>1, <2>1, <2>3 DEF ThreadSound, WorksFor
  <2>5. SegmentsSound'
    BY <1>1, <2>1, <2>2
       DEF DirectoryInv, Sound, SegmentsSound, Running, SegmentsUnique,
           ConnectedLive, OwnedForReason, Owned
  <2>6. CommandSound'
    BY <1>1, <1>3, <2>1, <2>2 DEF DirectoryInv, Sound, CommandSound
  <2>7. QED
    BY <1>2, <1>3, <1>4, <2>4, <2>5, <2>6 DEF Sound, Mapped
<1>6. CASE SyncThreadReturns
  <2>1. slot' = Garbage /\ UNCHANGED <<thr_pc, exchange, master_usr2>>
    BY <1>6 DEF SyncThreadReturns, threadVars
  <2>2. ThreadSound'
    BY <1>1, <2>1 DEF DirectoryInv, Sound, ThreadSound, WorksFor, Attached
  <2>3. SegmentsSound' /\ CommandSound'
    BY <1>1, <1>3, <2>1
       DEF DirectoryInv, Sound, SegmentsSound, Running, SegmentsUnique,
           ConnectedLive, OwnedForReason, Owned, CommandSound
  <2>4. QED
    BY <1>2, <1>3, <1>4, <2>2, <2>3 DEF Sound, Mapped
<1>7. CASE SendDisconnect
  <2>1. /\ master_usr2 /\ request = "DISCONNECT_SLAVE"
        /\ UNCHANGED thr_pc
    BY <1>7 DEF SendDisconnect
  <2>2. /\ exchange = {} /\ \A s \in Slaves : thr_pc[s] = "none"
        /\ Running /\ affected \in alive
    BY <2>1, AtWork DEF Idle, DirectoryInv, TypeInv, ServerInv, OneCommand
  <2>3. PICK x \in Indexes : seg_pid[x] = affected /\ exchange' = {x}
    <3> DEFINE x == getAssignedIdx(seg_pid, affected)
    <3>1. affected \in Pids /\ affected \in {seg_pid[y] : y \in Indexes}
      BY <2>1, <2>2, DirectoryFacts, PidFacts
         DEF DirectoryInv, TypeInv, OwnerListed
    <3>2. x \in Indexes /\ seg_pid[x] = affected
      BY <3>1, GetAssignedCorrect, DirectoryFacts
    <3>3. QED
      BY <1>7, <2>2, <3>2 DEF SendDisconnect
  <2>4. is_connected[x]
    BY <2>2, <2>3, DirectoryFacts
       DEF DirectoryInv, Sound, SegmentsSound, OwnedForReason, Owned
  <2>5. ThreadSound'
    BY <2>1, <2>2 DEF ThreadSound
  <2>6. SegmentsSound'
    BY <1>1, <2>1, <2>2
       DEF DirectoryInv, Sound, SegmentsSound, Running, SegmentsUnique,
           ConnectedLive, OwnedForReason, Owned
  <2>7. CommandSound'
    BY <1>1, <1>3, <2>1, <2>2, <2>3, <2>4 DEF DirectoryInv, Sound, CommandSound
  <2>8. QED
    BY <1>2, <1>3, <1>4, <2>5, <2>6, <2>7 DEF Sound, Mapped
<1>8. QED
  BY <1>5, <1>6, <1>7

(* A thread of the master, which is alone and works for the slave of the   *)
(* command.                                                                *)
LEMMA ProcessorThreadSound ==
    ASSUME DirectoryInv, ProcessorThread
    PROVE  Sound' /\ Mapped
<1>1. UNCHANGED <<alive, masters, shm_exists, created_pid, connected, forked,
                  created_slaves_number, master_pid, master_ready, cfg_pc, todo,
                  request, affected, master_usr2, configurator_usr2, slot>>
  BY DEF ProcessorThread, procVars, registryVars, testVars, ctlVars, syncVars
<1>2. MasterKnown' /\ RoomKept' /\ Recorded' = Recorded /\ Running' = Running
  BY <1>1, MasterLeaves
<1>3. PICK s \in Slaves :
          \/ ReadSlavePid(s) \/ SearchOwn(s) \/ SearchFree(s)
          \/ WriteSegmentPid(s) \/ SendConnect(s)
  BY DEF ProcessorThread
<1>4. thr_pc[s] # "none"
  BY <1>3
     DEF ReadSlavePid, SearchOwn, SearchFree, WriteSegmentPid, SendConnect, ThrGoto
<1>5. /\ cfg_pc = "wait" /\ exchange = {} /\ Running
      /\ \A t \in Slaves : thr_pc[t] # "none" => t = s
  BY <1>4, ThreadAlone DEF DirectoryInv, TypeInv, Running
<1>6. /\ WorksFor(s)
      /\ affected \in alive /\ affected \notin Joined /\ ~configurator_usr2
  <2>1. WorksFor(s)
    BY <1>4 DEF DirectoryInv, Sound, ThreadSound
  <2>2. ~Idle
    BY <1>4 DEF Idle
  <2>3. QED
    BY <2>1, <2>2, AtWork DEF WorksFor
<1>7. /\ SegmentsUnique /\ ConnectedLive
      /\ \A x \in Owned :
            is_connected[x] \/ (thr_pc[s] = "send" /\ thr_idx[s] = x)
  BY <1>5 DEF DirectoryInv, Sound, SegmentsSound, OwnedForReason
<1>8. /\ thr_pc \in [Slaves -> ThreadPcs] /\ thr_pid \in [Slaves -> Pids]
      /\ thr_idx \in [Slaves -> Indexes]
  BY DEF DirectoryInv, TypeInv, ServerInv, ServerTypeOK
(* The records see no change.                                              *)
<1>9. ASSUME Joined' = Joined, ThreadSound', SegmentsSound',
             \A x \in exchange' : seg_pid'[x] = affected /\ ~is_connected'[x]
      PROVE  Sound' /\ Mapped
  <2>1. RecordsSound'
    BY <1>1, <1>9 DEF DirectoryInv, Sound, RecordsSound
  <2>2. CommandSound'
    BY <1>1, <1>5, <1>6, <1>9
       DEF DirectoryInv, Sound, CommandSound, WorksFor
  <2>3. QED
    BY <1>2, <1>9, <2>1, <2>2 DEF Sound, Mapped
<1> USE DEF ThrGoto
<1>10. CASE ReadSlavePid(s) \/ SearchOwn(s) \/ SearchFree(s)
  <2>1. UNCHANGED <<seg_pid, is_connected, exchange>>
    BY <1>10 DEF ReadSlavePid, SearchOwn, SearchFree
  <2>2. Joined' = Joined /\ Attached' = Attached
    BY <1>1, <2>1 DEF Joined, Attached
  <2>3. thr_pc[s] # "send"
    BY <1>10 DEF ReadSlavePid, SearchOwn, SearchFree
  <2>4. SegmentsSound'
    BY <1>1, <1>7, <2>1, <2>3
       DEF SegmentsSound, SegmentsUnique, ConnectedLive, OwnedForReason, Owned
  <2>5. \A t \in Slaves : t # s => thr_pc'[t] = "none"
    BY <1>5, <1>8, <1>10 DEF ReadSlavePid, SearchOwn, SearchFree
  <2>6. thr_pc'[s] # "none" => WorksFor(s)'
    <3>1. CASE ReadSlavePid(s)
      <4>1. thr_pc'[s] = "search" /\ thr_pid'[s] = slot
        BY <1>8, <3>1 DEF ReadSlavePid
      <4>2. QED
        BY <1>1, <1>6, <4>1 DEF WorksFor
    <3>2. CASE SearchOwn(s)
      <4>1. /\ thr_pid' = thr_pid /\ thr_pc[s] = "search"
            /\ thr_pc'[s] = IF getAssignedIdx(seg_pid, thr_pid[s]) = NO_IDX
                            THEN "assign" ELSE "none"
        BY <1>8, <3>2 DEF SearchOwn
      <4>2. getAssignedIdx(seg_pid, thr_pid[s]) = NO_IDX => thr_pid[s] \notin Attached
        <5>1. NO_IDX \notin Indexes
          BY ProbeAssumption DEF Indexes, NO_IDX
        <5>2. QED
          BY <1>8, <5>1, GetAssignedCorrect, DirectoryFacts DEF Attached
      <4>3. QED
        BY <1>1, <1>6, <2>2, <4>1, <4>2 DEF WorksFor
    <3>3. CASE SearchFree(s)
      <4> DEFINE x == assignIdx(seg_pid, thr_pid[s])
      <4>1. /\ thr_pid' = thr_pid /\ thr_pc[s] = "assign"
            /\ thr_pc'[s] = IF x = NO_IDX THEN "none" ELSE "write"
            /\ thr_idx'[s] = IF x = NO_IDX THEN thr_idx[s] ELSE x
        BY <1>8, <3>3 DEF SearchFree
      <4>2. x # NO_IDX => x \in Indexes /\ seg_pid[x] = NO_PID
        BY <1>8, AssignCorrect, DirectoryFacts
      <4>3. x # NO_IDX => ~is_connected[x]
        BY <1>7, <4>2, DirectoryFacts DEF ConnectedLive
      <4> HIDE DEF x
      <4>4. QED
        BY <1>1, <1>6, <2>1, <2>2, <4>1, <4>3 DEF WorksFor
    <3>4. QED
      BY <1>10, <3>1, <3>2, <3>3
  <2>7. ThreadSound'
    BY <2>5, <2>6 DEF ThreadSound
  <2>8. QED
    BY <1>5, <1>9, <2>1, <2>2, <2>4, <2>7
<1>11. CASE WriteSegmentPid(s)
  <2> DEFINE x == thr_idx[s]
  <2>1. /\ seg_pid' = [seg_pid EXCEPT ![x] = thr_pid[s]]
        /\ UNCHANGED <<is_connected, exchange, thr_pid, thr_idx>>
        /\ thr_pc[s] = "write" /\ thr_pc' = [thr_pc EXCEPT ![s] = "send"]
    BY <1>11 DEF WriteSegmentPid
  <2>2. x \in Indexes /\ seg_pid[x] = NO_PID /\ ~is_connected[x]
    BY <1>6, <1>8, <2>1
       DEF WorksFor, DirectoryInv, TypeInv, ServerInv, Served, StillFree
  <2>3. thr_pid[s] \notin Attached /\ thr_pid[s] # NO_PID
    BY <1>6, <1>8, <2>1, PidFacts DEF WorksFor
  <2>4. \A y \in Indexes : seg_pid'[y] = IF y = x THEN thr_pid[s] ELSE seg_pid[y]
    BY <2>1, DirectoryFacts DEF Tables
  <2>5. \A t \in Slaves : thr_pc'[t] = IF t = s THEN "send" ELSE "none"
    BY <1>5, <1>8, <2>1
  <2>6. Joined' = Joined
    <3>1. \A y \in Indexes : is_connected[y] => seg_pid'[y] = seg_pid[y]
      BY <2>2, <2>4
    <3>2. QED
      BY <1>1, <2>1, <3>1 DEF Joined
  <2>7. ThreadSound'
    BY <1>1, <1>6, <2>1, <2>2, <2>4, <2>5 DEF ThreadSound, WorksFor
  <2>8. SegmentsUnique'
    BY <1>7, <2>3, <2>4 DEF SegmentsUnique, Attached
  <2>9. ConnectedLive'
    BY <1>1, <1>7, <2>1, <2>2, <2>4 DEF ConnectedLive
  <2>10. OwnedForReason'
    BY <1>7, <2>1, <2>4, <2>5 DEF OwnedForReason, Owned
  <2>11. QED
    BY <1>5, <1>9, <2>1, <2>6, <2>7, <2>8, <2>9, <2>10 DEF SegmentsSound
<1>12. CASE SendConnect(s)
  <2> DEFINE x == thr_idx[s]
  <2>1. /\ thr_pc[s] = "send" /\ thr_pc' = [thr_pc EXCEPT ![s] = "none"]
        /\ UNCHANGED <<thr_pid, thr_idx>>
    BY <1>12 DEF SendConnect
  <2>2. /\ x \in Indexes /\ ~is_connected[x]
        /\ seg_pid[x] \in {affected, Garbage}
    BY <1>6, <1>8, <2>1 DEF WorksFor
  <2>3. \A t \in Slaves : thr_pc'[t] = "none"
    BY <1>5, <1>8, <2>1
  <2>4. ThreadSound'
    BY <2>3 DEF ThreadSound
  <2>5. CASE seg_pid[x] \in forked
    <3>1. Garbage \notin forked
      BY TablesAssumption
         DEF DirectoryInv, TypeInv, ServerInv, RegistryInv, Slaves
    <3>2. seg_pid[x] = affected
      BY <2>2, <2>5, <3>1
    <3>3. exchange' = {x} /\ UNCHANGED <<seg_pid, is_connected>>
      BY <1>5, <1>6, <1>12, <2>5, <3>2 DEF SendConnect
    <3>4. Joined' = Joined
      BY <1>1, <3>3 DEF Joined
    <3>5. SegmentsSound'
      BY <1>1, <1>7, <3>3
         DEF SegmentsSound, SegmentsUnique, ConnectedLive, OwnedForReason, Owned
    <3>6. QED
      BY <1>9, <2>2, <2>4, <3>2, <3>3, <3>4, <3>5
  <2>6. CASE seg_pid[x] \notin forked
    <3>1. /\ seg_pid' = [seg_pid EXCEPT ![x] = NO_PID]
          /\ is_connected' = [is_connected EXCEPT ![x] = FALSE]
          /\ exchange' = {}
      BY <1>5, <1>12, <2>6 DEF SendConnect
    <3>2. \A y \in Indexes :
             /\ seg_pid'[y] = IF y = x THEN NO_PID ELSE seg_pid[y]
             /\ is_connected'[y] = IF y = x THEN FALSE ELSE is_connected[y]
      BY <3>1, DirectoryFacts DEF Tables
    <3>3. Joined' = Joined
      <4>1. \A y \in Indexes :
               /\ is_connected'[y] <=> is_connected[y]
               /\ is_connected[y] => seg_pid'[y] = seg_pid[y]
        BY <2>2, <3>2
      <4>2. QED
        BY <1>1, <4>1 DEF Joined
    <3>4. SegmentsUnique'
      <4>1. ASSUME NEW y \in Indexes, NEW z \in Indexes, y # z,
                   seg_pid'[y] = seg_pid'[z]
            PROVE  seg_pid'[y] = NO_PID
        <5>1. CASE y = x \/ z = x
          BY <3>2, <4>1, <5>1
        <5>2. CASE y # x /\ z # x
          <6>1. seg_pid'[y] = seg_pid[y] /\ seg_pid[y] = seg_pid[z]
            BY <3>2, <4>1, <5>2
          <6>2. QED
            BY <1>7, <4>1, <6>1 DEF SegmentsUnique
        <5>3. QED
          BY <5>1, <5>2
      <4>2. QED
        BY <4>1 DEF SegmentsUnique
    <3>5. ConnectedLive'
      BY <1>1, <1>7, <3>2 DEF ConnectedLive
    <3>6. OwnedForReason'
      BY <1>1, <1>7, <3>2 DEF OwnedForReason, Owned
    <3>7. QED
      BY <1>9, <2>4, <3>1, <3>3, <3>4, <3>5, <3>6 DEF SegmentsSound
  <2>7. QED
    BY <2>5, <2>6
<1>13. QED
  BY <1>3, <1>10, <1>11, <1>12

(* The slave of the command is connected, or disconnected.                 *)
LEMMA CompleteExchangeSound ==
    ASSUME DirectoryInv, NEW x \in Indexes, CompleteExchange(x)
    PROVE  Sound' /\ Mapped
<1>1. UNCHANGED <<alive, masters, shm_exists, created_pid, connected,
                  created_slaves_number, master_pid, master_ready, cfg_pc, todo,
                  request, affected, thr_pc, thr_idx>>
  BY DEF CompleteExchange, procVars, registryVars, testVars, syncVars
<1>2. MasterKnown' /\ RoomKept' /\ Recorded' = Recorded /\ Running' = Running
  BY <1>1, MasterLeaves
<1>3. x \in exchange /\ exchange' = exchange \ {x} /\ configurator_usr2'
  BY DEF CompleteExchange
<1>4. /\ cfg_pc = "wait" /\ Running /\ exchange' = {} /\ exchange = {x}
      /\ affected \in alive /\ request \in {"CONNECT_SLAVE", "DISCONNECT_SLAVE"}
      /\ affected \in Joined <=> request = "DISCONNECT_SLAVE"
      /\ \A s \in Slaves : thr_pc[s] = "none"
  BY <1>3, AtWork
     DEF Idle, DirectoryInv, TypeInv, ServerInv, OneCommand
<1>5. seg_pid[x] = affected /\ (is_connected[x] <=> request = "DISCONNECT_SLAVE")
  BY <1>3, <1>4 DEF DirectoryInv, Sound, CommandSound
<1>6. /\ SegmentsUnique /\ ConnectedLive
      /\ \A y \in Owned : is_connected[y] \/ y = x
  BY <1>4 DEF DirectoryInv, Sound, SegmentsSound, OwnedForReason
<1>7. affected # NO_PID /\ affected \in Slaves
  BY <1>4, DirectoryFacts
<1>8. PICK s \in Slaves : s = affected
  BY <1>7
<1>9. ThreadSound'
  BY <1>1, <1>4 DEF ThreadSound
<1>10. ASSUME \A p : p # affected => (p \in Joined' <=> p \in Joined),
             affected \in Joined' <=> request = "CONNECT_SLAVE"
      PROVE  CommandSound' /\ RecordsSound'
  <2>1. CommandSound'
    BY <1>1, <1>3, <1>4, <1>10 DEF CommandSound
  <2>2. RecordsSound'
    BY <1>1, <1>4, <1>10 DEF DirectoryInv, Sound, RecordsSound
  <2>3. QED
    BY <2>1, <2>2
<1>11. CASE is_connected[x]
  <2>1. \A y \in Indexes :
           /\ seg_pid'[y] = IF y = x THEN NO_PID ELSE seg_pid[y]
           /\ is_connected'[y] = IF y = x THEN FALSE ELSE is_connected[y]
    BY <1>11, DirectoryFacts DEF CompleteExchange, Tables
  <2>2. Joined' = Joined \ {affected}
    <3>1. \A y \in Indexes : seg_pid[y] = affected => y = x
      BY <1>5, <1>6, <1>7 DEF SegmentsUnique
    <3>2. \A p : p \in Joined' <=> p \in Joined /\ p # affected
      BY <1>1, <1>2, <1>5, <2>1, <3>1 DEF Joined
    <3>3. QED
      BY <3>2
  <2>3. SegmentsSound'
    BY <1>1, <1>6, <2>1
       DEF SegmentsSound, SegmentsUnique, ConnectedLive, OwnedForReason, Owned
  <2>4. CommandSound' /\ RecordsSound'
    BY <1>5, <1>10, <1>11, <2>2
  <2>5. Directory!Detach(s)
    BY <1>8, <1>2, <1>4, <1>5, <1>11, <2>2 DEF Directory!Detach, Running, Joined
  <2>6. QED
    BY <1>2, <1>9, <2>3, <2>4, <2>5 DEF Sound, Mapped, Directory!Next
<1>12. CASE ~is_connected[x]
  <2>1. /\ seg_pid' = seg_pid
        /\ \A y \in Indexes :
              is_connected'[y] = IF y = x THEN TRUE ELSE is_connected[y]
    BY <1>12, DirectoryFacts DEF CompleteExchange
  <2>2. Joined' = Joined \cup {affected}
    <3>1. \A p : p \in Joined' <=> p \in Joined \/ p = affected
      BY <1>1, <1>4, <1>5, <2>1 DEF Joined, Running
    <3>2. QED
      BY <3>1
  <2>3. SegmentsSound'
    BY <1>1, <1>4, <1>5, <1>6, <2>1
       DEF SegmentsSound, SegmentsUnique, ConnectedLive, OwnedForReason, Owned
  <2>4. CommandSound' /\ RecordsSound'
    BY <1>4, <1>5, <1>10, <1>12, <2>2
  <2>5. Directory!Attach(s)
    <3>1. affected \in Recorded
      BY <1>4, DirectoryFacts
    <3>2. QED
      BY <1>8, <1>2, <1>4, <1>5, <1>12, <2>2, <3>1
         DEF Directory!Attach, Running, Joined
  <2>6. QED
    BY <1>2, <1>9, <2>3, <2>4, <2>5 DEF Sound, Mapped, Directory!Next
<1>13. QED
  BY <1>11, <1>12

-----------------------------------------------------------------------------
LEMMA SoundStep ==
    ASSUME DirectoryInv, Polite, [Next]_vars
    PROVE  Sound' /\ Mapped
<1>1. CASE UNCHANGED tableVars
  <2>1. Joined' = Joined /\ Running' = Running /\ Attached' = Attached
    BY <1>1
       DEF tableVars, procVars, shmVars, masterVars, syncVars, Joined, Running, Attached
  <2>2. MasterKnown' /\ RoomKept' /\ Recorded' = Recorded
    BY <1>1, RegistryLeftExact
       DEF tableVars, procVars, shmVars, registryVars, testVars, masterVars, syncVars,
           DirectoryInv, Sound, MasterKnown, RoomKept
  <2>3. SegmentsSound' /\ CommandSound'
    BY <1>1, <2>1
       DEF tableVars, procVars, shmVars, ctlVars, masterVars, threadVars, DirectoryInv,
           Sound, SegmentsSound, SegmentsUnique, ConnectedLive, OwnedForReason,
           Owned, CommandSound
  <2>4. ThreadSound' /\ RecordsSound'
    BY <1>1, <2>1
       DEF tableVars, shmVars, registryVars, ctlVars, masterVars, threadVars, syncVars,
           DirectoryInv, Sound, ThreadSound, WorksFor, RecordsSound
  <2>5. QED
    BY <2>1, <2>2, <2>3, <2>4 DEF Sound, Mapped
<1>2. CASE MasterSteps
  BY <1>2, MasterInitSound, CommandThreadSound, ProcessorThreadSound,
     CompleteExchangeSound DEF MasterSteps
<1>3. CASE ConfiguratorSteps
  BY <1>3, StartMasterSound, StopMasterSound, MovesSound, CreateSound, DeleteSound,
     CommandsSound, EndWaitSound DEF ConfiguratorSteps
<1>4. QED
  BY <1>1, <1>2, <1>3 DEF Next, ThreadMisled, vars

LEMMA DirectoryInitially == Init => DirectoryInv
<1> SUFFICES ASSUME Init PROVE Sound
  BY TypeInitially DEF DirectoryInv
<1> USE DEF Init
<1>1. Recorded = {} /\ ~Running /\ Joined = {}
  BY DEF Recorded, Running, Joined
<1>2. RegistryExact
  <2>1. Cardinality(Recorded) = 0 /\ 0 <= MAX_SLAVES
    BY <1>1, FS_EmptySet, ProbeAssumption
  <2>2. QED
    BY <1>1, <2>1 DEF RegistryExact, RecordsUnique
<1>3. MasterKnown /\ RoomKept
  BY <1>2 DEF MasterKnown, RoomKept
<1>4. SegmentsSound /\ CommandSound /\ ThreadSound /\ RecordsSound
  BY <1>1 DEF SegmentsSound, CommandSound, ThreadSound, RecordsSound
<1>5. QED
  BY <1>3, <1>4 DEF Sound

LEMMA DirectoryInvariant == ASSUME Polite PROVE Spec => []DirectoryInv
<1>1. DirectoryInv /\ [Next]_vars => DirectoryInv'
  BY TypeStep, SoundStep DEF DirectoryInv
<1>2. QED
  BY <1>1, DirectoryInitially, PTL DEF Spec

-----------------------------------------------------------------------------
(* The records of the configurator are of the slaves that live, and their  *)
(* count, which is never counted down, bounds them (configurator.c 59,     *)
(* 505): with room in the count a slave that is created finds a record.    *)
THEOREM RegistryExactCorrect == ASSUME Polite PROVE Spec => []RegistryExact
<1>1. DirectoryInv => RegistryExact
  BY DEF DirectoryInv, Sound, RoomKept
<1>2. QED
  BY <1>1, DirectoryInvariant, PTL

LEMMA ThreadFinds ==
    ASSUME DirectoryInv, NEW s \in Slaves, thr_pc[s] = "assign"
    PROVE  assignIdx(seg_pid, thr_pid[s]) # NO_IDX
<1>1. /\ Running /\ exchange = {}
      /\ \A t \in Slaves : thr_pc[t] # "none" => t = s
  BY ThreadAlone DEF DirectoryInv, TypeInv, Running
<1>2. WorksFor(s) /\ ~Idle
  BY DEF DirectoryInv, Sound, ThreadSound, Idle
<1>3. affected \in alive /\ affected \notin Joined
  BY <1>2, AtWork DEF WorksFor
<1>4. /\ SegmentsUnique
      /\ \A x \in Indexes : seg_pid[x] \in (Recorded \ {affected}) \cup {NO_PID}
  <2>1. \A x \in Indexes : seg_pid[x] # NO_PID => is_connected[x]
    BY <1>1 DEF DirectoryInv, Sound, SegmentsSound, OwnedForReason, Owned
  <2>2. \A x \in Indexes : is_connected[x] => seg_pid[x] \in Joined
    BY <1>1, JoinedMember
  <2>3. QED
    BY <1>1, <1>3, <2>1, <2>2, JoinedLive, DirectoryFacts
       DEF DirectoryInv, Sound, SegmentsSound
<1>5. /\ IsFiniteSet(Recorded \ {affected})
      /\ Cardinality(Recorded \ {affected}) < MAX_SLAVES
  <2>1. IsFiniteSet(Recorded) /\ affected \in Recorded
    BY <1>3, RecordedFinite, DirectoryFacts
  <2>2. /\ Cardinality(Recorded) \in Nat
        /\ Cardinality(Recorded) <= created_slaves_number
        /\ created_slaves_number <= MAX_SLAVES
    BY <2>1, FS_CardinalityType
       DEF DirectoryInv, Sound, RoomKept, RegistryExact
  <2>3. /\ IsFiniteSet(Recorded \ {affected})
        /\ Cardinality(Recorded \ {affected}) = Cardinality(Recorded) - 1
    BY <2>1, FS_RemoveElement
  <2>4. QED
    BY <2>2, <2>3, DirectoryFacts, ProbeAssumption
<1>6. \E x \in Indexes : seg_pid[x] = NO_PID
  BY <1>4, <1>5, FreePlace, DirectoryFacts DEF SegmentsUnique
<1>7. thr_pid[s] \in Pids /\ NO_IDX \notin Indexes
  BY ProbeAssumption
     DEF DirectoryInv, TypeInv, ServerInv, ServerTypeOK, Indexes, NO_IDX
<1>8. QED
  BY <1>6, <1>7, AssignCorrect, DirectoryFacts

(* No search that must succeed fails: a thread always finds a segment      *)
(* (master.c 101), the test a record (configurator.c 61), and whatever has *)
(* a segment when the master is stopped has a record (configurator.c 568), *)
(* so created_slave[-1] is never written.                                  *)
THEOREM IndexFoundCorrect == ASSUME Polite PROVE Spec => []IndexFound
<1>1. DirectoryInv => IndexFound
  <2> SUFFICES ASSUME DirectoryInv PROVE IndexFound
    OBVIOUS
  <2>1. cfg_pc = "test_create" => \E x \in Indexes : created_pid[x] = NO_PID
    <3> SUFFICES ASSUME cfg_pc = "test_create"
                 PROVE  \E x \in Indexes : created_pid[x] = NO_PID
      OBVIOUS
    <3>1. /\ todo \in Nat /\ todo > 0 /\ created_slaves_number + todo <= MAX_SLAVES
          /\ Cardinality(Recorded) <= created_slaves_number
      BY DEF DirectoryInv, Sound, RoomKept, RegistryExact, TypeInv, ControlTypeOK
    <3>2. IsFiniteSet(Recorded) /\ Cardinality(Recorded) \in Nat
      BY RecordedFinite, FS_CardinalityType, DirectoryFacts
    <3>3. Cardinality(Recorded) < MAX_SLAVES
      BY <3>1, <3>2, DirectoryFacts, ProbeAssumption
    <3>4. \A x \in Indexes : created_pid[x] \in Recorded \cup {NO_PID}
      BY DEF Recorded
    <3>5. QED
      BY <3>2, <3>3, <3>4, FreePlace, DirectoryFacts DEF RecordsUnique
  <2>2. Quiet => Unrecorded = {}
    <3> SUFFICES ASSUME Quiet, NEW p \in Attached
                 PROVE  getAssignedIdx(created_pid, p) # NO_IDX
      BY DEF Unrecorded
    <3>1. Running /\ Idle
      BY DEF Quiet, AtRest, Running, Idle
    <3>2. p \in alive
      BY <3>1, SegmentsAtRest, JoinedLive
    <3>3. p \in Pids /\ p \in {created_pid[x] : x \in Indexes}
      BY <3>2, DirectoryFacts, PidFacts
    <3>4. QED
      BY <3>3, GetAssignedCorrect, DirectoryFacts, ProbeAssumption
         DEF Indexes, NO_IDX
  <2>3. QED
    BY <2>1, <2>2, ThreadFinds DEF IndexFound
<1>2. QED
  BY <1>1, DirectoryInvariant, PTL

(* At rest a segment is owned exactly if it is served, by a slave that     *)
(* lives and is connected, and the records say the same: nothing stays of  *)
(* an earlier master, or of a thread that read the pid of no process from a *)
(* stale stack (master.c 182). What a thread leaves that read 0, a negative *)
(* word or the pid of another process is outside Quiet (ThreadMisled).     *)
THEOREM NothingLeftBehindCorrect == ASSUME Polite PROVE Spec => []NothingLeftBehind
<1>1. DirectoryInv => NothingLeftBehind
  <2> SUFFICES ASSUME DirectoryInv, Quiet, NEW x \in Indexes
               PROVE  /\ x \in Owned <=> serving[x] = 1
                      /\ x \in Owned => is_connected[x] /\ seg_pid[x] \in alive
                      /\ connected[x] <=> created_pid[x] \in Attached
    BY DEF NothingLeftBehind
  <2>1. Running /\ Idle /\ ~configurator_usr2
    BY DEF Quiet, AtRest, Running, Idle
  <2>2. x \in Owned <=> serving[x] = 1
    BY <2>1
       DEF Owned, Running, DirectoryInv, TypeInv, ServerInv, Served, ServedIfOwned
  <2>3. x \in Owned => is_connected[x] /\ seg_pid[x] \in alive
    BY <2>1, SegmentsAtRest
       DEF Owned, DirectoryInv, Sound, SegmentsSound, ConnectedLive
  <2>4. connected[x] <=> created_pid[x] \in Attached
    <3>1. cfg_pc = "wait" => affected \notin Joined /\ request = "CONNECT_SLAVE"
      BY <2>1 DEF DirectoryInv, Sound, CommandSound, Idle
    <3>2. connected[x] <=> created_pid[x] \in Joined
      BY <3>1 DEF DirectoryInv, Sound, RecordsSound
    <3>3. QED
      BY <2>1, <3>2, SegmentsAtRest
  <2>5. QED
    BY <2>2, <2>3, <2>4
<1>2. QED
  BY <1>1, DirectoryInvariant, PTL

(* The tables, searches and threads implement the directory: every step    *)
(* is a step of a slave that joins, leaves, is attached or detached, of    *)
(* the master that starts up or shuts down, or is not seen at all.         *)
THEOREM DirectoryImplemented == ASSUME Polite PROVE Spec => DirectorySpec
<1>1. Init => Directory!Init
  BY DEF Init, Directory!Init, Recorded
<1>2. DirectoryInv /\ [Next]_vars =>
         [Directory!Next]_<<masters # {} /\ master_ready, Recorded,
                            IF masters = {} \/ ~master_ready THEN {}
                            ELSE {seg_pid[x] : x \in {y \in Indexes : is_connected[y]}}>>
  BY SoundStep DEF Mapped, Running, Joined
<1>3. QED
  BY <1>1, <1>2, DirectoryInvariant, PTL DEF Spec, DirectorySpec, Directory!Spec

=============================================================================

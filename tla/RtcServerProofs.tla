-------------------------- MODULE RtcServerProofs --------------------------
(***************************************************************************)
(* Proof that no segment is ever served by two threads of the master, for  *)
(* every MAX_SLAVES, every number of slaves and masters, and every order   *)
(* of commands, with a master or without, however many slaves the test     *)
(* creates. The search for a free segment and the write of the pid are two *)
(* steps that nothing protects (master.c 101 to 107): what keeps a second  *)
(* thread away is that the configurator has one command under way at most. *)
(***************************************************************************)
EXTENDS RtcTablesProofs

ServerTypeOK ==
    /\ IsFiniteSet(masters) /\ masters \subseteq forked \cap Masters
    /\ alive \subseteq Slaves
    /\ seg_pid \in Tables
    /\ serving \in [Indexes -> {0, 1}]
    /\ slot \in Pids
    /\ thr_pc \in [Slaves -> ThreadPcs]
    /\ thr_pid \in [Slaves -> Pids]
    /\ thr_idx \in [Slaves -> Indexes]

Idle ==
    /\ ~master_usr2
    /\ \A s \in Slaves : thr_pc[s] = "none"
    /\ exchange = {}

(* One command at most is under way, as a signal, a thread or a request    *)
(* that a slave has to answer, and only while the configurator waits.      *)
OneCommand ==
    /\ cfg_pc # "wait" => Idle
    /\ cfg_pc = "wait" => affected \in Slaves
    /\ configurator_usr2 => cfg_pc \in {"starting", "wait"} /\ Idle
    /\ \A x, y \in exchange : x = y
    /\ master_usr2 => exchange = {} /\ \A s \in Slaves : thr_pc[s] = "none"
    /\ \A s \in Slaves :
          thr_pc[s] # "none" =>
             exchange = {} /\ \A t \in Slaves : thr_pc[t] # "none" => t = s

(* A master that has work to do has initialised the zone.                  *)
ReadyFirst ==
    /\ masters # {} /\ cfg_pc # "starting" => master_ready
    /\ cfg_pc = "starting" /\ configurator_usr2 => master_ready
    /\ ~Idle => masters # {}

(* A segment is served exactly while it holds a pid; a thread that found a *)
(* free one finds it free when it writes.                                  *)
ServedIfOwned ==
    master_ready /\ masters # {} =>
        \A x \in Indexes : serving[x] = IF seg_pid[x] = NO_PID THEN 0 ELSE 1

UnservedBefore ==
    masters = {} \/ (~master_ready /\ Cardinality(masters) <= 1) =>
        \A x \in Indexes : serving[x] = 0

StillFree ==
    \A s \in Slaves :
        /\ thr_pc[s] = "write" => seg_pid[thr_idx[s]] = NO_PID
        /\ thr_pc[s] = "send" => seg_pid[thr_idx[s]] # NO_PID

Served == ServedIfOwned /\ UnservedBefore /\ StillFree

ServerInv == RegistryInv /\ ServerTypeOK /\ OneCommand /\ ReadyFirst /\ Served

threadState == <<threadVars, seg_pid, slot>>

(* Of the processes and of a thread's pid: none is NO_PID, and no master   *)
(* has the pid of a slave.                                                 *)
LEMMA PidFacts ==
    /\ NO_PID \notin Pids
    /\ Slaves \subseteq Pids
    /\ Garbage \in Pids
    /\ Masters \cap Slaves = {}
  BY ProbeAssumption, TablesAssumption DEF Slaves

LEMMA ServerInitially == Init => ServerInv
<1> SUFFICES ASSUME Init PROVE ServerInv
  OBVIOUS
<1> USE DEF Init
<1>1. RegistryInv
  BY DEF RegistryInv, RecordsUnique
<1>2. ServerTypeOK
  BY PidFacts, FS_EmptySet, ProbeAssumption
     DEF ServerTypeOK, Tables, Indexes, ThreadPcs
<1>3. OneCommand /\ ReadyFirst /\ Served
  BY DEF OneCommand, ReadyFirst, Served, ServedIfOwned, UnservedBefore,
         StillFree, Idle
<1>4. QED
  BY <1>1, <1>2, <1>3 DEF ServerInv

-----------------------------------------------------------------------------
(* The configurator, none of whose steps moves a thread.                   *)

(* Steps that change neither the master nor what is under way.             *)
LEMMA ConfiguratorLeavesServed ==
    ASSUME ServerTypeOK, Served, UNCHANGED <<threadState, master_ready, masters>>,
           forked \subseteq forked', alive' \subseteq Slaves
    PROVE  ServerTypeOK' /\ Served'
<1>1. ServerTypeOK'
  BY DEF ServerTypeOK, threadState, threadVars
<1>2. Served'
  BY DEF Served, ServedIfOwned, UnservedBefore, StillFree, threadState,
         threadVars
<1>3. QED
  BY <1>1, <1>2

LEMMA StartMasterKeeps ==
    ASSUME ServerInv, NEW m \in Masters, StartMaster(m)
    PROVE  (ServerTypeOK /\ OneCommand /\ ReadyFirst /\ Served)'
<1> USE DEF ServerInv, StartMaster
<1>1. /\ UNCHANGED <<threadVars, seg_pid, slot>>
      /\ UNCHANGED <<master_usr2, configurator_usr2, alive>>
  BY DEF ctlVars, shmVars
<1>2. m \notin masters
  BY DEF ServerTypeOK
<1>3. ServerTypeOK'
  BY <1>1, FS_AddElement DEF ServerTypeOK, threadVars
<1>4. Idle /\ Idle' /\ ~configurator_usr2
  BY <1>1 DEF OneCommand, Idle, threadVars
<1>5. OneCommand' /\ ReadyFirst'
  BY <1>1, <1>4 DEF OneCommand, ReadyFirst, Idle
<1>6. Cardinality(masters') <= 1 => masters = {}
  <2>1. Cardinality(masters') = Cardinality(masters) + 1
    BY <1>2, FS_AddElement DEF ServerTypeOK
  <2>2. Cardinality(masters) \in Nat
    BY FS_CardinalityType DEF ServerTypeOK
  <2>3. Cardinality(masters) = 0 <=> masters = {}
    BY FS_EmptySet DEF ServerTypeOK
  <2>4. QED
    BY <2>1, <2>2, <2>3
<1>7. Served'
  BY <1>1, <1>4, <1>6
     DEF Served, ServedIfOwned, UnservedBefore, StillFree, Idle, threadVars
<1>8. QED
  BY <1>3, <1>5, <1>7

LEMMA StopMasterKeeps ==
    ASSUME ServerInv, StopMaster
    PROVE  (ServerTypeOK /\ OneCommand /\ ReadyFirst /\ Served)'
<1>1. ServerTypeOK /\ OneCommand /\ Served
  BY DEF ServerInv
<1>2. /\ UNCHANGED <<forked, seg_pid, slot, master_ready, thr_pc, thr_pid, thr_idx,
                     exchange, cfg_pc, affected, master_usr2, configurator_usr2>>
      /\ alive' \subseteq alive
      /\ masters' \subseteq masters
      /\ serving' = IF masters' = {} THEN [x \in Indexes |-> 0] ELSE serving
  BY DEF StopMaster, ctlVars, shmVars, syncVars
<1>3. cfg_pc = "menu" /\ Idle /\ (masters # {} => master_ready)
  BY DEF StopMaster, AtMenu, AtRest, Idle
<1>4. IsFiniteSet(masters')
  BY <1>1, <1>2, FS_Subset DEF ServerTypeOK
<1>5. serving' \in [Indexes -> {0, 1}]
  BY <1>1, <1>2 DEF ServerTypeOK
<1>6. ServerTypeOK'
  BY <1>1, <1>2, <1>4, <1>5 DEF ServerTypeOK
<1>7. Idle'
  BY <1>2, <1>3 DEF Idle
<1>8. OneCommand'
  BY <1>1, <1>2, <1>3, <1>7 DEF OneCommand, Idle
<1>9. ReadyFirst'
  BY <1>2, <1>3, <1>7 DEF ReadyFirst
<1>10. UnservedBefore'
  BY <1>2, <1>3 DEF UnservedBefore
<1>11. ServedIfOwned' /\ StillFree'
  BY <1>1, <1>2, <1>3 DEF Served, ServedIfOwned, StillFree, Idle
<1>12. QED
  BY <1>6, <1>8, <1>9, <1>10, <1>11 DEF Served

(* The commands that nobody has to carry out.                              *)
LEMMA LocalCommandKeeps ==
    ASSUME ServerInv, NEW s \in Slaves,
           CreateSlave(s) \/ DeleteSlave(s) \/ TestCreate(s)
    PROVE  (ServerTypeOK /\ OneCommand /\ ReadyFirst /\ Served)'
<1> USE DEF ServerInv
<1>1. /\ UNCHANGED <<threadState, master_ready, masters>>
      /\ UNCHANGED <<affected, master_usr2, configurator_usr2>>
      /\ forked \subseteq forked'
      /\ alive' \subseteq Slaves
  <2>1. CASE CreateSlave(s) \/ TestCreate(s)
    BY <2>1
       DEF CreateSlave, TestCreate, ForkSlave, ctlVars, shmVars, masterVars,
                syncVars, threadState, ServerTypeOK
  <2>2. CASE DeleteSlave(s)
    <3>1. s # NO_PID /\ s \notin masters
      BY PidFacts DEF ServerTypeOK
    <3>2. QED
      BY <2>2, <3>1 DEF DeleteSlave, KillInt, ctlVars, shmVars, masterVars,
                        syncVars, threadState, ServerTypeOK
  <2>3. QED
    BY <2>1, <2>2
<1>2. /\ cfg_pc \in {"menu", "test_create"}
      /\ cfg_pc' \in {"menu", "test_create", "test_connect"}
  BY DEF CreateSlave, DeleteSlave, TestCreate, AtMenu
<1>3. Idle /\ Idle' /\ ~configurator_usr2
  BY <1>1, <1>2 DEF OneCommand, Idle, threadState, threadVars
<1>4. OneCommand' /\ ReadyFirst'
  BY <1>1, <1>2, <1>3 DEF OneCommand, ReadyFirst, Idle
<1>5. QED
  BY <1>1, <1>4, ConfiguratorLeavesServed

(* A command that the master has to carry out is given when none is.       *)
LEMMA SendCommandKeeps ==
    ASSUME ServerInv, NEW r, NEW s \in Slaves, SendCommand(r, s),
           cfg_pc \in {"menu", "test_connect"}
    PROVE  (ServerTypeOK /\ OneCommand /\ ReadyFirst /\ Served)'
<1> USE DEF ServerInv, SendCommand
<1>1. /\ UNCHANGED <<threadState, master_ready, masters, forked, configurator_usr2>>
      /\ affected' = s
      /\ cfg_pc' = "wait"
      /\ alive' \subseteq Slaves
  BY DEF KillUsr2, shmVars, masterVars, syncVars, threadState, ServerTypeOK
<1>2. master_usr2' => master_usr2 \/ masters # {}
  BY DEF KillUsr2
<1>3. Idle /\ ~configurator_usr2
  BY DEF OneCommand
<1>4. OneCommand'
  BY <1>1, <1>3 DEF OneCommand, Idle, threadState, threadVars
<1>5. ReadyFirst'
  BY <1>1, <1>2, <1>3 DEF ReadyFirst, Idle, threadState, threadVars
<1>6. QED
  BY <1>1, <1>4, <1>5, ConfiguratorLeavesServed

(* The configurator goes on when nothing is under way any more.            *)
LEMMA GoOnKeeps ==
    ASSUME ServerInv,
           \/ MasterStarted \/ ReceiveResponse \/ WaitTimeout \/ TestEnd
           \/ \E n \in 1 .. MaxTest : StartTest(n)
    PROVE  (ServerTypeOK /\ OneCommand /\ ReadyFirst /\ Served)'
<1> USE DEF ServerInv
<1>1. /\ UNCHANGED <<threadState, master_ready, masters, forked, alive>>
      /\ UNCHANGED <<affected, master_usr2>>
  BY DEF MasterStarted, ReceiveResponse, WaitTimeout, EndWait, TestEnd,
         StartTest,
         procVars, ctlVars, shmVars, masterVars, syncVars, threadState
<1>2. /\ cfg_pc' \in {"menu", "test_create", "test_connect"}
      /\ ~configurator_usr2'
  <2>1. CASE MasterStarted
    BY <2>1 DEF MasterStarted
  <2>2. CASE ReceiveResponse \/ WaitTimeout
    BY <2>2 DEF ReceiveResponse, WaitTimeout, EndWait
  <2>3. CASE TestEnd \/ \E n \in 1 .. MaxTest : StartTest(n)
    BY <2>3 DEF TestEnd, StartTest, AtMenu, ctlVars, OneCommand
  <2>4. QED
    BY <2>1, <2>2, <2>3
<1>3. Idle
  BY DEF OneCommand, MasterStarted, ReceiveResponse, WaitTimeout, TestEnd,
         StartTest, AtMenu, AtRest, Idle
<1>4. Idle'
  BY <1>1, <1>3 DEF Idle, threadState, threadVars
<1>5. masters # {} => master_ready
  BY DEF ReadyFirst, MasterStarted, ReceiveResponse, WaitTimeout, TestEnd,
         StartTest, AtMenu
<1>6. OneCommand' /\ ReadyFirst'
  BY <1>1, <1>2, <1>4, <1>5 DEF OneCommand, ReadyFirst, Idle
<1>7. QED
  BY <1>1, <1>6, ConfiguratorLeavesServed DEF ServerTypeOK

-----------------------------------------------------------------------------
(* The master, none of whose steps gives a command.                        *)
LEMMA MasterInitKeeps ==
    ASSUME ServerInv, MasterInit, Cardinality(masters) <= 1
    PROVE  (ServerTypeOK /\ OneCommand /\ ReadyFirst /\ Served)'
<1> USE DEF ServerInv, MasterInit
<1>1. UNCHANGED <<forked, alive, masters, cfg_pc, affected, master_usr2, slot,
                  serving, thr_pc, thr_pid, thr_idx, exchange>>
  BY DEF procVars, threadVars
<1>2. seg_pid' \in Tables
  BY DEF Tables
<1>3. ServerTypeOK'
  BY <1>1, <1>2 DEF ServerTypeOK
<1>4. Idle /\ Idle'
  BY <1>1 DEF OneCommand, Idle
<1>5. OneCommand' /\ ReadyFirst'
  BY <1>1, <1>4 DEF OneCommand, ReadyFirst, Idle
<1>6. Served'
  BY <1>1, <1>4 DEF Served, ServedIfOwned, UnservedBefore, StillFree, Idle
<1>7. QED
  BY <1>3, <1>5, <1>6

(* The command thread hands the command on.                                *)
LEMMA CommandThreadKeeps ==
    ASSUME ServerInv, CreateProcessorThread \/ SyncThreadReturns \/ SendDisconnect
    PROVE  (ServerTypeOK /\ OneCommand /\ ReadyFirst /\ Served)'
<1> USE DEF ServerInv
<1>0. UNCHANGED <<forked, alive, masters, master_ready, cfg_pc, affected,
                  configurator_usr2, seg_pid, serving, thr_pid, thr_idx>>
  BY DEF CreateProcessorThread, SyncThreadReturns, SendDisconnect, procVars,
         ctlVars,
         shmVars, syncVars, threadVars
<1>1. CASE CreateProcessorThread
  <2>1. /\ cfg_pc = "wait" /\ affected \in Slaves /\ ~configurator_usr2
        /\ masters # {}
        /\ exchange = {} /\ \A s \in Slaves : thr_pc[s] = "none"
    BY <1>1 DEF CreateProcessorThread, OneCommand, ReadyFirst, Idle
  <2>2. /\ thr_pc' = [thr_pc EXCEPT ![affected] = "start"]
        /\ slot' = affected
        /\ ~master_usr2' /\ exchange' = exchange
    BY <1>1 DEF CreateProcessorThread
  <2>3. \A s \in Slaves : thr_pc'[s] = IF s = affected THEN "start" ELSE "none"
    BY <2>1, <2>2 DEF ServerTypeOK
  <2>4. ServerTypeOK'
    BY <1>0, <2>1, <2>2, PidFacts DEF ServerTypeOK, ThreadPcs
  <2>5. OneCommand' /\ ReadyFirst'
    BY <1>0, <2>1, <2>2, <2>3 DEF OneCommand, ReadyFirst, Idle
  <2>6. Served'
    BY <1>0, <2>3 DEF Served, ServedIfOwned, UnservedBefore, StillFree
  <2>7. QED
    BY <2>4, <2>5, <2>6
<1>2. CASE SyncThreadReturns
  <2>1. slot' = Garbage /\ UNCHANGED <<thr_pc, master_usr2, exchange>>
    BY <1>2 DEF SyncThreadReturns, threadVars
  <2>2. ServerTypeOK'
    BY <1>0, <2>1, PidFacts DEF ServerTypeOK
  <2>3. OneCommand' /\ ReadyFirst' /\ Served'
    BY <1>0, <2>1
       DEF OneCommand, ReadyFirst, Served, ServedIfOwned, UnservedBefore,
           StillFree, Idle
  <2>4. QED
    BY <2>2, <2>3
<1>3. CASE SendDisconnect
  <2>1. /\ cfg_pc = "wait" /\ affected \in Slaves /\ ~configurator_usr2
        /\ masters # {} /\ exchange = {}
        /\ \A s \in Slaves : thr_pc[s] = "none"
    BY <1>3 DEF SendDisconnect, OneCommand, ReadyFirst, Idle
  <2>2. /\ ~master_usr2' /\ UNCHANGED <<thr_pc, slot>>
        /\ \A x, y \in exchange' : x = y
    BY <1>3, <2>1 DEF SendDisconnect, syncVars
  <2>3. ServerTypeOK'
    BY <1>0, <2>2 DEF ServerTypeOK
  <2>4. OneCommand' /\ ReadyFirst' /\ Served'
    BY <1>0, <2>1, <2>2
       DEF OneCommand, ReadyFirst, Served, ServedIfOwned, UnservedBefore,
           StillFree, Idle
  <2>5. QED
    BY <2>3, <2>4
<1>4. QED
  BY <1>1, <1>2, <1>3

(* While a thread runs nothing else does.                                  *)
LEMMA ThreadAlone ==
    ASSUME ServerInv, NEW s \in Slaves, thr_pc[s] # "none"
    PROVE  /\ cfg_pc = "wait" /\ affected \in Slaves /\ ~configurator_usr2
           /\ ~master_usr2 /\ exchange = {}
           /\ master_ready /\ masters # {}
           /\ \A t \in Slaves : thr_pc[t] # "none" => t = s
           /\ \A x \in Indexes : serving[x] = IF seg_pid[x] = NO_PID THEN 0 ELSE 1
<1>1. ~Idle
  BY DEF Idle
<1>2. cfg_pc = "wait" /\ affected \in Slaves /\ ~configurator_usr2
  BY <1>1 DEF ServerInv, OneCommand
<1>3. master_ready /\ masters # {}
  BY <1>1, <1>2 DEF ServerInv, ReadyFirst
<1>4. QED
  BY <1>2, <1>3
     DEF ServerInv, OneCommand, Served, ServedIfOwned, UnservedBefore,
         StillFree

LEMMA ProcessorThreadKeepsServed ==
    ASSUME ServerInv, ProcessorThread
    PROVE  (ServerTypeOK /\ OneCommand /\ ReadyFirst /\ Served)'
<1>1. UNCHANGED <<forked, alive, masters, master_ready, cfg_pc, affected, slot,
                  master_usr2, configurator_usr2>>
  BY DEF ProcessorThread, procVars, ctlVars, syncVars
<1>2. ServerTypeOK /\ Served
  BY DEF ServerInv
<1>3. PICK s \in Slaves :
          \/ ReadSlavePid(s) \/ SearchOwn(s) \/ SearchFree(s)
          \/ WriteSegmentPid(s) \/ SendConnect(s)
  BY DEF ProcessorThread
<1> USE DEF ThrGoto
<1>4. thr_pc[s] # "none"
  BY <1>3 DEF ReadSlavePid, SearchOwn, SearchFree, WriteSegmentPid, SendConnect
<1>5. /\ cfg_pc = "wait" /\ affected \in Slaves /\ ~configurator_usr2
      /\ ~master_usr2 /\ exchange = {}
      /\ master_ready /\ masters # {}
      /\ \A t \in Slaves : thr_pc[t] # "none" => t = s
      /\ \A x \in Indexes : serving[x] = IF seg_pid[x] = NO_PID THEN 0 ELSE 1
  BY <1>4, ThreadAlone
<1>6. PICK pc \in ThreadPcs :
         /\ thr_pc' = [thr_pc EXCEPT ![s] = pc]
         /\ pc # "none" => exchange' = {}
         /\ \A x, y \in exchange' : x = y
  BY <1>3, <1>5
     DEF ReadSlavePid, SearchOwn, SearchFree, WriteSegmentPid, SendConnect,
         ThreadPcs
<1>7. \A t \in Slaves : thr_pc'[t] = IF t = s THEN pc ELSE "none"
  BY <1>5, <1>6, <1>2 DEF ServerTypeOK
<1>8. UnservedBefore'
  BY <1>1, <1>5 DEF UnservedBefore
<1>9. OneCommand' /\ ReadyFirst'
  BY <1>1, <1>5, <1>6, <1>7 DEF OneCommand, ReadyFirst, Idle
<1>10. CASE ReadSlavePid(s) \/ SearchOwn(s)
  <2>1. /\ UNCHANGED <<seg_pid, serving, thr_idx>>
        /\ pc \in {"none", "search", "assign"}
        /\ thr_pid' \in [Slaves -> Pids]
    BY <1>2, <1>6, <1>7, <1>10 DEF ReadSlavePid, SearchOwn, ServerTypeOK
  <2>2. ServerTypeOK'
    BY <1>2, <1>1, <1>6, <2>1 DEF ServerTypeOK
  <2>3. ServedIfOwned' /\ StillFree'
    BY <1>1, <1>5, <1>7, <2>1 DEF ServedIfOwned, StillFree
  <2>4. QED
    BY <1>8, <1>9, <2>2, <2>3 DEF Served
<1>11. CASE SearchFree(s)
  <2> DEFINE x == assignIdx(seg_pid, thr_pid[s])
  <2>1. /\ UNCHANGED <<seg_pid, serving, thr_pid>>
        /\ thr_pc' = [thr_pc EXCEPT ![s] = IF x = NO_IDX THEN "none" ELSE "write"]
        /\ thr_idx' = [thr_idx EXCEPT ![s] = IF x = NO_IDX THEN @ ELSE x]
    BY <1>11 DEF SearchFree
  <2>2. x # NO_IDX => x \in Indexes /\ seg_pid[x] = NO_PID
    <3>1. seg_pid \in Tables /\ thr_pid[s] \in Pids
      BY <1>2 DEF ServerTypeOK
    <3>2. QED
      BY <3>1, AssignCorrect
  <2>3. pc = IF x = NO_IDX THEN "none" ELSE "write"
    BY <1>2, <1>6, <2>1, <1>7 DEF ServerTypeOK
  <2>4. ServerTypeOK'
    BY <1>2, <1>1, <1>6, <2>1, <2>2 DEF ServerTypeOK
  <2>5. thr_idx'[s] = IF x = NO_IDX THEN thr_idx[s] ELSE x
    BY <1>2, <2>1 DEF ServerTypeOK
  <2>6. ServedIfOwned' /\ StillFree'
    BY <1>1, <1>5, <1>7, <2>1, <2>2, <2>3, <2>5 DEF ServedIfOwned, StillFree
  <2>7. QED
    BY <1>8, <1>9, <2>4, <2>6 DEF Served
<1>12. CASE WriteSegmentPid(s)
  <2> DEFINE x == thr_idx[s]
  <2>1. /\ seg_pid' = [seg_pid EXCEPT ![x] = thr_pid[s]]
        /\ serving' = [serving EXCEPT ![x] = @ + 1]
        /\ UNCHANGED <<thr_pid, thr_idx>>
        /\ pc = "send"
    BY <1>2, <1>12, <1>6, <1>7 DEF WriteSegmentPid, ServerTypeOK
  <2>2. x \in Indexes /\ thr_pid[s] \in Pids /\ seg_pid[x] = NO_PID
    BY <1>2, <1>12 DEF WriteSegmentPid, ServerTypeOK, Served, StillFree
  <2>3. serving[x] = 0 /\ thr_pid[s] # NO_PID
    BY <1>5, <2>2, PidFacts
  <2>4. /\ \A y \in Indexes : seg_pid'[y] = IF y = x THEN thr_pid[s] ELSE seg_pid[y]
        /\ \A y \in Indexes : serving'[y] = IF y = x THEN 1 ELSE serving[y]
    BY <1>2, <2>1, <2>2, <2>3 DEF ServerTypeOK, Tables
  <2>5. seg_pid' \in Tables /\ serving' \in [Indexes -> {0, 1}]
    BY <1>2, <2>1, <2>2, <2>3 DEF ServerTypeOK, Tables
  <2>6. ServerTypeOK'
    BY <1>2, <1>1, <1>6, <2>1, <2>5 DEF ServerTypeOK
  <2>7. ServedIfOwned' /\ StillFree'
    BY <1>1, <1>5, <1>7, <2>1, <2>2, <2>3, <2>4 DEF ServedIfOwned, StillFree
  <2>8. QED
    BY <1>8, <1>9, <2>6, <2>7 DEF Served
<1>13. CASE SendConnect(s)
  <2> DEFINE x == thr_idx[s]
  <2>1. /\ UNCHANGED <<thr_pid, thr_idx>>
        /\ pc = "none"
    BY <1>2, <1>13, <1>6, <1>7 DEF SendConnect, ServerTypeOK
  <2>2. x \in Indexes /\ seg_pid[x] # NO_PID
    BY <1>2, <1>13 DEF SendConnect, ServerTypeOK, Served, StillFree
  <2>3. CASE UNCHANGED <<seg_pid, serving>>
    <3>1. ServerTypeOK'
      BY <1>2, <1>1, <1>6, <2>1, <2>3 DEF ServerTypeOK
    <3>2. ServedIfOwned' /\ StillFree'
      BY <1>1, <1>5, <1>7, <2>1, <2>3 DEF ServedIfOwned, StillFree
    <3>3. QED
      BY <1>8, <1>9, <3>1, <3>2 DEF Served
  <2>4. CASE /\ seg_pid' = [seg_pid EXCEPT ![x] = NO_PID]
             /\ serving' = [serving EXCEPT ![x] = @ - 1]
    <3>1. serving[x] = 1
      BY <1>5, <2>2
    <3>2. /\ \A y \in Indexes : seg_pid'[y] = IF y = x THEN NO_PID ELSE seg_pid[y]
          /\ \A y \in Indexes : serving'[y] = IF y = x THEN 0 ELSE serving[y]
      BY <1>2, <2>2, <2>4, <3>1 DEF ServerTypeOK, Tables
    <3>3. seg_pid' \in Tables /\ serving' \in [Indexes -> {0, 1}]
      BY <1>2, <2>2, <2>4, <3>1 DEF ServerTypeOK, Tables
    <3>4. ServerTypeOK'
      BY <1>2, <1>1, <1>6, <2>1, <3>3 DEF ServerTypeOK
    <3>5. ServedIfOwned' /\ StillFree'
      BY <1>1, <1>5, <1>7, <2>1, <3>2 DEF ServedIfOwned, StillFree
    <3>6. QED
      BY <1>8, <1>9, <3>4, <3>5 DEF Served
  <2>5. QED
    BY <1>13, <2>3, <2>4 DEF SendConnect
<1>14. QED
  BY <1>8, <1>3, <1>9, <1>10, <1>11, <1>12, <1>13 DEF Served

LEMMA CompleteExchangeKeeps ==
    ASSUME ServerInv, NEW x \in Indexes, CompleteExchange(x)
    PROVE  (ServerTypeOK /\ OneCommand /\ ReadyFirst /\ Served)'
<1> USE DEF ServerInv
<1>1. UNCHANGED <<forked, alive, masters, master_ready, cfg_pc, affected, slot,
                  master_usr2, thr_pc, thr_pid, thr_idx>>
  BY DEF CompleteExchange, procVars, syncVars
<1>2. /\ x \in exchange /\ exchange' = exchange \ {x}
      /\ seg_pid[x] # NO_PID
      /\ configurator_usr2'
  BY PidFacts DEF CompleteExchange, ServerTypeOK
<1>3. /\ cfg_pc = "wait" /\ ~master_usr2
      /\ master_ready /\ masters # {}
      /\ \A s \in Slaves : thr_pc[s] = "none"
  BY <1>2 DEF OneCommand, ReadyFirst, Idle
<1>4. exchange' = {}
  BY <1>2 DEF OneCommand
<1>5. OneCommand' /\ ReadyFirst'
  BY <1>1, <1>3, <1>4 DEF OneCommand, ReadyFirst, Idle
<1>6. CASE is_connected[x]
  <2>1. /\ seg_pid' = [seg_pid EXCEPT ![x] = NO_PID]
        /\ serving' = [serving EXCEPT ![x] = @ - 1]
    BY <1>6 DEF CompleteExchange
  <2>2. serving[x] = 1
    BY <1>2, <1>3 DEF Served, ServedIfOwned, UnservedBefore, StillFree
  <2>3. ServerTypeOK'
    BY <1>1, <2>1, <2>2 DEF ServerTypeOK, Tables
  <2>4. /\ \A y \in Indexes : seg_pid'[y] = IF y = x THEN NO_PID ELSE seg_pid[y]
        /\ \A y \in Indexes : serving'[y] = IF y = x THEN 0 ELSE serving[y]
    BY <2>1, <2>2 DEF ServerTypeOK, Tables
  <2>5. Served'
    BY <1>1, <1>3, <2>4 DEF Served, ServedIfOwned, UnservedBefore, StillFree
  <2>6. QED
    BY <1>5, <2>3, <2>5
<1>7. CASE ~is_connected[x]
  <2>1. UNCHANGED <<seg_pid, serving>>
    BY <1>7 DEF CompleteExchange
  <2>2. ServerTypeOK' /\ Served'
    BY <1>1, <2>1
       DEF ServerTypeOK, Served, ServedIfOwned, UnservedBefore, StillFree
  <2>3. QED
    BY <1>5, <2>2
<1>8. QED
  BY <1>6, <1>7

-----------------------------------------------------------------------------
LEMMA ServerStep == ServerInv /\ [Next]_vars => ServerInv'
<1> DEFINE Kept == (ServerTypeOK /\ OneCommand /\ ReadyFirst /\ Served)'
<1> SUFFICES ASSUME ServerInv, [Next]_vars PROVE Kept
  BY StepKeepsRecords, TablesAssumption DEF ServerInv
<1>1. CASE UNCHANGED tableVars
  BY <1>1
     DEF tableVars, procVars, shmVars, registryVars, testVars, ctlVars, masterVars,
              threadVars, syncVars, ServerInv, ServerTypeOK, OneCommand,
              ReadyFirst, Served, ServedIfOwned, UnservedBefore, StillFree, Idle
<1>2. CASE MasterSteps /\ Cardinality(masters) <= 1
  BY <1>2, MasterInitKeeps, CommandThreadKeeps, ProcessorThreadKeepsServed,
     CompleteExchangeKeeps DEF MasterSteps
<1>3. CASE ConfiguratorSteps
  <2>1. ASSUME NEW s \in Slaves, ConnectSlave(s) \/ DisconnectSlave(s)
        PROVE  Kept
    BY <2>1, SendCommandKeeps DEF ConnectSlave, DisconnectSlave, AtMenu
  <2>2. ASSUME NEW x \in Indexes, TestConnect(x)
        PROVE  Kept
    <3>1. created_pid[x] \in Slaves
      BY <2>2 DEF TestConnect, Disconnected, ServerInv, RegistryInv
    <3>2. QED
      BY <2>2, <3>1, SendCommandKeeps DEF TestConnect
  <2>3. QED
    BY <1>3, <2>1, <2>2, StartMasterKeeps, StopMasterKeeps, LocalCommandKeeps,
       GoOnKeeps DEF ConfiguratorSteps
<1>4. QED
  BY <1>1, <1>2, <1>3 DEF Next, ThreadMisled, vars

(* No segment is ever served by two threads (slave_processor_detached_     *)
(* thread), although each searches and writes without a lock: with one     *)
(* command under way at most, nobody writes between the two.               *)
THEOREM OneServerCorrect == Spec => []OneServer
<1>1. ServerInv => OneServer
  BY DEF ServerInv, ServerTypeOK, OneServer
<1>2. QED
  BY <1>1, ServerInitially, ServerStep, PTL DEF Spec

=============================================================================

------------------------ MODULE RtcTablesProperties -------------------------
(***************************************************************************)
(* What is checked of the processes and of the tables of their pids.       *)
(***************************************************************************)
EXTENDS RtcTables

Recorded == {created_pid[x] : x \in Indexes} \ {NO_PID}

Owned == {x \in Indexes : seg_pid[x] # NO_PID}

(* The master runs, no thread of it was misled, all has come to rest, and  *)
(* every response was read.                                                *)
Quiet == masters # {} /\ ~misled /\ AtRest /\ ~configurator_usr2

RecordsUnique ==
    \A x, y \in Indexes :
        created_pid[x] = created_pid[y] /\ x # y => created_pid[x] = NO_PID

(* The records of the configurator (configurator.c 59) are of the slaves   *)
(* that live, each of one and each in one record, and created_slaves_number, *)
(* which is never counted down, bounds their number: as long as it is below *)
(* MAX_SLAVES there is room for the next slave.                            *)
RegistryExact ==
    /\ Recorded = alive
    /\ RecordsUnique
    /\ Cardinality(Recorded) <= created_slaves_number
    /\ created_slaves_number <= MAX_SLAVES

(* A record in use is never given to another slave (configurator.c 30, 59): *)
(* it changes only when it is freed. RecordKeptCorrect says so of the       *)
(* automatic test too (configurator.c 1093), when it creates more slaves   *)
(* than there is room for: it is master_pid that is then overwritten.      *)
RecordKept ==
    [][\A x \in Indexes :
          created_pid[x] # NO_PID => created_pid'[x] \in {created_pid[x], NO_PID}]_vars

(* A search that must succeed does: a segment can be had by every thread   *)
(* that asks for one (master.c 101), a record by every slave that is       *)
(* created (configurator.c 61), and whatever has a segment when the user   *)
(* may stop the master has a record (configurator.c 568): index -1 is never *)
(* used, which would overwrite master_pid.                                 *)
IndexFound ==
    /\ \A s \in Slaves :
          thr_pc[s] = "assign" => assignIdx(seg_pid, thr_pid[s]) # NO_IDX
    /\ cfg_pc = "test_create" => \E x \in Indexes : created_pid[x] = NO_PID
    /\ Quiet => Unrecorded = {}

(* Two threads never serve one segment: none takes a segment between the   *)
(* search and the write of another (master.c 101 to 107). Nothing in the   *)
(* master prevents it; the configurator does, which waits for the answer   *)
(* to one CONNECT_SLAVE, in the test too, before it gives the next.        *)
OneServer == \A x \in Indexes : serving[x] <= 1

(* At rest a segment is owned if and only if a thread serves it, its owner *)
(* lives and is connected, and the record of the owner says so. In         *)
(* particular nothing stays of an earlier master, and nothing of a thread  *)
(* that read the pid of no process from a stale stack (master.c 182, 523). *)
(* Of one that read 0, a negative word or the pid of another process a     *)
(* segment and a thread do stay (ThreadMisled), and nothing is said then.  *)
NothingLeftBehind ==
    Quiet =>
        \A x \in Indexes :
            /\ x \in Owned <=> serving[x] = 1
            /\ x \in Owned => is_connected[x] /\ seg_pid[x] \in alive
            /\ connected[x] => created_pid[x] \in Attached
            /\ created_pid[x] \in Attached => connected[x]

-----------------------------------------------------------------------------
Directory ==
    INSTANCE RtcDirectory WITH
        Room <- MAX_SLAVES,
        up <- masters # {} /\ master_ready,
        members <- Recorded,
        attached <- IF masters = {} \/ ~master_ready THEN {}
                    ELSE {seg_pid[x] : x \in {y \in Indexes : is_connected[y]}}

(* The tables implement the abstract specification: a slave is connected   *)
(* only while a master runs and the slave lives, it is never deleted while *)
(* connected, and the slaves that are connected when the master is stopped, *)
(* and no others, go with it (configurator.c 555, 656).                    *)
DirectorySpec == Directory!Spec

-----------------------------------------------------------------------------
(* README.md: "The master is unique".                                      *)
MasterUnique == Cardinality(masters) <= 1

=============================================================================

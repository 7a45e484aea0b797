# A TLA+ model of real_time_cyclic

`real_time_cyclic` emulates a real-time bus: a **master** process exchanges
parameters cyclically with **slave** processes, and a **configurator** (a
console menu) starts everything and commands it. All of them run on one
machine and talk through System V shared memory, process-shared POSIX
semaphores and the signals SIGUSR1 and SIGUSR2.

This directory holds the specification of that program, its model-checking
configurations and machine-checked proofs. Line numbers below are those of the
repository's `src/` directory (`master.c:62` is `src/master.c`, line 62).

Contents

1. [Inventory](#1-inventory)
2. [Modules, and how they correspond to the code](#2-modules-and-how-they-correspond-to-the-code)
3. [What is abstracted](#3-what-is-abstracted)
4. [Time and fairness](#4-time-and-fairness)
5. [Properties](#5-properties)
6. [Runs, bounds and results](#6-runs-bounds-and-results)
7. [Where the program and what is said of it disagree](#7-where-the-program-and-what-is-said-of-it-disagree)
8. [Proofs](#8-proofs)
9. [What is not modelled, and the plan](#9-what-is-not-modelled-and-the-plan)

## 1. Inventory

### Components

| component | state it keeps | operations | must hold |
|---|---|---|---|
| **shared memory** `common.h`, `control.h` | per slave a segment `shmseg_t`: pid of the owner, name, last request and response in each direction, `is_connected`, `cycle_started`, the two request semaphores, parameters, errors; one control zone `control_shm_t` | read and written by everybody, without locks except the two semaphores | the request semaphores are binary; a segment belongs to one slave and one master thread |
| **slave, signal thread** `slave.c:160-234, 320-537` | `self.shmseg`, `self.name`, `change_name_idx` | takes a SIGUSR1; decides by the two semaphores whether it is a response or a request; connect, disconnect, change name, start, stop | a request is handled once; STOP gets the gate; a name is changed consistently in both copies |
| **slave, cycle thread** `slave.c:73-158, 336-384` | the gate `allow_communication_cycle`, the sleep time | samples parameters, locks `sem_s_to_m_request` with a bounded loop, sends the request | runs only between START and STOP; never uses a segment that is gone; goes on when the master does not answer |
| **master, async handler** `master.c:192-210` | `sig_semaphore[]` | counts a SIGUSR1 for the thread of its sender | a signal reaches the thread of its slave, and no later session |
| **master, sync thread** `master.c:403-455, 527-647` | - | takes a SIGUSR2, reads the command, starts a thread (CONNECT) or sends a request (DISCONNECT, START, STOP) | always comes back for the next command |
| **master, slave processors** `master.c:62-163, 486-525, 649-856` | one detached thread per slave | takes a segment, connects the slave, renames it until its name is unique, handles requests and responses, answers the configurator, resets the segment | one thread per segment; unique names; the answer matches the request |
| **configurator** `configurator.c` | `created_slave[]`, `created_slaves_number`, `master_pid` | menu commands: start/stop master, create/delete slave, connect, disconnect, start and stop a cycle, print, automatic test; waits 10 s for an answer | its records agree with the segments; what it prints is true |
| **segment table** (hash probing) `master.c:18-48, 97-107`, `configurator.c:30-83`, `slave.c:31-44` | `slave_shmseg[].pid`, `created_slave[].pid` | assign and find an index by pid | a pid has at most one index; a free index is found when there is one; a record in use is never overwritten |
| **parameter exchange** `master.c:653-688`, `slave.c:102-114` | values, "undefined" sentinels, last known values | sample, take over, mark undefined | samples are taken whole, and before the next request |
| **error buffer** `slave.h:19-31`, `master.c:611-619` | 20 strings and a size | set by two threads of the slave, read and reset by the master | the size stays in the buffer; no error vanishes; none is unjustified |
| **lifecycle** `master.c:231-400, 858-896`, `configurator.c:530-578` | processes | fork, init, start signal, kill, automatic test | one master; the slaves that are connected, and no others, end with it; the next master finds a clean zone |

### Interactions

    user -> configurator --request, affected_slave_pid, SIGUSR2--> master sync thread
                                                    |  CONNECT: new processor thread
                                                    |  others:  lock sem_m_to_s_request,
                                                    v           write req_m_to_s, SIGUSR1
         slave signal thread <------- SIGUSR1 ------+
            |  res_s_to_m, SIGUSR1
            v
         master async handler --sig_semaphore--> processor thread
                                                    |  response, SIGUSR2
                                                    v
                                               configurator

    slave cycle thread --lock sem_s_to_m_request, req_s_to_m, SIGUSR1--> master
    processor thread --SIGUSR1--> slave signal thread --post sem_s_to_m_request

A signal carries no type. Both sides decide what one means by the values of the
semaphores when they come to look at them: `sem_s_to_m_request` locked means
"request of the slave" to the master and "response of the master" to the
slave, otherwise `sem_m_to_s_request` locked means "response of the slave" and
"request of the master".

### What is hard

* The same signal stands for four messages; one of each signal is pending at
  most, and a second is dropped.
* Six kinds of threads read and write a segment. `sem_m_to_s_request` is locked
  in one thread and posted in another, and reset together with the segment.
* Timeouts: the lock loop of the cycle thread gives up, the configurator stops
  waiting, and neither withdraws what it asked for.
* The STOP handler blocks the only thread that handles responses.
* Values are checked and used later: listings before the user picks, `pid`
  before and after `sem_wait`, `request` when the signal is taken, names.

The hazards are listed with their lines in `PROJECT.json`.

## 2. Modules, and how they correspond to the code

| module | stands for |
|---|---|
| `RtcShm` | the segments, the control zone, live processes and pending signals; `KillMaster`, `KillSlave`, `KillConfigurator` |
| `RtcSlave` | `slave.c`: one group of actions per thread |
| `RtcMaster` | `master.c` after `init`: `AsyncSignalHandler`, `SyncSignalHandlerThread`, `SlaveProcessorThread` |
| `RtcConfigurator` | the loop of `main` in `configurator.c` for the commands about slaves |
| `Rtc` | the processes together, the regime `Prompt`, `Spec`, `FairSpec` |
| `RtcProperties` | every property the runs check |
| `RtcSession` | the abstract specification: what the program promises of a session |
| `RtcConversation` | the invariant of the protocol when sleeps outlast the work: what is under way between configurator, master and slaves |
| `RtcProofs` | theorems of `Rtc` with nothing assumed of time |
| `RtcConversationProofs` | theorems of `Rtc` with `Prompt`, from that invariant |
| `MCRtc` | values for the constants of `Rtc` |
| `RtcProbe` | the hash tables: `assignShmsegIdx`, `assignLocalIdx`, `getAssignedShmsegIdx`, `getAssignedLocalIdx` as operators |
| `RtcTables` | processes and the tables of their pids: START and STOP of the master, CREATE, DELETE, CONNECT, DISCONNECT, the automatic test, the thread of a slave up to its loop |
| `RtcTablesProperties` | what is checked of `RtcTables` |
| `RtcDirectory` | the abstract specification of it: one master, slaves that exist, slaves attached |
| `MCTables` | values for the constants of `RtcTables` |
| `RtcData` | one communication cycle in time: sampling, the lock loop, the errors, the thread that takes the parameters and logs, STOP and START |
| `RtcDataProperties` | what is checked of `RtcData` |
| `RtcTablesProofs`, `RtcServerProofs`, `RtcDirectoryProofs` | theorems of the tables, each extends the one before |
| `RtcDataProofs`, `RtcCycleProofs` | theorems of `RtcData`: whatever the master's pace, and with a prompt master |

There are three models. `Rtc` is the protocol: `RtcSlave`, `RtcMaster` and
`RtcConfigurator` extend `RtcShm`; `Rtc` extends the three; `RtcProperties`
extends `Rtc` and instantiates `RtcSession`; `RtcConversation` extends
`RtcProperties`. `RtcTables` is about which process
has which place in which table; it extends `RtcProbe`, and
`RtcTablesProperties` instantiates `RtcDirectory`. `RtcData` is about the
contents of one segment while its cycle runs. What one model treats in detail
another takes as a step: an exchange of request and response is some fifteen
actions of `Rtc` and one of `RtcTables` (`CompleteExchange`); a segment is
simply owned or not in `Rtc`, and a place of a table in `RtcTables`; a sample
is one action without contents in `Rtc`, and one per parameter in `RtcData`.

**State.** A field of the segment is a function from slaves (`is_connected[s]`,
`req_m_to_s[s]`, ...), with the name it has in the code; `owned[s]` is
`pid == slave pid`, `cycle_us_set[s]` is
`communication_cycle_us != ERROR_NOT_SET_COMMUNICATION_CYCLE_MS`. The value of a
semaphore is a number. A thread is a control point: `sig_pc[s]`, `cyc_pc[s]`,
`thr_pc[s]`, `sync_pc`, `cfg_pc`; `master_usr1` is the `si_pid` of the one
SIGUSR1 that can be pending for the master.

In `RtcTables` a table is a function from indexes to pids, `slot` is the stack
word that the argument of a new thread points to (`master.c:182`), and `place` is
where the loop of the automatic test is. In `RtcData` time is counted in the
sleeps of the lock loop: `sleep` is what is left of the sleep of the cycle
thread, `sleep_us` its next one, `elapsed` the time since the last sample;
`lost`, `pauses`, `raised`, `refused` and `logged` record what has happened and
are read by no action but as a bound.

**Actions.** A thread's action runs from one point where another thread can
tell the difference to the next: a lock taken, a semaphore read, a flag
written, a signal sent. So the two `sem_getvalue` calls of `slave.c:207` and
`slave.c:217` are two actions (`CheckMasterResponse`, `CheckMasterRequest`),
`handle_disconnect_slave_request` is two (the master is signalled before
`self.shmseg` is cleared), `handle_change_name_slave_request` is two (the
shortened name can be seen by other threads), START is two (the gate opens
before the answer) and STOP is two (it blocks). The bounded loop of
`send_master_signal_master_parameter_request` is one action per attempt.
`set_error` is three actions in `RtcData` (`WriteError`, `LoadErrorSize`,
`StoreErrorSize`), because the master resets the size meanwhile. The start of a
thread in the master (`master.c:94-113`) is two actions in `Rtc`: it reads its
argument and finds no segment of the slave (`SearchSegment`, `assigning[s]` counts
the threads that are that far), and later it writes the pid into the free
segment it has found (`WriteSegmentPid`). Between them other threads of the same
slave or of others may do the same. `RtcTables` splits the start further
(`ReadSlavePid`, `SearchOwn`, `SearchFree`, `WriteSegmentPid`, `SendConnect`).

## 3. What is abstracted

In `Rtc`:

* **A slave stands for its segment.** Which of the `MAX_SLAVES` segments a pid
  is given is in `RtcTables`.
* **Two threads for one segment.** Two threads of one slave that start at the
  same time, or threads of two slaves that find the same free segment, can both
  come to serve it. `ServeTwice` is that step, it sets `clash`, and the master
  does nothing more in the model (`MasterRuns`): two threads that post, lock and
  reset one segment are not followed. The slaves and the configurator go on. So
  what is claimed without `Prompt` is claimed until then, and `OneProcessor`
  says under which conditions it never comes to that.
* **The argument of a new thread** is the address of a parameter of a function
  that has returned (`master.c:182`). `Stale` is what the thread may find there
  instead of its pid: the pid of another slave, or one of the `Words`. With
  "nobody", the pid of no process, it takes a segment, fails to signal, resets
  the segment and ends without telling anybody (`LoseConnect`). With "group", 0,
  it signals the process group, and the configurator ends of it
  (`SignalGroup`). With "negative" its search begins in front of the zone, and
  the master ends in the model (`SearchInFront`). Not among them are the pids of
  the master, of the configurator (which block or do not block SIGUSR1) and of
  processes that do not belong to the program.
* **Names** are sequences of numbers, one for the word and one for each suffix
  `_<number>`; equality and "erase the last suffix" are all the code does with
  them. Given names contain no `_` of their own unless `BaseName` gives them one.
* **Values, errors, lengths of time** are left out: nothing modelled there
  depends on them; `RtcData` has them. `res_m_to_s` is always ACK (`send_slave_nack_response` has no caller)
  and the slave ignores it.
* **Library calls** (`sem_*`, `usleep`, `pthread_create`, `getline`) do not
  fail. `kill` to a slave that has died succeeds: its parent never waits for
  it, so the pid stays taken.
* **Pairs of statements** that are one action, because the second follows at
  once and no property tells an interruption apart: writing a response and the
  signal that announces it; the answer to the configurator and the `sem_post`
  after it; the name comparison and `is_connected = true`;
  `cycle_started = true` and opening the gate; resetting the segment, the
  answer, and the end of the thread; the prompts of START, the write of the
  cycle time and the signal.
* **All slaves exist at the start**, the master has been started and has said
  so. The commands START_MASTER, STOP_MASTER, CREATE_SLAVE (see `RtcTables`),
  the two print commands and invalid numbers are one command `OTHER`, which only
  overwrites `request`.
* **Undefined behaviour**: an index of -1 in front of the shared memory
  (`master.c:638`, `configurator.c:874`) ends the process, after which nothing
  of it is claimed; `NoProcessLost` says when that does not happen. An index of
  -1 into `created_slave` does not occur in `Rtc`, it is in `RtcTables`. A NULL
  `self.shmseg` ends the slave (`DereferenceNull`).

In `RtcTables`:

* **The exchange** that connects or disconnects a slave is one step, refusals
  are left to `Rtc`, and a command is given when the work of the one before has
  come to rest (`AtRest`): the wait of the configurator, 10 s, is longer than a
  connection. No cycle runs.
* **Pids** are never used again: nobody waits for the children, so a pid stays
  taken. `Home` is `pid % MAX_SLAVES`.
* **The stale word** is followed in its steps when it is `Garbage`, the pid of no
  process. When it is anything else but the pid that was given - 0, a negative
  number, the pid of another process - the thread signals, or gives a segment
  to, a process it was not made for. `ThreadMisled` is that moment, it may come
  whenever a thread has not read its argument before the function returned,
  and the model does not go on after it (`misled`). Nothing is claimed of what
  stays then: of a living pid a segment and a thread do.
* **`created_slave[-1]`** is what precedes the array in
  `configurator_context_t` (`configurator.h:27-29`): its `pid` is `master_pid`,
  and its `connected` the low byte of `created_slaves_number`, which is so with
  four-byte fields, no padding and the low byte first.
* **`MasterFirst`** - the user gives any other command only while the
  configurator has a master, so none before the first is started and none between a
  STOP_MASTER and the next START_MASTER. Without it a slave that finds no zone
  ends at once (`slave.c:259`) and commands go to pid -1, every process of the
  user. `tables` has it; only proofs and `v_master_unique` go without.
* **`Overfill`** - the automatic test may be asked for more slaves than have
  room. `v_master_unique` has it, `tables` has not; `RecordKeptCorrect` is proved
  for both.
* **The model stops when two masters run** (`Next`): they share the zone, and
  the run `v_master_unique` shows how it comes to that.

In `RtcData`:

* **One slave.** Others appear in that a SIGUSR1 of this one is dropped while
  one of theirs is pending (`lost`); the bound is `MaxLosses`.
* **Samples** are numbers modulo `Rounds`; the master's last known values start
  undefined. `bool` is a byte, which never equals the -1 that marks it
  undefined (`FoundUndefined`).
* **STOP and START** come when no response is awaited, so that their signal is
  taken for what it is; that it may be taken for a response is in `Rtc`. What
  `set_error` says of a START or STOP that is refused is left out.
* **Time** - `elapsed` stops at three cycles; more is not told apart. A cycle
  has at least three ticks where the interval error is of interest, since the
  sleep is one tick short and the error begins at half a cycle.

## 4. Time and fairness

With `Prompt = FALSE` everything may take any time: a thread may stand still
for as long as it likes, and the configurator may give up its wait at any
moment. What holds there holds of every schedule.

Much of the code relies on sleeps being long compared with work (a cycle is
hundreds of milliseconds, the wait for an answer 10 seconds, handling a signal
is microseconds). `Prompt = TRUE` states just that: a sleep of a cycle thread
ends, a wait of the configurator times out, and the user gives the next
command number, only when the work that is under way has come to rest (`Quiet`,
`Settled` in `Rtc`). All interleavings of the work itself remain: two slaves may
signal together, a STOP may meet a parameter request. The pid for a command may be
typed at any time, so a listing may be stale under `Prompt` too.

`Fairness` is weak fairness of each thread (signal, cycle, processor threads,
the async handler, the sync thread) and of the configurator once a command has
been begun: the scheduler runs every thread that can run, sleeps end, and the
user finishes what was begun. Nothing makes the user give another command. No
strong fairness is assumed: `sem_wait` does not promise that the STOP that
waits for the gate ever beats the cycle thread that takes it again and again,
and `GateOpens` therefore says only that the gate opens again and again.

In `RtcData`, `Prompt` says that time passes only when nobody but the cycle
thread has anything to do, and `FairSpec` is weak fairness of time and of each
thread. Signals may be lost at any moment, and nothing makes the user stop the
cycle or start it again. `RtcTables` has no liveness property.

## 5. Properties

With nothing assumed of time (`Prompt = FALSE`), nor of the stale word:

* `TypeOK` - counters stay in their range, indexes lead to slaves, the lock loop
  ends when it should.
* `NamesKeptApart` - connected slaves have different names, however CONNECT,
  CHANGE_SLAVE_NAME and DISCONNECT interleave, as long as no two threads have
  come to serve one slave (`clash`) and no signal went to every process. After
  either the code does not keep names apart: a slave that is asked twice
  erases its suffix a second time, and may be connected under its first name. It is
  checked without cycles: what signals left over from a cycle do to a later
  CHANGE_SLAVE_NAME when threads are slow is not claimed.

With sleeps longer than work (`Prompt = TRUE`), and a stale word that is at worst
the pid of no process:

* `OneProcessor` - no two threads serve one segment or one slave, although the
  start of a thread is not atomic and a CONNECT may be repeated; a segment is
  owned exactly while its thread serves it, only an owned segment is connected, a
  response is handled only with the request locked.
* `LinkLockBinary` - `sem_m_to_s_request` is never above 1, although two
  threads lock it, a third posts it and a reset sets it back. Without `Prompt`
  two threads of one slave would post it twice.
* `UniqueNames` - connected slaves have different names.
* `GateConserved` - the gate is one token, with the semaphore or the cycle
  thread, while a cycle runs or a STOP waits, and none otherwise.
* `FirstRequest` - the lock is free when a new thread sends CONNECT_SLAVE.
* `NoSignalLeftOver` - no signal of one session is counted for the next.
* `NoLateAnswer` - an answer is pending only for a configurator that waits.
* `RecordsAgree` - `created_slave[].connected` is `is_connected` whenever all is at rest.
* `NoProcessLost` - the master and the configurator survive: no index of -1, no
  `kill(-1)`. It is not about slaves: a slave may die of a NULL segment under
  `Prompt` too (`DereferenceNull`), when its cycle is stopped while it sleeps in
  the lock loop and it is disconnected before that sleep ends.
* `AnswersTrue` - the ACK or NACK that the configurator reads for CONNECT,
  DISCONNECT and START is true of the slave then.
* `SessionSpec` - the segments implement `RtcSession`, under the mapping
  `phase <- sessionPhase, title <- name`.
* `ConnectCompletes` - without cycles every slave that was given a segment is
  connected in the end, or is refused because it has no number left for another
  name (`Refused`).
* `TimeoutJustified` - without cycles a wait ends without an answer only for a
  CONNECT whose thread did not read the pid it was given, or whose slave was
  refused before and has kept its segment.
* `GateOpens` - a STOP that waits at the gate is not deadlocked.
* `CycleGoesOn` - a started cycle comes to its next request again and again,
  although responses may be lost.
* `RequestLockBounded` - `sem_s_to_m_request` gets one unit too many at most,
  however often a cycle is stopped while it waits for the master.
* `Conversation` (module `RtcConversation`) - which signals, locks and threads
  can be in use at once; the inductive invariant of section 8.

Of the tables (`RtcTablesProperties`):

* `RegistryExact` - the records of the configurator are of the slaves that live,
  each in one record, and `created_slaves_number`, which is only counted up,
  bounds their number.
* `RecordKept` - a record in use is only ever freed, never given away.
* `IndexFound` - no search that is taken for granted fails: there is a segment
  for a thread that asks for one, a record for a slave that is created, and a
  record for each slave that STOP_MASTER kills.
* `OneServer` - no segment has two threads, although taking one is not atomic.
* `NothingLeftBehind` - at rest a segment is owned exactly if a thread serves it,
  and its owner lives, is connected and recorded as connected: nothing stays of
  an earlier master, and nothing of a thread that read the pid of no process.
  Where a thread has read another wrong word (`misled`) nothing is said.
* `DirectorySpec` - the tables implement `RtcDirectory`, under the mapping
  `up <- masters # {} /\ master_ready, members <- Recorded, attached <-` the
  connected pids.

Of the cycle (`RtcDataProperties`):

* `SampleWhole` - while the master copies the parameters of a request, those it
  has still to copy are of the sample the slave last wrote.
* `SampleTaken` - when the next request may be made, everything that was asked
  for has been taken.
* `ErrorsAccounted` - what was raised is logged, in the buffer, or refused for
  want of room.
* `ErrorsJustified` - at most one "late answer" for each lost signal, and at most
  one "exceeded interval" for each lost signal and each pause.
* `LossesLogged` - every lost signal is in the end logged as both, unless the
  buffer was full or the cycle is stopped.
* `ExchangeGoesOn` - after losses and pauses the sample of a started cycle is
  again and again taken and its request unlocked.

Refuted, see section 7: `StopAnswerTrue`, `CommandsTaken`, `MasterUnique`,
`UndefinedNotRecorded`.

## 6. Runs, bounds and results

`tlc -config <run>.cfg <module>`. States are distinct states.

Module `MCRtc`:

| run | slaves | Prompt | stale word | commands | how many | states | checks |
|---|---|---|---|---|---|---|---|
| `one_slave_prompt` | 1 | yes | nobody | all | 40 | 0.11 M | `GateConserved`, `RecordsAgree`, `NoProcessLost`, `RequestLockBounded`, `AnswersTrue` |
| `two_slaves_prompt` | 2 | yes | nobody | all | 7 | 1.3 M | `OneProcessor`, `LinkLockBinary`, `FirstRequest`, `NoSignalLeftOver`, `NoLateAnswer`, `Conversation`, `SessionSpec` |
| `one_slave_delays` | 1 | no | any word | all | 3 | 1.8 M | `TypeOK` |
| `two_slaves_delays` | 2 | no | any word, any slave | CONNECT, DISCONNECT | 4 | 2.7 M | `NamesKeptApart` |
| `names_live` | 4 | yes | nobody | CONNECT, DISCONNECT | 7 | 51 k | `UniqueNames`, `ConnectCompletes`, `TimeoutJustified` |
| `cycles_live` | 2 | yes | nobody | CONNECT, START, STOP | 5 | 0.19 M | `GateOpens`, `CycleGoesOn` |

The other modules:

| run | module | states | checks |
|---|---|---|---|
| `tables` | `MCTables` | 0.68 M | `TypeOK`, `RegistryExact`, `IndexFound`, `OneServer`, `NothingLeftBehind`, `DirectorySpec`, `RecordKept` |
| `data_losses` | `RtcDataProperties` | 0.51 M | `TypeOK`, `SampleWhole`, `SampleTaken`, `ErrorsAccounted`, `ErrorsJustified`, `LossesLogged`, `ExchangeGoesOn` |

Bounds of the `MCRtc` runs, and why they are enough to meet the interesting cases:

* `MaxCommands`: the commands a user gives. Seven with two slaves are connect,
  connect, start, start, stop, stop, disconnect; with one slave forty under
  `Prompt` is several whole lives of the slave; with delays, four (two slaves) or
  three (one slave, every command) are a connection, a command after it and one
  that is chosen from a stale listing and overtakes it; the slave that loses its
  segment in the middle of a cycle needs no more.
* `MaxTokens`: signals counted in `sig_semaphore[s]` and not yet processed; a
  further one waits as pending. Two are enough for a stale signal to be
  processed after the one that was meant.
* `MaxSpawned`: threads created for a slave and not yet running; one, beside one
  that has searched and not yet written and one that runs, is the second and third
  CONNECT for a slave that is being connected. Both runs with delays reach
  `ServeTwice` this way.
* `Stale`: see section 3. In the runs with `Prompt` only CONNECTs are lost; the
  runs with delays have every word.
* `Segments`: attempts of the lock loop (20 in the code). One is a loop that
  waits once and then gives up.
* `ChangeNameMax`: the largest `unsigned` (2^32-1 in the code). With 2 a slave
  changes its name twice, and the third time the number overflows.
* Names: `OneWord`, all slaves created under the same name, as the automatic
  test does; `Overlapping`, two slaves of one name and two that were given the
  names one of them changes to: the slave that comes last is connected after two
  changes, or refused, and a name that was given may be taken already.

`tables`: three places and four pids, so that one slave is created after
another was deleted and finds its place taken by a third (`Wrap`: the last place
is wanted by two slaves and the stale word, and their search goes round); two
masters one after the other, so that the second takes over the zone of the
first; tests of up to three slaves. The test is never asked
for more slaves than have room: that is left to the proofs.

`data_losses`: five ticks a cycle, so that half a cycle, a shortened sleep and a
whole cycle are told apart; two losses, in successive cycles or far apart; two
pauses; a buffer of two, which two losses or a loss and a pause fill; three
samples told apart, of which no two successive ones are equal. All seven sets of
requested parameters are initial states. It checks deadlock: there is none.

`SYMMETRY` is used where all slaves have the same given name and only safety is
checked. Deadlock is not checked in the other runs: the program is at rest, for
good, when the user stops giving commands or the pids of the model run out.

Every property has a mutant, a small plausible mistake in one action (an
operator named `<action>_<what>` beside it), under which its run fails.

## 7. Where the program and what is said of it disagree

Found while modelling; each is the trace of a run that is expected to fail.

* `v_stop_answer` - "Stop slave cycle slave request succeded!"
  (`configurator.c:422`) is printed while the cycle runs. A STOP is sent while
  the slave waits for the response to a parameter request: its signal is taken
  for that response. The next signal of the slave finds `sem_m_to_s_request`
  locked, is taken for the answer to the STOP, and the ACK of the START that is
  still in `res_s_to_m` is passed on.
* `v_commands_taken` - the other end of the same race: the request has been
  lost, its lock is never released, and the next request for that slave blocks
  `sync_signal_handler_thread`, which is the only thread that takes commands.
* `v_master_unique` - "The master is unique" (`README.md:19`), and CREATE_SLAVE
  refuses a slave when there are `MAX_SLAVES` (`configurator.c:582`). The loop of
  the automatic test does not compare the number (`configurator.c:1093`): when
  no record is free, the pid of the new slave is written to `created_slave[-1]`,
  which is `master_pid`. STOP_MASTER then kills that slave and takes the master
  for stopped; START_MASTER forks a second one while the first runs.
* `v_bool_missing` - "the master should log if a slave ... did not send a
  requested parameter" (`README.md:68`). A `bool` that was not sent is never
  noticed: `bool_value` is an unsigned byte and is compared with -1
  (`master.c:678`), and what marks it undefined becomes the last known value.

Others were met and have no run of their own:

* `common.h:99` calls `sem_s_to_m_request` a "Binary semaphore like mutex". The cycle
  thread has locked it when a STOP closes the gate. The master finds it locked,
  takes the signal of the response to the STOP for a request and answers the
  request of the cycle before; `handle_master_response` posts the lock for that
  answer, and the cycle thread posts it because the gate is closed
  (`slave.c:371`). A cycle thread that gave up the wait for the lock posts it in the
  same place without ever having had it. `RequestLockBounded` says that it never
  has more than two units; with one, `one_slave_prompt` fails.
* "Surely this is first request since configurator can't send any other requests to
  master that send requests to slave unless master is connected to slave"
  (`master.c:112-114`). A CONNECT whose thread is slow is given again after the
  wait timed out. Before the master takes the second signal, the user chooses
  DISCONNECT in the menu, which writes the request (`configurator.c:249`)
  although no slave will be listed. The master reads a DISCONNECT of a slave that
  has a segment, and takes its lock before the thread does. It takes delays of
  seconds: with `Prompt`, `FirstRequest` holds.
* `slave.h:57` says that `send_master_signal_master_parameter_request` returns the
  elapsed time; `slave.c:383` returns the length of one sleep. A cycle in which
  the master answers in time is one twentieth too short, and one in which it
  does not is not shortened by the wait. `SendRequest` of `RtcData` has this.
* A STOP does not reset the time of the last sample (a DISCONNECT does), so the
  first sample after a START is reported as exceeding the cycle by the length of the
  pause. `ErrorsJustified` has to allow for it.
* Without a master, a command about a slave is sent to pid -1; a slave that is
  created before there is a zone ends at once but is recorded. Both are in
  `RtcTables`, and kept out of the run `tables` by `MasterFirst`.

And one is known to the code itself: "Never miss a signal from a slave"
(`README.md:70`) does not hold, since of two slaves that signal together one
signal is dropped (`configurator.c:1151` notes "we miss signals"). The model has
this (`KillMaster`), and `CycleGoesOn` shows that the cycles survive it.

## 8. Proofs

`tlapm <module>.tla` for `RtcProofs`, `RtcConversationProofs`, `RtcSession`,
`RtcTablesProofs`, `RtcServerProofs`, `RtcDirectoryProofs`, `RtcDataProofs` and
`RtcCycleProofs`. Besides the hypotheses a theorem states, they assume only
the named assumptions on constants (`ShmAssumption`, `SlaveAssumption`,
`MasterAssumption`, `ConfiguratorAssumption`, `RtcAssumption`,
`ProbeAssumption`, `TablesAssumption`, `DataAssumption`), which TLC evaluates in
the runs.

Of `Spec` of module `Rtc`, for every set of slaves, given names and bounds, with
or without `Prompt`:

* `TypeCorrect == Spec => []TypeOK`. `TypeOK` is not inductive: whether the
  segment a command leads to exists, and whether the next number of a name
  fits, was decided some steps earlier. `TypeInv` adds `Targets` (a command
  under way is for a slave) and `NumbersFit` (a slave about to write a new name
  has a number left). One lemma per thread shows that its steps keep `TypeInv`.
* `RtcSession!TitlesUnique == Spec => []UniqueTitles`: in the abstract
  specification names of slaves in session are distinct.
* `NamesFromSession == Spec /\ SessionSpec => []UniqueNames`: a behaviour of the
  program that implements the abstract session keeps the names distinct, with or
  without `Prompt`.

Of `Spec` of module `Rtc` with `Prompt`, `Segments > 0` and `Stale \subseteq
{"nobody"}`, for every set of slaves, given names and bounds
(`RtcConversationProofs`). `slave.h:7` sets twenty segments; with none the cycle
thread would give up every request before its answer, and the invariant would be
false. With any other stale word the configurator or the master may be
ended, or a slave connected that nobody asked for.

The invariant is `LockInv /\ Conversation`, where `LockInv` is `TypeInv`,
`Served` (the second half of `OneProcessor`) and `LinkLockBinary`; that no two
threads have come to serve one slave is part of `Conversation`. What makes the properties true is not
in any of them: slave and master tell a request from a response by the values of
two semaphores, so that each lock, each signal and each thread has to be in its
place when the other side looks. `Conversation` says, for each slave:

* `Bounded`: both locks, the threads about to signal, and the signals under way
  make two at most. A lock that is taken is paid for by a signal, and a signal that
  is handled by a lock. This alone gives `RequestLockBounded`, in spite of the unit
  that `slave.c:371` posts too many.
* `GateHeld`: the gate of the cycle is one token (`GateConserved`).
* `RestsUnlessSent`: unless the configurator waits for a command about this slave that
  the master has passed on, only the slave's own cycle uses the signals, one at
  a time. `Detached`: a slave without a segment has its lock released and no
  signal counted, and one that is not connected runs no cycle.
* `Stage`: where such a command may be (`ConnectSent`, `RequestSent`,
  `StartSent`). A STOP may meet a request of the cycle, and a START the first
  request of the cycle it started: these are the crossings of section 7, in which an
  answer is lost or taken for another; the invariant says what is left true then.
* `RequestLock`, `Answering`, `HandlesRequest`: which values of the semaphores
  the two sides can find when they decide what a signal means.
* `CyclesAlive`: `self.shmseg` is there as long as a cycle is started.
* `ListedRightly`, `Recorded`: what the configurator listed stays true until it
  is answered, and its records are right but for an answer not read yet.

and for all together `CommandInv` (one command at most is under way), which
counts a thread that is about to start among what is under way, and
`Answered` (an answer that is pending is true of the slave). A thread works
for one slave, so one lemma per thread shows that `SlaveInv` of that slave is
kept (`SignalThreadHere`, `CycleThreadHere`, `ProcessorThreadHere`, ...), and one,
`Elsewhere`, that the other slaves do not notice. `Prompt` is used in two places:
a sleep of a cycle ends when the slave is quiet (`QuietSlave`), and a user gives a
command, or a wait times out, when all slaves are (`SettledSlave`).

* `OneProcessorCorrect == Spec => []OneProcessor`: a new thread may be slow and
  the search and the write are apart, so that two threads of one slave would
  clash; `NotServedTwice` shows that no second thread is on its way when one
  writes its pid, because the CONNECT it was made for is still awaited.
* `LinkLockCorrect == Spec => []LinkLockBinary`. The lock stays binary because it
  is posted only at the end of handling a response, and a response is handled
  only while it is locked, which needs one thread per segment: a second thread
  could post it between the check and the handling.
* `ConversationCorrect`, and from it `GateConservedCorrect`, `FirstRequestCorrect`,
  `RequestLockBoundedCorrect`, `NoSignalLeftOverCorrect`, `NoLateAnswerCorrect`,
  `RecordsAgreeCorrect` and `NoProcessLostCorrect`, each `Spec => []...`.
* `AnswersCorrect == Spec => AnswersTrue`, an action property: `Answered` holds
  when the configurator reads the answer.
* `SessionCorrect == Spec => SessionSpec`, the refinement of `RtcSession`. `Attach`
  is the step of `WriteSegmentPid`, `Connect` that of
  `FinishConnect`, `Disconnect` that of `FinishDisconnect`; `StartCycle`, `StopCycle`
  and `TakeName` are the handlers of the slave. The other steps of the program leave
  the sessions alone. What has to be known is that a request is handled only in the session
  it was sent in (`Stage`), and that its cycle is stopped when a session ends (`Calm`).
* `NamesUnique == Spec => []UniqueNames`: `NamesFromSession` without its
  hypothesis. Without `Prompt`, what is left of it (`NamesKeptApart`) is only
  model-checked (`two_slaves_delays`).

Of the tables, for every `MAX_SLAVES`, set of pids and `Home`, with and without
`MasterFirst` and `Overfill`:

* `GetAssignedCorrect`, `AssignCorrect` (`RtcTablesProofs`): a search finds a
  place that holds the pid (a free place) if there is one, and returns -1 if
  there is none. The probe sequence meets every place, from wherever it begins.
* `UniqueRecordsCorrect == Spec => []RecordsUnique` and `RecordKeptCorrect ==
  Spec => RecordKept`: no slave has two records, and no record is overwritten.
  The invariant `RegistryInv` adds that a recorded pid was given by `fork`, so
  the pid of a new slave is in no record; `AssignCorrect` says that the record
  written was free, or that none is, and then -1 is written, which is no record.
* `OneServerCorrect == Spec => []OneServer` (`RtcServerProofs`). Two threads that
  search at once would find the same free segment. `ServerInv` says why they do
  not: one command at most is under way, as a pending signal, as one thread, or
  as one request that a slave has to answer, and only while the configurator
  waits (`OneCommand`); only an initialised master has work (`ReadyFirst`); a
  segment is served exactly while it holds a pid, and the one a thread found
  free is still free when it writes (`Served`). So the master is right only
  because of a discipline of another process.
* `RtcDirectoryProofs`, with `Polite` (`MasterFirst` and not `Overfill`) but for
  `TablesTypeCorrect`: `RegistryExactCorrect`, `IndexFoundCorrect`,
  `NothingLeftBehindCorrect` and `DirectoryImplemented`, from `DirectoryInv`. It says
  for every segment in use why it is (`OwnedForReason`: its owner is connected, or is
  the one slave the command under way is about, or is no process and about to be
  given up), and for every command and thread under way what it works on
  (`CommandSound`, `ThreadSound`). All of it is said of the behaviours up to the
  moment a thread is misled by its stale word.

Of the cycle, for every size of the buffer and number of segments, with and
without `Prompt`:

* `DataTypeCorrect == Spec => []TypeOK`: in particular the size of the error
  buffer never passes `SHMSEG_ERROR_SIZE`. `TypeOK` alone is not inductive,
  because the size is stored from an earlier reading; `RoomKept` adds that there
  is room from the comparison to the store, since the master only empties the
  buffer.

And of the cycle with `Prompt` and `Segments > 1` (slave.h:7 has 20), for any
number of losses, pauses and samples (`RtcCycleProofs`), all from
`ExchangeInv == DataInv /\ CycleInv /\ SampleInv /\ AccountInv`. With one segment the
invariant is false: the slave would sleep not at all before its first look.

* `CycleInv` is about control and time: the gate is opened once for a started
  cycle and once more while a STOP waits for it (`GateKept`); request and answer
  are at most one, in one place, and while there is one the request is locked
  (`OneAnswer`); where the cycle thread can be meanwhile (`CycleWaits`), and how
  far its clocks have come (`TimeKept`).
* `ErrorsJustifiedCorrect == Spec => []ErrorsJustified`, by counting:
  `LateJustified` says that blames plus a loss not noticed yet are at most the
  losses; `IntervalJustified` that the intervals found too long, plus those that
  are still to come for what has happened already (`Due`), are at most the late
  answers and the pauses.
* `SampleWholeCorrect` and `SampleTakenCorrect`: `SampleInv` follows one sample
  from the write to the log (`SampleMade`, `SampleWritten`, `SampleGoneThrough`,
  `SampleKnown`); that nothing is written between the copies is `CycleWaits`.
* `ErrorsAccountedCorrect`: `AccountInv` counts the places of the buffer that
  hold each error, between the three steps of `set_error` and those of the
  master that empties it. Without `Prompt` it is false (the two writes of the
  size overlap, and an error is lost): `data_losses` is about prompt threads.
* `UndefinedNotRecordedWhenPrompt == Spec => UndefinedNotRecorded`: what the run
  `v_bool_missing` refutes does hold when the master is prompt. The missing test
  of `master.c:685` therefore shows only with a master that is slower than the
  time the slave waits for it.

Only model-checked: `NamesKeptApart`; `TimeoutJustified`, which needs to know how
many numbers a name has left; and all liveness (`ConnectCompletes`,
`GateOpens`, `CycleGoesOn`, `LossesLogged`, `ExchangeGoesOn`), which is out of the
prover's reach.

## 9. What is not modelled, and the plan

Done: the protocol (`Rtc`), the tables and the lifecycle (`RtcTables`), the
exchange and the errors (`RtcData`). What is left, most valuable first:

1. **Proofs** of `TimeoutJustified` without cycles, and of `NamesKeptApart`.
2. **Two threads in one segment** (`clash`) and a thread for another process
   (`misled`): both end what the models follow; what two threads do to the locks
   of one segment is left to say.
3. **The start-cycle stage of the automatic test** (`configurator.c:1135-1155`),
   which sends START to one slave after another while cycles run already.
4. **Without a master first**: what is still true when slaves are created before
   there is a zone; `RtcTables` has the actions, no property is stated.
5. **Errors of the signal thread**, which shares the buffer with the cycle
   thread (a START or STOP that is refused): two writers of one size.

Left out for good: printing of data and logs (pure output; choosing it
overwrites `request`, which `OTHER` models), the Makefile, `syslog`, system
calls that fail (each ends the process or is logged; the code has no recovery to
model).

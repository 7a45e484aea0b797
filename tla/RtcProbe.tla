------------------------------ MODULE RtcProbe ------------------------------
(***************************************************************************)
(* The hash tables of the program: the pids of the segments (common.h      *)
(* 110-113) and of the records of the configurator. Both are searched from *)
(* the place pid % MAX_SLAVES on, once around, for the first place that    *)
(* holds the value wanted.                                                 *)
(***************************************************************************)
EXTENDS Integers

CONSTANTS
    MAX_SLAVES,
    Pids,         \* every pid that is looked for
    NO_PID,       \* what a free place holds
    Home          \* pid % MAX_SLAVES, for each pid

Indexes == 0 .. MAX_SLAVES - 1

ASSUME ProbeAssumption ==
    /\ MAX_SLAVES \in Nat \ {0}
    /\ Home \in [Pids -> Indexes]
    /\ NO_PID \notin Pids

NO_IDX == -1

Tables == [Indexes -> Pids \cup {NO_PID}]

(* Mutant: the last place is not followed by the first.                    *)
ProbeAt_NoWrap(pid, i) ==
    IF Home[pid] + i < MAX_SLAVES THEN Home[pid] + i ELSE MAX_SLAVES - 1

(* The place looked at after i others.                                     *)
ProbeAt(pid, i) ==
    IF Home[pid] + i < MAX_SLAVES
    THEN Home[pid] + i
    ELSE Home[pid] + i - MAX_SLAVES

(* How many places are looked at in vain before v is found.                *)
Misses(table, pid, v) ==
    CHOOSE i \in Indexes :
        /\ table[ProbeAt(pid, i)] = v
        /\ \A j \in Indexes : j < i => table[ProbeAt(pid, j)] # v

Search(table, pid, v) ==
    IF \E i \in Indexes : table[ProbeAt(pid, i)] = v
    THEN ProbeAt(pid, Misses(table, pid, v))
    ELSE NO_IDX

(* getAssignedShmsegIdx and getAssignedLocalIdx: the place of a pid.       *)
getAssignedIdx(table, pid) == Search(table, pid, pid)

(* assignShmsegIdx and assignLocalIdx: a free place for a pid.             *)
assignIdx(table, pid) == Search(table, pid, NO_PID)

=============================================================================

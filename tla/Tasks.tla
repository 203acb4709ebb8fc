-------------------------------- MODULE Tasks --------------------------------
(***************************************************************************)
(* The slow lane of the sync engine (cache/sync.py:537), which keeps the   *)
(* calendar window and the task list, and update_task (tools/tasks.py),    *)
(* which changes a task on Exchange and means to write it through.         *)
(*                                                                         *)
(* A task and the calendar are version numbers; version 0 is a task that   *)
(* does not exist, on Exchange or in ews.tasks.                            *)
(***************************************************************************)
EXTENDS Naturals

CONSTANTS Todo,          \* tasks
          MaxChange,     \* bound: versions of a task or of the calendar
          MaxLaneFaults  \* bound: failures inside the lane, and crashes

ASSUME TasksAssumption == MaxChange \in Nat \ {0} /\ MaxLaneFaults \in Nat

VARIABLES
    task, calendar,   \* Exchange
    trow, events,     \* ews.tasks, ews.events
    token,            \* item:tasks: the versions the sync state stands for
    lane,             \* the pass: at, what it fetched
    thist             \* history: answers of update_task for mirrored tasks,
                      \* faults

taskVars == <<task, calendar, trow, events, token, lane, thist>>

Asleep == [at |-> "idle", view |-> 0, changes |-> [t \in Todo |-> 0], upto |-> {}]

TasksInit ==
    /\ task = [t \in Todo |-> 1] /\ calendar = 1
    /\ trow = [t \in Todo |-> 0] /\ events = 0
    /\ token = [t \in Todo |-> 0]
    /\ lane = Asleep
    /\ thist = [ok |-> [t \in Todo |-> 0], faults |-> 0]

-----------------------------------------------------------------------------
(* Exchange: the owner's other clients.                                    *)
OwnerEdits(t) ==
    /\ task[t] \in 1..(MaxChange - 1)
    /\ \E v \in {task[t] + 1, 0} : task' = [task EXCEPT ![t] = v]
    /\ UNCHANGED <<calendar, trow, events, token, lane, thist>>

OwnerSchedules ==
    /\ calendar < MaxChange
    /\ calendar' = calendar + 1
    /\ UNCHANGED <<task, trow, events, token, lane, thist>>

(* update_task: the due date is saved, then the completion.  The write     *)
(* through asks ctx.cache for a reader it does not have; the error is      *)
(* caught, nothing `existing' is found, and nothing is written.            *)
UpdateTask(t) ==
    /\ task[t] \in 1..(MaxChange - 1)
    /\ task' = [task EXCEPT ![t] = @ + 1]
    /\ thist' = IF trow[t] = 0 THEN thist ELSE [thist EXCEPT !.ok[t] = task[t] + 1]
    /\ UNCHANGED <<calendar, trow, events, token, lane>>

(* The second of its two calls fails: Exchange has the first, the caller   *)
(* an error.                                                               *)
UpdateTaskHalf(t) ==
    /\ task[t] \in 1..(MaxChange - 1)
    /\ task' = [task EXCEPT ![t] = @ + 1]
    /\ UNCHANGED <<calendar, trow, events, token, lane, thist>>

-----------------------------------------------------------------------------
(* The calendar half: the window is read, and replaces every row at once.  *)
ViewEvents ==
    /\ lane.at = "idle"
    /\ lane' = [lane EXCEPT !.at = "replace", !.view = calendar]
    /\ UNCHANGED <<task, calendar, trow, events, token, thist>>

ReplaceEvents ==
    /\ lane.at = "replace"
    /\ events' = lane.view
    /\ lane' = [Asleep EXCEPT !.at = "tasks"]
    /\ UNCHANGED <<task, calendar, trow, token, thist>>

(* The task half: the delta since the token, then the rows, then the       *)
(* deletions, then the token.                                              *)
SyncItems ==
    /\ lane.at = "tasks"
    /\ lane' = [lane EXCEPT !.at = "upsert", !.changes = task,
                            !.upto = {t \in Todo : task[t] # token[t]}]
    /\ UNCHANGED <<task, calendar, trow, events, token, thist>>

UpsertTasks ==
    /\ lane.at = "upsert"
    /\ trow' = [t \in Todo |-> IF t \in lane.upto /\ lane.changes[t] # 0
                               THEN lane.changes[t] ELSE trow[t]]
    /\ lane' = [lane EXCEPT !.at = "delete"]
    /\ UNCHANGED <<task, calendar, events, token, thist>>

DeleteTasks ==
    /\ lane.at = "delete"
    /\ trow' = [t \in Todo |-> IF t \in lane.upto /\ lane.changes[t] = 0 THEN 0 ELSE trow[t]]
    /\ lane' = [lane EXCEPT !.at = "save"]
    /\ UNCHANGED <<task, calendar, events, token, thist>>

SaveTaskToken ==
    /\ lane.at = "save"
    /\ token' = lane.changes
    /\ lane' = Asleep
    /\ UNCHANGED <<task, calendar, trow, events, thist>>

(* Either half catches its own failure; a crash ends both.                 *)
LaneFails ==
    /\ lane.at # "idle" /\ thist.faults < MaxLaneFaults
    /\ thist' = [thist EXCEPT !.faults = @ + 1]
    /\ \/ lane.at = "replace" /\ lane' = [Asleep EXCEPT !.at = "tasks"]
       \/ lane' = Asleep
    /\ UNCHANGED <<task, calendar, trow, events, token>>

Lane == ViewEvents \/ ReplaceEvents \/ SyncItems \/ UpsertTasks \/ DeleteTasks \/ SaveTaskToken

TasksNext ==
    \/ Lane \/ LaneFails \/ OwnerSchedules
    \/ \E t \in Todo : OwnerEdits(t) \/ UpdateTask(t) \/ UpdateTaskHalf(t)

TasksSpec == TasksInit /\ [][TasksNext]_taskVars

-----------------------------------------------------------------------------
TasksTypeOK ==
    /\ task \in [Todo -> 0..MaxChange] /\ trow \in [Todo -> 0..MaxChange]
    /\ token \in [Todo -> 0..MaxChange]
    /\ calendar \in 0..MaxChange /\ events \in 0..MaxChange
    /\ lane \in [at : {"idle", "replace", "tasks", "upsert", "delete", "save"},
                 view : 0..MaxChange, changes : [Todo -> 0..MaxChange], upto : SUBSET Todo]
    /\ thist \in [ok : [Todo -> 0..MaxChange], faults : 0..MaxLaneFaults]

(* tasks.py:106 "write-through; the slow sync lane repairs anything        *)
(* missed": after update_task has answered for a task the mirror holds,    *)
(* the mirror shows what it did.                                           *)
TaskWrittenThrough ==
    \A t \in Todo : trow[t] # 0 => trow[t] >= thist.ok[t]
=============================================================================

------------------------------ MODULE Projects ------------------------------
(***************************************************************************)
(* Projects, the tree of tasks in each, and the hours logged on them.      *)
(* Progress rolls up from the tasks to the project, and hours from the     *)
(* entries to the task, after the row they follow from is written; a       *)
(* change of a project or a task writes the row whole, as it was read.     *)
(***************************************************************************)
EXTENDS Requests, Trees, FiniteSetsExt

CONSTANTS
  ProjectIds,   \* identities of projects rows
  TaskIds,      \* identities of tasks rows
  EntryIds,     \* identities of time_entries rows
  Percents,     \* the percentages people report
  MaxHours      \* bound on the hours of one entry

ASSUME PercentsAssumption == Percents \subseteq 0..100 /\ {0, 100} \subseteq Percents

ASSUME TaskIdsAssumption == IsFiniteSet(TaskIds) /\ NoParent \notin TaskIds
ASSUME EntryIdsAssumption == IsFiniteSet(EntryIds) /\ MaxHours \in Nat

VARIABLES
  project,   \* the projects rows
  task,      \* the tasks rows
  entry,     \* the time_entries rows
  byHand     \* history: the projects whose progress was set since it rolled up

projectVars == <<project, task, entry, byHand>>

NoProject == [status |-> "none", progress |-> 0]
NoTask == [status |-> "none", project |-> NoParent, parent |-> NoParent, progress |-> 0, hours |-> 0]
NoEntry == [task |-> NoParent, hours |-> 0]
GoneEntry == [task |-> NoParent, hours |-> -1]

ProjectStatuses == {"planning", "active", "on_hold", "completed", "cancelled"}

ProjectTransitions ==
  {<<"planning", "active">>, <<"active", "on_hold">>, <<"on_hold", "active">>,
   <<"active", "completed">>, <<"planning", "cancelled">>, <<"active", "cancelled">>,
   <<"on_hold", "cancelled">>}

AcceptsWork(status) == status \in {"planning", "active"}

TaskStatuses == {"todo", "in_progress", "review", "done", "cancelled"}

TaskTransitions ==
  {<<"todo", "in_progress">>, <<"in_progress", "review">>, <<"review", "done">>,
   <<"review", "in_progress">>, <<"done", "in_progress">>, <<"todo", "cancelled">>,
   <<"in_progress", "cancelled">>, <<"review", "cancelled">>}

ImpliedProgress(status, current) ==
  CASE status = "todo" -> 0
    [] status = "done" -> 100
    [] status \notin {"todo", "done"} -> current

ProjectsOnFile == {j \in ProjectIds : project[j].status \in ProjectStatuses}
TasksOnFile == {t \in TaskIds : task[t].status \in TaskStatuses}
TasksOf(j) == {t \in TasksOnFile : task[t].project = j}
EntriesOnFile == {e \in EntryIds : entry[e] \notin {NoEntry, GoneEntry}}
EntriesOf(t) == {e \in EntriesOnFile : entry[e].task = t}
Parents == [t \in TaskIds |-> task[t].parent]
Subtasks(t) == {u \in TasksOnFile : task[u].parent = t}
HoursLogged(t) == MapThenSumSet(LAMBDA e : entry[e].hours, EntriesOf(t))

\* The mean of the tasks that are not cancelled, to the nearest; with none, what
\* it was.
RollUp(j, current) ==
  LET live == {t \in TasksOf(j) : task[t].status # "cancelled"}
      sum == MapThenSumSet(LAMBDA t : task[t].progress, live)
      n == Cardinality(live) IN
  IF live = {} THEN current ELSE (2 * sum + n) \div (2 * n)

-----------------------------------------------------------------------------
(* Projects *)

CreateProject(j) ==
  /\ project[j] = NoProject
  /\ Happens("project.create")
  /\ project' = [project EXCEPT ![j].status = "planning"]
  /\ UNCHANGED <<task, entry, byHand>>

ReadProjectToUpdate(s, j, percent) ==
  /\ j \in ProjectsOnFile
  /\ Begin(s, "project.update",
           [step |-> "project.write", id |-> j, byHand |-> TRUE,
            row |-> [project[j] EXCEPT !.progress = percent]])
  /\ UNCHANGED projectVars

ReadProjectToSetStatus(s, j, status) ==
  /\ j \in ProjectsOnFile /\ <<project[j].status, status>> \in ProjectTransitions
  /\ Begin(s, "project.status",
           [step |-> "project.write", id |-> j, byHand |-> status = "completed",
            row |-> [status |-> status,
                     progress |-> IF status = "completed" THEN 100 ELSE project[j].progress]])
  /\ UNCHANGED projectVars

WriteProject(s) ==
  LET j == slot[s].id IN
  /\ At(s, "project.write")
  /\ IF j \in ProjectsOnFile
     THEN /\ project' = [project EXCEPT ![j] = slot[s].row]
          /\ byHand' = IF slot[s].byHand THEN byHand \cup {j} ELSE byHand
     ELSE UNCHANGED <<project, byHand>>
  /\ Finish(s)
  /\ UNCHANGED <<task, entry>>

\* Its tasks and what was logged on them go with it.
DeleteProject(j) ==
  /\ j \in ProjectsOnFile
  /\ Happens("project.delete")
  /\ project' = [project EXCEPT ![j].status = "gone"]
  /\ task' = [t \in TaskIds |-> IF t \in TasksOf(j) THEN [NoTask EXCEPT !.status = "gone"] ELSE task[t]]
  /\ entry' = [e \in EntryIds |->
                 IF entry[e].task \in TasksOf(j) THEN GoneEntry ELSE entry[e]]
  /\ UNCHANGED byHand

-----------------------------------------------------------------------------
(* Tasks *)

MayHangUnder(j, parent) == parent = NoParent \/ parent \in TasksOf(j)

ReadToCreateTask(s, j, parent) ==
  /\ j \in ProjectsOnFile /\ AcceptsWork(project[j].status)
  /\ MayHangUnder(j, parent)
  /\ Begin(s, "task.create", [step |-> "task.insert", project |-> j, parent |-> parent])
  /\ UNCHANGED projectVars

\* The database refuses a project or a parent that is gone, and a code that is
\* taken: the next code is a count of the tasks there are.
InsertTask(s, t) ==
  LET j == slot[s].project IN
  /\ At(s, "task.insert") /\ task[t] = NoTask
  /\ \/ /\ j \in ProjectsOnFile
        /\ slot[s].parent \in TasksOnFile \cup {NoParent}
        /\ task' = [task EXCEPT ![t] =
             [status |-> "todo", project |-> j, parent |-> slot[s].parent,
              progress |-> 0, hours |-> 0]]
        /\ Continue(s, [step |-> "task.rollUp", project |-> j])
     \/ Finish(s) /\ UNCHANGED task
  /\ UNCHANGED <<project, entry, byHand>>

\* Variant: a row is kept from being its own parent, and that is all.
ReadTaskToHangAnywhere(s, t, parent) ==
  /\ t \in TasksOnFile
  /\ parent # NoParent /\ parent # t /\ MayHangUnder(task[t].project, parent)
  /\ Begin(s, "task.update",
           [step |-> "task.write", id |-> t, row |-> [task[t] EXCEPT !.parent = parent]])
  /\ UNCHANGED projectVars

\* A new parent; a request can name none, but cannot take one away.
ReadTaskToMove(s, t, parent) ==
  /\ t \in TasksOnFile
  /\ parent # NoParent /\ parent # t /\ MayHangUnder(task[t].project, parent)
  /\ ~WouldLoop(Parents, t, parent)
  /\ Begin(s, "task.update",
           [step |-> "task.write", id |-> t, row |-> [task[t] EXCEPT !.parent = parent]])
  /\ UNCHANGED projectVars

ReadTaskToReport(s, t, percent) ==
  /\ t \in TasksOnFile
  /\ Begin(s, "task.report",
           [step |-> "task.write", id |-> t, row |-> [task[t] EXCEPT !.progress = percent]])
  /\ UNCHANGED projectVars

ReadTaskToSetStatus(s, t, status) ==
  /\ t \in TasksOnFile /\ <<task[t].status, status>> \in TaskTransitions
  /\ Begin(s, "task.status",
           [step |-> "task.write", id |-> t,
            row |-> [task[t] EXCEPT !.status = status,
                                    !.progress = ImpliedProgress(status, @)]])
  /\ UNCHANGED projectVars

\* Every column but the project and the hours.
UpdateTask(s) ==
  LET t == slot[s].id
      row == slot[s].row IN
  /\ At(s, "task.write")
  /\ IF t \in TasksOnFile /\ row.parent \in TasksOnFile \cup {NoParent}
     THEN /\ task' = [task EXCEPT ![t] = [row EXCEPT !.hours = task[t].hours]]
          /\ Continue(s, [step |-> "task.rollUp", project |-> row.project])
     ELSE Finish(s) /\ UNCHANGED task
  /\ UNCHANGED <<project, entry, byHand>>

ReadTaskToDelete(s, t) ==
  /\ t \in TasksOnFile /\ Subtasks(t) = {}
  /\ Begin(s, "task.delete", [step |-> "task.delete", id |-> t, project |-> task[t].project])
  /\ UNCHANGED projectVars

\* The database refuses while another task hangs under it.
DeleteTask(s) ==
  LET t == slot[s].id IN
  /\ At(s, "task.delete")
  /\ IF Subtasks(t) = {}
     THEN /\ task' = [task EXCEPT ![t] = [NoTask EXCEPT !.status = "gone"]]
          /\ entry' = [e \in EntryIds |-> IF entry[e].task = t THEN GoneEntry ELSE entry[e]]
          /\ Continue(s, [step |-> "task.rollUp", project |-> slot[s].project])
     ELSE Finish(s) /\ UNCHANGED <<task, entry>>
  /\ UNCHANGED <<project, byHand>>

ReadProgress(s) ==
  LET j == slot[s].project
      progress == RollUp(j, project[j].progress) IN
  /\ At(s, "task.rollUp")
  /\ IF j \in ProjectsOnFile /\ progress # project[j].progress
     THEN /\ Continue(s, [step |-> "task.progress", project |-> j, progress |-> progress])
          /\ UNCHANGED byHand
     ELSE /\ byHand' = IF TasksOf(j) = {} THEN byHand ELSE byHand \ {j}
          /\ Finish(s)
  /\ UNCHANGED <<project, task, entry>>

WriteProgress(s) ==
  LET j == slot[s].project IN
  /\ At(s, "task.progress")
  /\ IF j \in ProjectsOnFile
     THEN /\ project' = [project EXCEPT ![j].progress = slot[s].progress]
          /\ byHand' = byHand \ {j}
     ELSE UNCHANGED <<project, byHand>>
  /\ Finish(s)
  /\ UNCHANGED <<task, entry>>

-----------------------------------------------------------------------------
(* Hours *)

ReadToLogHours(s, t, n) ==
  /\ t \in TasksOnFile /\ AcceptsWork(project[task[t].project].status)
  /\ Begin(s, "hours.log", [step |-> "hours.insert", task |-> t, hours |-> n])
  /\ UNCHANGED projectVars

InsertEntry(s, e) ==
  LET t == slot[s].task IN
  /\ At(s, "hours.insert") /\ entry[e] = NoEntry
  /\ IF t \in TasksOnFile
     THEN /\ entry' = [entry EXCEPT ![e] = [task |-> t, hours |-> slot[s].hours]]
          /\ Continue(s, [step |-> "hours.sync", task |-> t])
     ELSE Finish(s) /\ UNCHANGED entry
  /\ UNCHANGED <<project, task, byHand>>

ReadEntryToUpdate(s, e, n) ==
  /\ e \in EntriesOnFile
  /\ Begin(s, "hours.update",
           [step |-> "hours.write", id |-> e, task |-> entry[e].task, hours |-> n])
  /\ UNCHANGED projectVars

ReadEntryToDelete(s, e) ==
  /\ e \in EntriesOnFile
  /\ Begin(s, "hours.delete",
           [step |-> "hours.write", id |-> e, task |-> entry[e].task, hours |-> 0])
  /\ UNCHANGED projectVars

\* An entry of no hours is one that is deleted.
WriteEntry(s) ==
  LET e == slot[s].id
      n == slot[s].hours IN
  /\ At(s, "hours.write")
  /\ IF n # 0 /\ entry[e].task # slot[s].task
     THEN Finish(s) /\ UNCHANGED entry
     ELSE /\ entry' = [entry EXCEPT ![e] = IF n = 0 THEN GoneEntry ELSE [@ EXCEPT !.hours = n]]
          /\ Continue(s, [step |-> "hours.sync", task |-> slot[s].task])
  /\ UNCHANGED <<project, task, byHand>>

\* One statement: its sum is of the entries there were when it began, and it
\* may have to wait for the row after that.
SyncHours(s) ==
  LET t == slot[s].task IN
  /\ At(s, "hours.sync")
  /\ Continue(s, [step |-> "hours.store", task |-> t, hours |-> HoursLogged(t)])
  /\ UNCHANGED projectVars

StoreHours(s) ==
  LET t == slot[s].task IN
  /\ At(s, "hours.store")
  /\ task' = IF t \in TasksOnFile
             THEN [task EXCEPT ![t].hours = slot[s].hours] ELSE task
  /\ Finish(s)
  /\ UNCHANGED <<project, entry, byHand>>

-----------------------------------------------------------------------------
ProjectsInit ==
  /\ project = [j \in ProjectIds |-> NoProject]
  /\ task = [t \in TaskIds |-> NoTask]
  /\ entry = [e \in EntryIds |-> NoEntry]
  /\ byHand = {}

ProjectRequest(s) ==
  \E j \in ProjectIds :
    \/ \E percent \in Percents : ReadProjectToUpdate(s, j, percent)
    \/ \E status \in ProjectStatuses : ReadProjectToSetStatus(s, j, status)

TaskRequest(s) ==
  \/ \E j \in ProjectIds, parent \in TaskIds \cup {NoParent} : ReadToCreateTask(s, j, parent)
  \/ \E t \in TaskIds :
       \/ \E parent \in TaskIds : ReadTaskToMove(s, t, parent)
       \/ \E percent \in Percents : ReadTaskToReport(s, t, percent)
       \/ \E status \in TaskStatuses : ReadTaskToSetStatus(s, t, status)
       \/ ReadTaskToDelete(s, t)

HoursRequest(s) ==
  \/ \E t \in TaskIds, n \in 1..MaxHours : ReadToLogHours(s, t, n)
  \/ \E e \in EntryIds :
       ReadEntryToDelete(s, e) \/ \E n \in 1..MaxHours : ReadEntryToUpdate(s, e, n)

ProjectsRequest(s) == ProjectRequest(s) \/ TaskRequest(s) \/ HoursRequest(s)

ProjectsStep(s) ==
  \/ WriteProject(s)
  \/ \E t \in TaskIds : InsertTask(s, t)
  \/ UpdateTask(s) \/ DeleteTask(s) \/ ReadProgress(s) \/ WriteProgress(s)
  \/ \E e \in EntryIds : InsertEntry(s, e)
  \/ WriteEntry(s) \/ SyncHours(s) \/ StoreHours(s)

ProjectsRequests ==
  {"project.create", "project.update", "project.status", "project.delete",
   "task.create", "task.update", "task.report", "task.status", "task.delete",
   "hours.log", "hours.update", "hours.delete"}

ProjectsNext ==
  /\ Concerns(ProjectsRequests)
  /\ \/ \E j \in ProjectIds : CreateProject(j) \/ DeleteProject(j)
     \/ \E s \in Slots : (Free(s) /\ ProjectsRequest(s)) \/ ProjectsStep(s)

-----------------------------------------------------------------------------
(* Correctness *)

ProjectsTypeOK ==
  /\ \A j \in ProjectIds : project[j] \in
       [status : ProjectStatuses \cup {"none", "gone"}, progress : 0..100]
  /\ \A t \in TasksOnFile : task[t].progress \in 0..100 /\ task[t].hours \in Nat
  /\ \A e \in EntriesOnFile : entry[e].hours \in 1..MaxHours

\* A task is in a project that is on file, hangs under a task of the same
\* project, and whatever is logged is logged on a task: those hold whatever
\* overlaps.  In turn the tasks of a project are trees: the walk up from each
\* meets a root.  Once a request is over a task has the hours that its entries
\* add up to, and a project the progress that its tasks roll up to, until it is
\* set by hand.
ProjectsAgree ==
  /\ \A t \in TasksOnFile :
       /\ task[t].project \in ProjectsOnFile
       /\ task[t].parent # NoParent => task[t].parent \in TasksOf(task[t].project)
  /\ \A e \in EntriesOnFile : entry[e].task \in TasksOnFile
  /\ InTurn =>
       /\ \A t \in TasksOnFile :
            \E root \in Met(Parents, t, MaxHops) : task[root].parent = NoParent
       /\ Quiet =>
            /\ \A t \in TasksOnFile : task[t].hours = HoursLogged(t)
            /\ \A j \in ProjectsOnFile \ byHand :
                 project[j].progress = RollUp(j, project[j].progress)
=============================================================================

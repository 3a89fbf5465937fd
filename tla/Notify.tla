------------------------------- MODULE Notify -------------------------------
(***************************************************************************)
(* Reminders and notifications of one user: ReminderService stores and     *)
(* queues reminders, the reminder worker turns them into notifications,    *)
(* NotificationListener does so with events of other services, and what    *)
(* NotificationService publishes reaches the user's open connections.      *)
(*                                                                         *)
(* A run is one attempt of the worker at a reminder's job, or the handling *)
(* of one event.  A job whose lock is not renewed in time is handed out    *)
(* once more while its first run may go on.                                *)
(***************************************************************************)
EXTENDS Integers, FiniteSets

CONSTANTS
    Reminders,      \* those of one request
    Events,         \* events that other services emit
    Clients,        \* the user's browsers
    MaxConnects,    \* bound on connections opened
    MaxFaults       \* bound on crashes, refusals and lapsed locks

ASSUME NotifyAssumption ==
    /\ Reminders \cap Events = {}
    /\ MaxConnects \in Nat
    /\ MaxFaults \in Nat

VARIABLES
    status,         \* status[k]: of the reminder row
    creator,        \* where the request stands
    jobs,           \* jobs[k]: the state of the reminder's job
    attempt,        \* attempt[k]: how often the job was handed out
    pc,             \* pc[n]: where run n stands
    notes,          \* the runs whose notification rows are committed
    wire,           \* published, not yet received
    clients,        \* open connections
    shown,          \* what each client was sent
    connects,       \* bound: connections left
    faults          \* bound: faults left

vars == <<status, creator, jobs, attempt, pc, notes, wire, clients, shown,
          connects, faults>>

Attempts == 1..2

JobRun == Reminders \X Attempts

EventRun == Events \X {0}

Runs == JobRun \cup EventRun

Pc == {"none", "load", "write", "publish", "commit", "end", "failed", "dead"}

TypeOK ==
    /\ status \in [Reminders -> {"none", "PENDING", "COMPLETED"}]
    /\ creator \in {"begin", "queue", "done", "failed"}
    /\ jobs \in [Reminders -> {"none", "waiting", "active", "completed", "failed"}]
    /\ attempt \in [Reminders -> {0} \cup Attempts]
    /\ pc \in [Runs -> Pc]
    /\ notes \subseteq Runs
    /\ wire \subseteq Runs
    /\ clients \subseteq Clients
    /\ shown \subseteq Clients \X Runs
    /\ connects \in Nat
    /\ faults \in Nat

Init ==
    /\ status = [k \in Reminders |-> "none"]
    /\ creator = "begin"
    /\ jobs = [k \in Reminders |-> "none"]
    /\ attempt = [k \in Reminders |-> 0]
    /\ pc = [n \in Runs |-> IF n \in EventRun THEN "write" ELSE "none"]
    /\ notes = {}
    /\ wire = {}
    /\ clients = {}
    /\ shown = {}
    /\ connects = MaxConnects
    /\ faults = MaxFaults

OfClients == <<clients, shown, connects>>

Fault == faults > 0 /\ faults' = faults - 1

Goto(n, label) == pc' = [pc EXCEPT ![n] = label]

----------------------------------------------------------------------------
(* ReminderService.create                                                  *)

InsertReminders ==
    /\ creator = "begin"
    /\ status' = [k \in Reminders |-> "PENDING"]
    /\ creator' = "queue"
    /\ UNCHANGED <<jobs, attempt, pc, notes, wire, OfClients, faults>>

\* The jobs are added side by side.  A delay of zero lets one start at once.
QueueJob(k) ==
    /\ creator = "queue"
    /\ jobs[k] = "none"
    /\ jobs' = [jobs EXCEPT ![k] = "waiting"]
    /\ UNCHANGED <<status, creator, attempt, pc, notes, wire, OfClients, faults>>

\* The flush of the job ids.
SaveJobIds ==
    /\ creator = "queue"
    /\ \A k \in Reminders : jobs[k] # "none"
    /\ creator' = "done"
    /\ UNCHANGED <<status, jobs, attempt, pc, notes, wire, OfClients, faults>>

CreateFails ==
    /\ creator = "queue"
    /\ Fault
    /\ creator' = "failed"
    /\ UNCHANGED <<status, jobs, attempt, pc, notes, wire, OfClients>>

----------------------------------------------------------------------------
(* ReminderWorker: the job's handler, in one transaction                   *)

Owns(n) == jobs[n[1]] = "active" /\ attempt[n[1]] = n[2]

\* Only the run that holds the job ends it.
EndJob(n, state) == jobs' = IF Owns(n) THEN [jobs EXCEPT ![n[1]] = state] ELSE jobs

TakeJob(k) ==
    /\ jobs[k] = "waiting"
    /\ jobs' = [jobs EXCEPT ![k] = "active"]
    /\ attempt' = [attempt EXCEPT ![k] = @ + 1]
    /\ Goto(<<k, attempt[k] + 1>>, "load")
    /\ UNCHANGED <<status, creator, notes, wire, OfClients, faults>>

\* A bug that takes every reminder for due.
IsDueMutant(k) == status[k] # "none"

\* A bug that tests the status the wrong way round.
IsDueSwapped(k) == status[k] # "PENDING"

\* A row another transaction has not committed yet still reads PENDING.
IsDue(k) == status[k] = "PENDING"

LoadReminder(n) ==
    /\ n \in JobRun
    /\ pc[n] = "load"
    /\ IF IsDue(n[1])
          THEN Goto(n, "write") /\ UNCHANGED jobs
          ELSE Goto(n, "end") /\ EndJob(n, "completed")
    /\ UNCHANGED <<status, creator, attempt, notes, wire, OfClients, faults>>

\* broadcast's flush: the status and the new rows.  The update waits for the
\* transaction of another run that has made it already.
WriteRows(n) ==
    /\ n \in JobRun
    /\ pc[n] = "write"
    /\ \A i \in Attempts : pc[<<n[1], i>>] \notin {"publish", "commit"}
    /\ Goto(n, "publish")
    /\ UNCHANGED <<status, creator, jobs, attempt, notes, wire, OfClients, faults>>

\* Redis is told before the commit.
Publish(n) ==
    /\ pc[n] = "publish"
    /\ wire' = wire \cup {n}
    /\ Goto(n, IF n \in JobRun THEN "commit" ELSE "end")
    /\ UNCHANGED <<status, creator, jobs, attempt, notes, OfClients, faults>>

\* A bug that writes the notification outside of the transaction.
CommittedMutant(n) == notes

Committed(n) == notes \cup {n}

Commit(n) ==
    /\ pc[n] = "commit"
    /\ status' = [status EXCEPT ![n[1]] = "COMPLETED"]
    /\ notes' = Committed(n)
    /\ Goto(n, "end")
    /\ EndJob(n, "completed")
    /\ UNCHANGED <<creator, attempt, wire, OfClients, faults>>

\* A step throws: the transaction is rolled back, the job is not retried.
RunFails(n) ==
    /\ n \in JobRun
    /\ pc[n] \in {"load", "write", "publish", "commit"}
    /\ Fault
    /\ Goto(n, "failed")
    /\ EndJob(n, "failed")
    /\ UNCHANGED <<status, creator, attempt, notes, wire, OfClients>>

WorkerDies(n) ==
    /\ n \in JobRun
    /\ pc[n] \in {"load", "write", "publish", "commit"}
    /\ Fault
    /\ Goto(n, "dead")
    /\ UNCHANGED <<status, creator, jobs, attempt, notes, wire, OfClients>>

\* A bug that gives a stalled job back without a limit.
HandOutMutant(k) == jobs' = [jobs EXCEPT ![k] = "waiting"]

\* A stalled job waits again, once.
HandOut(k) ==
    jobs' = [jobs EXCEPT ![k] = IF attempt[k] + 1 \in Attempts
                                THEN "waiting" ELSE "failed"]

JobStalls(k) ==
    /\ jobs[k] = "active"
    /\ pc[<<k, attempt[k]>>] = "dead"
    /\ HandOut(k)
    /\ UNCHANGED <<status, creator, attempt, pc, notes, wire, OfClients, faults>>

\* The lock of a run that goes on is not renewed in time.
LockLapses(k) ==
    /\ jobs[k] = "active"
    /\ pc[<<k, attempt[k]>>] # "dead"
    /\ Fault
    /\ HandOut(k)
    /\ UNCHANGED <<status, creator, attempt, pc, notes, wire, OfClients>>

----------------------------------------------------------------------------
(* NotificationListener: rows of their own transaction, then Redis         *)

WriteEvent(n) ==
    /\ n \in EventRun
    /\ pc[n] = "write"
    /\ notes' = Committed(n)
    /\ Goto(n, "publish")
    /\ UNCHANGED <<status, creator, jobs, attempt, wire, OfClients, faults>>

\* Errors are logged and the event is dropped.
EventFails(n) ==
    /\ n \in EventRun
    /\ pc[n] \in {"write", "publish"}
    /\ Fault
    /\ Goto(n, "failed")
    /\ UNCHANGED <<status, creator, jobs, attempt, notes, wire, OfClients>>

----------------------------------------------------------------------------
(* NotificationSubscriber and SSEService                                   *)

Connect(c) ==
    /\ c \notin clients
    /\ connects > 0
    /\ connects' = connects - 1
    /\ clients' = clients \cup {c}
    /\ UNCHANGED <<status, creator, jobs, attempt, pc, notes, wire, shown, faults>>

Disconnect(c) ==
    /\ c \in clients
    /\ clients' = clients \ {c}
    /\ UNCHANGED <<status, creator, jobs, attempt, pc, notes, wire, shown, connects, faults>>

\* Without a connection the message is gone: nothing calls what would send
\* it later.  A connection that cannot be written to is given up.
Receive(n) ==
    /\ n \in wire
    /\ wire' = wire \ {n}
    /\ \E broken \in SUBSET clients :
          /\ IF broken = {} THEN UNCHANGED faults ELSE Fault
          /\ clients' = clients \ broken
          /\ shown' = shown \cup ((clients \ broken) \X {n})
    /\ UNCHANGED <<status, creator, jobs, attempt, pc, notes, connects>>

RunStep(n) == LoadReminder(n) \/ WriteRows(n) \/ Publish(n) \/ Commit(n) \/ WriteEvent(n)

Next ==
    \/ InsertReminders \/ SaveJobIds \/ CreateFails
    \/ \E k \in Reminders : QueueJob(k) \/ TakeJob(k) \/ JobStalls(k) \/ LockLapses(k)
    \/ \E n \in Runs : RunStep(n) \/ RunFails(n) \/ WorkerDies(n) \/ EventFails(n)
                          \/ Receive(n)
    \/ \E c \in Clients : Connect(c) \/ Disconnect(c)

\* BullMQ hands out jobs and looks for stalled ones; a run goes on.
Fairness ==
    /\ \A k \in Reminders : WF_vars(TakeJob(k)) /\ WF_vars(JobStalls(k))
    /\ \A n \in Runs : WF_vars(RunStep(n))

Spec == Init /\ [][Next]_vars /\ Fairness

----------------------------------------------------------------------------
(* Properties                                                              *)

NotesOf(k) == {n \in notes : n[1] = k}

\* A reminder is COMPLETED exactly when its notification is stored: no run
\* loses the one and keeps the other, whatever dies.
CompletedIsNotified ==
    \A k \in Reminders : status[k] = "COMPLETED" <=> NotesOf(k) # {}

Settled(k) ==
    /\ status[k] = "COMPLETED"
    /\ \A i \in Attempts : pc[<<k, i>>] \in {"none", "load", "end", "failed", "dead"}

\* Once a run has completed a reminder and no other run has loaded it before
\* that, a job that is handed out again adds no second notification.
NotifiedOnce ==
    \A n \in JobRun : [](Settled(n[1]) /\ n \notin notes => [](n \notin notes))

\* What a client was sent can be read in the list, except while the
\* transaction is open or when it was rolled back after publishing.
ShownIsStored ==
    \A s \in shown : s[2] \notin notes => pc[s[2]] \in {"commit", "failed", "dead"}

\* A queued reminder is notified in the end, unless its job has failed.
RemindedInTheEnd ==
    \A k \in Reminders : jobs[k] = "waiting" ~> (NotesOf(k) # {} \/ jobs[k] = "failed")
=============================================================================

---------------------------- MODULE NotifyProofs ----------------------------
(***************************************************************************)
(* Theorems about Notify, for every set of reminders, events and browsers. *)
(*                                                                         *)
(* HandedOut says which run of a job comes next, so that no run starts     *)
(* twice; Beginning that nothing runs before the reminders are inserted,   *)
(* which would undo what a run has completed; Published what the runs      *)
(* behind a message have stored; Alone what a lock that is renewed in time *)
(* adds.                                                                   *)
(***************************************************************************)
EXTENDS Notify, TLAPS

\* A job that waits can be handed out once more, and no run is ahead of it.
HandedOut ==
    /\ TypeOK
    /\ \A k \in Reminders :
          /\ jobs[k] = "none" => attempt[k] = 0
          /\ jobs[k] = "waiting" => attempt[k] + 1 \in Attempts
          /\ \A i \in Attempts : i > attempt[k] => pc[<<k, i>>] = "none"

\* Nothing runs before the reminders are there.
Beginning ==
    creator = "begin" =>
        /\ \A k \in Reminders : jobs[k] = "none" /\ status[k] = "none"
        /\ \A n \in JobRun : pc[n] = "none"

\* A message on its way, or a message shown, is of a run that has stored its
\* notification or has yet to commit it, or never will.
Published ==
    /\ \A n \in EventRun : pc[n] \in {"publish", "end"} => n \in notes
    /\ \A n \in wire \cup {s[2] : s \in shown} :
          n \notin notes => pc[n] \in {"commit", "failed", "dead"}

----------------------------------------------------------------------------
\* Runs of a job start one after the other, each of them once.
LEMMA HandedOutHolds == Spec => []HandedOut
<1> USE NotifyAssumption
<1>1. Init => HandedOut
  BY DEF Init, HandedOut, TypeOK, Pc, Attempts, Runs, JobRun, EventRun
<1>2. HandedOut /\ [Next]_vars => HandedOut'
  <2> SUFFICES ASSUME HandedOut, [Next]_vars PROVE HandedOut'
    OBVIOUS
  <2> USE DEF HandedOut, TypeOK, Goto, Pc, Attempts, EndJob, Owns, Runs, JobRun, EventRun
  <2>1. ASSUME InsertReminders PROVE HandedOut'
    BY <2>1 DEF InsertReminders, OfClients, Fault
  <2>2. ASSUME SaveJobIds PROVE HandedOut'
    BY <2>2 DEF SaveJobIds, OfClients, Fault
  <2>3. ASSUME CreateFails PROVE HandedOut'
    BY <2>3 DEF CreateFails, OfClients, Fault
  <2>4. ASSUME NEW k \in Reminders, QueueJob(k) PROVE HandedOut'
    BY <2>4 DEF QueueJob, OfClients, Fault
  <2>5. ASSUME NEW k \in Reminders, TakeJob(k) PROVE HandedOut'
    <3> DEFINE i == attempt[k] + 1
    <3>1. /\ i \in Attempts /\ attempt' = [attempt EXCEPT ![k] = i]
          /\ pc' = [pc EXCEPT ![<<k, i>>] = "load"] /\ <<k, i>> \in Runs
          /\ jobs' = [jobs EXCEPT ![k] = "active"]
      BY <2>5 DEF TakeJob
    <3>2. ASSUME NEW q \in Reminders, NEW h \in Attempts, h > attempt'[q]
          PROVE  pc'[<<q, h>>] = "none"
      <4>1. <<q, h>> # <<k, i>> /\ h > attempt[q]
        BY <3>1, <3>2
      <4>2. <<q, h>> \in Runs /\ pc[<<q, h>>] = "none"
        BY <4>1
      <4>3. QED
        BY <3>1, <4>1, <4>2
    <3> HIDE DEF i
    <3>3. TypeOK'
      BY <2>5, <3>1 DEF TakeJob, OfClients
    <3>4. QED
      BY <3>1, <3>2, <3>3
  <2>6. ASSUME NEW k \in Reminders, JobStalls(k) PROVE HandedOut'
    BY <2>6 DEF JobStalls, OfClients, Fault, HandOut
  <2>7. ASSUME NEW k \in Reminders, LockLapses(k) PROVE HandedOut'
    BY <2>7 DEF LockLapses, OfClients, Fault, HandOut
  <2>8. ASSUME NEW n \in Runs, LoadReminder(n) PROVE HandedOut'
    BY <2>8 DEF LoadReminder, OfClients, Fault
  <2>9. ASSUME NEW n \in Runs, WriteRows(n) PROVE HandedOut'
    BY <2>9 DEF WriteRows, OfClients, Fault
  <2>10. ASSUME NEW n \in Runs, Publish(n) PROVE HandedOut'
    BY <2>10 DEF Publish, OfClients, Fault
  <2>11. ASSUME NEW n \in Runs, Commit(n) PROVE HandedOut'
    <3>1. /\ pc[n] = "commit" /\ pc' = [pc EXCEPT ![n] = "end"]
          /\ status' \in [Reminders -> {"none", "PENDING", "COMPLETED"}]
          /\ notes' \subseteq Runs
      BY <2>11 DEF Commit, Committed
    <3>2. /\ UNCHANGED <<creator, attempt, wire, clients, shown, connects, faults>>
          /\ \/ jobs' = jobs
             \/ jobs[n[1]] = "active" /\ jobs' = [jobs EXCEPT ![n[1]] = "completed"]
      BY <2>11 DEF Commit, OfClients
    <3>3. TypeOK'
      BY <3>1, <3>2
    <3>4. QED
      BY <3>1, <3>2, <3>3
  <2>12. ASSUME NEW n \in Runs, WriteEvent(n) PROVE HandedOut'
    BY <2>12 DEF WriteEvent, OfClients, Committed
  <2>13. ASSUME NEW n \in Runs, RunFails(n) PROVE HandedOut'
    BY <2>13 DEF RunFails, OfClients, Fault
  <2>14. ASSUME NEW n \in Runs, WorkerDies(n) PROVE HandedOut'
    BY <2>14 DEF WorkerDies, OfClients, Fault
  <2>15. ASSUME NEW n \in Runs, EventFails(n) PROVE HandedOut'
    BY <2>15 DEF EventFails, OfClients, Fault
  <2>16. ASSUME NEW n \in Runs, Receive(n) PROVE HandedOut'
    BY <2>16 DEF Receive, OfClients, Fault
  <2>17. ASSUME NEW c \in Clients, Connect(c) PROVE HandedOut'
    BY <2>17 DEF Connect, OfClients, Fault
  <2>18. ASSUME NEW c \in Clients, Disconnect(c) PROVE HandedOut'
    BY <2>18 DEF Disconnect, OfClients, Fault
  <2>19. CASE UNCHANGED vars
    BY <2>19 DEF vars
  <2> HIDE DEF HandedOut, TypeOK, Goto, Pc, Attempts, EndJob, Owns, Runs, JobRun, EventRun
  <2>20. QED
    BY <2>1, <2>2, <2>3, <2>4, <2>5, <2>6, <2>7, <2>8, <2>9, <2>10, <2>11, <2>12,
       <2>13, <2>14, <2>15, <2>16, <2>17, <2>18, <2>19 DEF Next, RunStep
<1>3. QED
  BY <1>1, <1>2, PTL DEF Spec

\* Type correctness: rows, jobs, runs and connections keep their types, and no
\* job is handed out more often than it may be.
THEOREM TypeCorrect == Spec => []TypeOK
<1>1. HandedOut => TypeOK
  BY DEF HandedOut
<1>2. QED
  BY <1>1, HandedOutHolds, PTL

\* Jobs come after the rows.
LEMMA BeginningHolds == Spec => []Beginning
<1> USE NotifyAssumption
<1>1. Init => Beginning
  BY DEF Init, Beginning, Runs, JobRun, EventRun
<1>2. TypeOK /\ Beginning /\ [Next]_vars => Beginning'
  <2> SUFFICES ASSUME TypeOK, Beginning, [Next]_vars PROVE Beginning'
    OBVIOUS
  <2> USE DEF TypeOK, Beginning, Goto, EndJob, Runs, JobRun, EventRun
  <2>1. ASSUME InsertReminders PROVE Beginning'
    BY <2>1 DEF InsertReminders, OfClients, Fault
  <2>2. ASSUME SaveJobIds PROVE Beginning'
    BY <2>2 DEF SaveJobIds, OfClients, Fault
  <2>3. ASSUME CreateFails PROVE Beginning'
    BY <2>3 DEF CreateFails, OfClients, Fault
  <2>4. ASSUME NEW k \in Reminders, QueueJob(k) PROVE Beginning'
    BY <2>4 DEF QueueJob, OfClients, Fault
  <2>5. ASSUME NEW k \in Reminders, TakeJob(k) PROVE Beginning'
    BY <2>5 DEF TakeJob, OfClients, Fault
  <2>6. ASSUME NEW k \in Reminders, JobStalls(k) PROVE Beginning'
    BY <2>6 DEF JobStalls, OfClients, Fault
  <2>7. ASSUME NEW k \in Reminders, LockLapses(k) PROVE Beginning'
    BY <2>7 DEF LockLapses, OfClients, Fault
  <2>8. ASSUME NEW n \in Runs, LoadReminder(n) PROVE Beginning'
    BY <2>8 DEF LoadReminder, OfClients, Fault
  <2>9. ASSUME NEW n \in Runs, WriteRows(n) PROVE Beginning'
    BY <2>9 DEF WriteRows, OfClients, Fault
  <2>10. ASSUME NEW n \in Runs, Publish(n) PROVE Beginning'
    BY <2>10 DEF Publish, OfClients, Fault
  <2>11. ASSUME NEW n \in Runs, Commit(n) PROVE Beginning'
    BY <2>11 DEF Commit, OfClients, Fault
  <2>12. ASSUME NEW n \in Runs, WriteEvent(n) PROVE Beginning'
    BY <2>12 DEF WriteEvent, OfClients, Fault
  <2>13. ASSUME NEW n \in Runs, RunFails(n) PROVE Beginning'
    BY <2>13 DEF RunFails, OfClients, Fault
  <2>14. ASSUME NEW n \in Runs, WorkerDies(n) PROVE Beginning'
    BY <2>14 DEF WorkerDies, OfClients, Fault
  <2>15. ASSUME NEW n \in Runs, EventFails(n) PROVE Beginning'
    BY <2>15 DEF EventFails, OfClients, Fault
  <2>16. ASSUME NEW n \in Runs, Receive(n) PROVE Beginning'
    BY <2>16 DEF Receive, OfClients, Fault
  <2>17. ASSUME NEW c \in Clients, Connect(c) PROVE Beginning'
    BY <2>17 DEF Connect, OfClients, Fault
  <2>18. ASSUME NEW c \in Clients, Disconnect(c) PROVE Beginning'
    BY <2>18 DEF Disconnect, OfClients, Fault
  <2>19. CASE UNCHANGED vars
    BY <2>19 DEF vars
  <2> HIDE DEF TypeOK, Beginning, Goto, EndJob, Runs, JobRun, EventRun
  <2>20. QED
    BY <2>1, <2>2, <2>3, <2>4, <2>5, <2>6, <2>7, <2>8, <2>9, <2>10, <2>11, <2>12,
       <2>13, <2>14, <2>15, <2>16, <2>17, <2>18, <2>19 DEF Next, RunStep
<1>3. QED
  BY <1>1, <1>2, TypeCorrect, PTL DEF Spec

\* A reminder is COMPLETED exactly when its notification is stored, for any
\* number of reminders, whatever runs overlap, fail or die.
THEOREM CompletedMeansNotified == Spec => []CompletedIsNotified
<1> USE NotifyAssumption
<1>1. Init => CompletedIsNotified
  BY DEF Init, CompletedIsNotified, NotesOf
<1>2. TypeOK /\ Beginning /\ CompletedIsNotified /\ [Next]_vars => CompletedIsNotified'
  <2> SUFFICES ASSUME TypeOK, Beginning, CompletedIsNotified, [Next]_vars PROVE CompletedIsNotified'
    OBVIOUS
  <2> USE DEF TypeOK, CompletedIsNotified, NotesOf, Runs, JobRun, EventRun
  <2>1. ASSUME InsertReminders PROVE CompletedIsNotified'
    BY <2>1 DEF InsertReminders, Beginning
  <2>2. ASSUME SaveJobIds PROVE CompletedIsNotified'
    BY <2>2 DEF SaveJobIds, OfClients, Fault
  <2>3. ASSUME CreateFails PROVE CompletedIsNotified'
    BY <2>3 DEF CreateFails, OfClients, Fault
  <2>4. ASSUME NEW k \in Reminders, QueueJob(k) PROVE CompletedIsNotified'
    BY <2>4 DEF QueueJob, OfClients, Fault
  <2>5. ASSUME NEW k \in Reminders, TakeJob(k) PROVE CompletedIsNotified'
    BY <2>5 DEF TakeJob, OfClients, Fault
  <2>6. ASSUME NEW k \in Reminders, JobStalls(k) PROVE CompletedIsNotified'
    BY <2>6 DEF JobStalls, OfClients, Fault
  <2>7. ASSUME NEW k \in Reminders, LockLapses(k) PROVE CompletedIsNotified'
    BY <2>7 DEF LockLapses, OfClients, Fault
  <2>8. ASSUME NEW n \in Runs, LoadReminder(n) PROVE CompletedIsNotified'
    BY <2>8 DEF LoadReminder, OfClients, Fault
  <2>9. ASSUME NEW n \in Runs, WriteRows(n) PROVE CompletedIsNotified'
    BY <2>9 DEF WriteRows, OfClients, Fault
  <2>10. ASSUME NEW n \in Runs, Publish(n) PROVE CompletedIsNotified'
    BY <2>10 DEF Publish, OfClients, Fault
  <2>11. ASSUME NEW n \in Runs, Commit(n) PROVE CompletedIsNotified'
    BY <2>11 DEF Commit, Committed
  <2>12. ASSUME NEW n \in Runs, WriteEvent(n) PROVE CompletedIsNotified'
    BY <2>12 DEF WriteEvent, Committed
  <2>13. ASSUME NEW n \in Runs, RunFails(n) PROVE CompletedIsNotified'
    BY <2>13 DEF RunFails, OfClients, Fault
  <2>14. ASSUME NEW n \in Runs, WorkerDies(n) PROVE CompletedIsNotified'
    BY <2>14 DEF WorkerDies, OfClients, Fault
  <2>15. ASSUME NEW n \in Runs, EventFails(n) PROVE CompletedIsNotified'
    BY <2>15 DEF EventFails, OfClients, Fault
  <2>16. ASSUME NEW n \in Runs, Receive(n) PROVE CompletedIsNotified'
    BY <2>16 DEF Receive, OfClients, Fault
  <2>17. ASSUME NEW c \in Clients, Connect(c) PROVE CompletedIsNotified'
    BY <2>17 DEF Connect, OfClients, Fault
  <2>18. ASSUME NEW c \in Clients, Disconnect(c) PROVE CompletedIsNotified'
    BY <2>18 DEF Disconnect, OfClients, Fault
  <2>19. CASE UNCHANGED vars
    BY <2>19 DEF vars
  <2> HIDE DEF TypeOK, CompletedIsNotified, NotesOf, Runs, JobRun, EventRun
  <2>20. QED
    BY <2>1, <2>2, <2>3, <2>4, <2>5, <2>6, <2>7, <2>8, <2>9, <2>10, <2>11, <2>12,
       <2>13, <2>14, <2>15, <2>16, <2>17, <2>18, <2>19 DEF Next, RunStep
<1>3. QED
  BY <1>1, <1>2, TypeCorrect, BeginningHolds, PTL DEF Spec

\* Messages keep their runs.
LEMMA PublishedHolds == Spec => []Published
<1> USE NotifyAssumption
<1>1. Init => Published
  BY DEF Init, Published, Runs, JobRun, EventRun
<1>2. TypeOK /\ HandedOut /\ Published /\ [Next]_vars => Published'
  <2> SUFFICES ASSUME TypeOK, HandedOut, Published, [Next]_vars PROVE Published'
    OBVIOUS
  <2> USE DEF TypeOK, Published, Goto, Runs, JobRun, EventRun
  <2>1. ASSUME InsertReminders PROVE Published'
    BY <2>1 DEF InsertReminders, OfClients, Fault
  <2>2. ASSUME SaveJobIds PROVE Published'
    BY <2>2 DEF SaveJobIds, OfClients, Fault
  <2>3. ASSUME CreateFails PROVE Published'
    BY <2>3 DEF CreateFails, OfClients, Fault
  <2>4. ASSUME NEW k \in Reminders, QueueJob(k) PROVE Published'
    BY <2>4 DEF QueueJob, OfClients, Fault
  <2>5. ASSUME NEW k \in Reminders, TakeJob(k) PROVE Published'
    <3> DEFINE m == <<k, attempt[k] + 1>>
    <3>1. /\ m \in JobRun /\ pc[m] = "none" /\ pc' = [pc EXCEPT ![m] = "load"]
          /\ UNCHANGED <<wire, shown, notes>>
      <4>1. attempt[k] + 1 \in Attempts /\ attempt[k] \in Nat
        <5>1. attempt[k] + 1 \in Attempts
          BY <2>5 DEF TakeJob, HandedOut
        <5>2. attempt[k] \in {0} \cup Attempts
          OBVIOUS
        <5>3. QED
          BY <5>1, <5>2 DEF Attempts
      <4>2. pc[m] = "none"
        BY <4>1 DEF HandedOut
      <4>3. QED
        BY <2>5, <4>1, <4>2 DEF TakeJob, OfClients
    <3>2. m \notin EventRun
      BY <3>1 DEF Attempts
    <3> HIDE DEF m
    <3>3. QED
      BY <3>1, <3>2
  <2>6. ASSUME NEW k \in Reminders, JobStalls(k) PROVE Published'
    BY <2>6 DEF JobStalls, OfClients, Fault
  <2>7. ASSUME NEW k \in Reminders, LockLapses(k) PROVE Published'
    BY <2>7 DEF LockLapses, OfClients, Fault
  <2>8. ASSUME NEW n \in Runs, LoadReminder(n) PROVE Published'
    BY <2>8 DEF LoadReminder, OfClients, Fault
  <2>9. ASSUME NEW n \in Runs, WriteRows(n) PROVE Published'
    BY <2>9 DEF WriteRows, OfClients, Fault
  <2>10. ASSUME NEW n \in Runs, Publish(n) PROVE Published'
    BY <2>10 DEF Publish, OfClients, Fault
  <2>11. ASSUME NEW n \in Runs, Commit(n) PROVE Published'
    <3>1. /\ pc[n] = "commit" /\ pc' = [pc EXCEPT ![n] = "end"] /\ notes' = notes \cup {n}
          /\ UNCHANGED <<wire, shown>>
      BY <2>11 DEF Commit, Committed, OfClients
    <3>2. QED
      BY <3>1
  <2>12. ASSUME NEW n \in Runs, WriteEvent(n) PROVE Published'
    BY <2>12 DEF WriteEvent, Committed, OfClients
  <2>13. ASSUME NEW n \in Runs, RunFails(n) PROVE Published'
    BY <2>13 DEF RunFails, OfClients, Fault
  <2>14. ASSUME NEW n \in Runs, WorkerDies(n) PROVE Published'
    BY <2>14 DEF WorkerDies, OfClients, Fault
  <2>15. ASSUME NEW n \in Runs, EventFails(n) PROVE Published'
    BY <2>15 DEF EventFails, OfClients, Fault
  <2>16. ASSUME NEW n \in Runs, Receive(n) PROVE Published'
    BY <2>16 DEF Receive, OfClients, Fault
  <2>17. ASSUME NEW c \in Clients, Connect(c) PROVE Published'
    BY <2>17 DEF Connect, OfClients, Fault
  <2>18. ASSUME NEW c \in Clients, Disconnect(c) PROVE Published'
    BY <2>18 DEF Disconnect, OfClients, Fault
  <2>19. CASE UNCHANGED vars
    BY <2>19 DEF vars
  <2> HIDE DEF TypeOK, Published, Goto, Runs, JobRun, EventRun
  <2>20. QED
    BY <2>1, <2>2, <2>3, <2>4, <2>5, <2>6, <2>7, <2>8, <2>9, <2>10, <2>11, <2>12,
       <2>13, <2>14, <2>15, <2>16, <2>17, <2>18, <2>19 DEF Next, RunStep
<1>3. QED
  BY <1>1, <1>2, TypeCorrect, HandedOutHolds, PTL DEF Spec

\* What a browser was shown is in the list, unless its transaction is open or
\* was rolled back after the message went out.
THEOREM ShownMeansStored == Spec => []ShownIsStored
<1>1. Published => ShownIsStored
  BY DEF Published, ShownIsStored
<1>2. QED
  BY <1>1, PublishedHolds, PTL

\* Once a reminder is completed and no other run has got past loading it, no
\* run adds a notification to it.
LEMMA SettledStays ==
    ASSUME NEW m \in JobRun
    PROVE  TypeOK /\ Settled(m[1]) /\ m \notin notes /\ Beginning /\ [Next]_vars
              => (Settled(m[1]) /\ m \notin notes)'
<1> DEFINE Quiet == Settled(m[1]) /\ m \notin notes
<1> SUFFICES ASSUME TypeOK, Quiet, Beginning, [Next]_vars PROVE Quiet'
  OBVIOUS
<1> USE NotifyAssumption
<1> USE DEF TypeOK, Settled, Beginning, Goto, Runs, JobRun, EventRun, Attempts
<1>1. ASSUME InsertReminders PROVE Quiet'
  BY <1>1 DEF InsertReminders
<1>2. ASSUME SaveJobIds PROVE Quiet'
  BY <1>2 DEF SaveJobIds
<1>3. ASSUME CreateFails PROVE Quiet'
  BY <1>3 DEF CreateFails
<1>4. ASSUME NEW k \in Reminders, QueueJob(k) PROVE Quiet'
  BY <1>4 DEF QueueJob
<1>5. ASSUME NEW k \in Reminders, TakeJob(k) PROVE Quiet'
  BY <1>5 DEF TakeJob
<1>6. ASSUME NEW k \in Reminders, JobStalls(k) PROVE Quiet'
  BY <1>6 DEF JobStalls
<1>7. ASSUME NEW k \in Reminders, LockLapses(k) PROVE Quiet'
  BY <1>7 DEF LockLapses
<1>8. ASSUME NEW n \in Runs, LoadReminder(n) PROVE Quiet'
  BY <1>8 DEF LoadReminder, IsDue
<1>9. ASSUME NEW n \in Runs, WriteRows(n) PROVE Quiet'
  BY <1>9 DEF WriteRows
<1>10. ASSUME NEW n \in Runs, Publish(n) PROVE Quiet'
  BY <1>10 DEF Publish
<1>11. ASSUME NEW n \in Runs, Commit(n) PROVE Quiet'
  BY <1>11 DEF Commit, Committed
<1>12. ASSUME NEW n \in Runs, WriteEvent(n) PROVE Quiet'
  BY <1>12 DEF WriteEvent, Committed
<1>13. ASSUME NEW n \in Runs, RunFails(n) PROVE Quiet'
  BY <1>13 DEF RunFails
<1>14. ASSUME NEW n \in Runs, WorkerDies(n) PROVE Quiet'
  BY <1>14 DEF WorkerDies
<1>15. ASSUME NEW n \in Runs, EventFails(n) PROVE Quiet'
  BY <1>15 DEF EventFails
<1>16. ASSUME NEW n \in Runs, Receive(n) PROVE Quiet'
  BY <1>16 DEF Receive
<1>17. ASSUME NEW c \in Clients, Connect(c) PROVE Quiet'
  BY <1>17 DEF Connect
<1>18. ASSUME NEW c \in Clients, Disconnect(c) PROVE Quiet'
  BY <1>18 DEF Disconnect
<1>19. CASE UNCHANGED vars
  BY <1>19 DEF vars
<1>20. QED
  BY <1>1, <1>2, <1>3, <1>4, <1>5, <1>6, <1>7, <1>8, <1>9, <1>10, <1>11, <1>12,
     <1>13, <1>14, <1>15, <1>16, <1>17, <1>18, <1>19 DEF Next, RunStep

\* A job that is handed out again adds no second notification, for any number
\* of reminders.
THEOREM OnceNotified == Spec => NotifiedOnce
<1> SUFFICES ASSUME NEW n \in JobRun
             PROVE  Spec => [](Settled(n[1]) /\ n \notin notes => [](n \notin notes))
  BY DEF NotifiedOnce
<1>1. TypeOK /\ Settled(n[1]) /\ n \notin notes /\ Beginning /\ [Next]_vars
         => (Settled(n[1]) /\ n \notin notes)'
  BY SettledStays
<1>2. QED
  BY <1>1, TypeCorrect, BeginningHolds, PTL DEF Spec

----------------------------------------------------------------------------
\* BullMQ renews the lock of a job in time for as long as its run goes on.
\* (The worker does not ask whether it still holds the lock when it writes.)
LocksRenewed == \A k \in Reminders : ~LockLapses(k)

\* No reminder is notified by two runs.
AtMostOnce == \A m, n \in notes \cap JobRun : m[1] = n[1] => m = n

Running(n) == pc[n] \in {"load", "write", "publish", "commit"}

\* A run that goes on holds its job, and what a run has stored ended it.
Alone ==
    /\ \A n \in JobRun : Running(n) => Owns(n)
    /\ \A n \in notes \cap JobRun : jobs[n[1]] = "completed"

\* A step that starts no run and gives no job away.
LEMMA AloneStays ==
    ASSUME Alone, AtMostOnce, notes' \cap JobRun \subseteq notes,
           \A n \in JobRun : Running(n)' => Running(n),
           \A k \in Reminders : \/ jobs'[k] = jobs[k]
                                \/ jobs[k] \in {"none", "waiting"}
                                \/ jobs[k] = "active" /\ \A i \in Attempts : ~Running(<<k, i>>)',
           attempt' = attempt
    PROVE  Alone' /\ AtMostOnce'
<1>1. ASSUME NEW n \in JobRun, Running(n)' PROVE Owns(n)'
  <2>1. PICK k \in Reminders, i \in Attempts : n = <<k, i>>
    BY DEF JobRun
  <2>2. Owns(n)
    BY <1>1 DEF Alone
  <2>3. jobs'[k] = jobs[k]
    BY <1>1, <2>1, <2>2 DEF Owns
  <2>4. QED
    BY <2>1, <2>2, <2>3 DEF Owns
<1>2. ASSUME NEW n \in notes' \cap JobRun PROVE jobs'[n[1]] = "completed"
  <2>1. n \in notes \cap JobRun /\ n[1] \in Reminders
    BY <1>2 DEF JobRun
  <2>2. jobs[n[1]] = "completed"
    BY <2>1 DEF Alone
  <2>3. QED
    BY <2>1, <2>2
<1>3. AtMostOnce'
  BY DEF AtMostOnce, JobRun
<1>4. QED
  BY <1>1, <1>2, <1>3 DEF Alone

\* While locks are renewed, a job has one run at a time, and none once one of
\* them has stored its notification.
LEMMA AloneHolds == Spec /\ [][LocksRenewed]_vars => [](Alone /\ AtMostOnce)
<1> USE NotifyAssumption
<1>1. Init => Alone /\ AtMostOnce
  BY DEF Init, Alone, AtMostOnce, Running, Runs, JobRun, EventRun
<1>2. HandedOut /\ Alone /\ AtMostOnce /\ [Next]_vars /\ [LocksRenewed]_vars
          => Alone' /\ AtMostOnce'
  <2> SUFFICES ASSUME HandedOut, Alone, AtMostOnce, [Next]_vars, [LocksRenewed]_vars
               PROVE  Alone' /\ AtMostOnce'
    OBVIOUS
  <2>0. TypeOK
    BY DEF HandedOut
  <2>1. CASE UNCHANGED <<jobs, attempt, pc, notes>>
    BY <2>1, AloneStays DEF Running
  <2>2. CASE \/ InsertReminders \/ SaveJobIds \/ CreateFails
             \/ \E n \in Runs : Receive(n)
             \/ \E c \in Clients : Connect(c) \/ Disconnect(c)
    BY <2>1, <2>2 DEF InsertReminders, SaveJobIds, CreateFails, Receive, Connect, Disconnect
  <2>3. ASSUME NEW k \in Reminders, QueueJob(k) PROVE Alone' /\ AtMostOnce'
    <3>1. /\ jobs[k] = "none" /\ jobs' = [jobs EXCEPT ![k] = "waiting"]
          /\ UNCHANGED <<attempt, pc, notes>>
      BY <2>3 DEF QueueJob
    <3>2. \A q \in Reminders : jobs'[q] = jobs[q] \/ jobs[q] = "none"
      BY <2>0, <3>1 DEF TypeOK
    <3>3. QED
      BY <3>1, <3>2, AloneStays DEF Running
  <2>4. ASSUME NEW k \in Reminders, TakeJob(k) PROVE Alone' /\ AtMostOnce'
    <3> DEFINE i == attempt[k] + 1
    <3>1. /\ jobs[k] = "waiting" /\ jobs' = [jobs EXCEPT ![k] = "active"]
          /\ attempt' = [attempt EXCEPT ![k] = i] /\ i \in Attempts
          /\ pc' = [pc EXCEPT ![<<k, i>>] = "load"] /\ notes' = notes
      BY <2>4 DEF TakeJob, Goto, HandedOut
    <3> HIDE DEF i
    <3>2. ASSUME NEW n \in JobRun, Running(n)' PROVE Owns(n)'
      <4>1. CASE n = <<k, i>>
        BY <2>0, <3>1, <4>1 DEF Owns, TypeOK
      <4>2. CASE n # <<k, i>>
        <5>1. n \in Runs /\ n[1] \in Reminders
          BY DEF JobRun, Runs
        <5>2. Running(n)
          BY <2>0, <3>1, <3>2, <4>2, <5>1 DEF Running, TypeOK
        <5>3. Owns(n) /\ n[1] # k
          BY <3>1, <5>2 DEF Alone, Owns
        <5>4. QED
          BY <2>0, <3>1, <5>1, <5>3 DEF Owns, TypeOK
      <4>3. QED
        BY <4>1, <4>2
    <3>3. \A n \in notes' \cap JobRun : jobs'[n[1]] = "completed"
      BY <2>0, <3>1 DEF Alone, TypeOK, JobRun
    <3>4. AtMostOnce'
      BY <3>1 DEF AtMostOnce, JobRun
    <3>5. QED
      BY <3>2, <3>3, <3>4 DEF Alone
  <2>5. ASSUME NEW k \in Reminders, JobStalls(k) PROVE Alone' /\ AtMostOnce'
    <3>1. /\ jobs[k] = "active" /\ pc[<<k, attempt[k]>>] = "dead"
          /\ \E state : jobs' = [jobs EXCEPT ![k] = state]
          /\ UNCHANGED <<attempt, pc, notes>>
      BY <2>5 DEF JobStalls, HandOut
    <3>2. \A i \in Attempts : ~Running(<<k, i>>)
      BY <3>1 DEF Alone, Running, Owns, JobRun
    <3>3. \A q \in Reminders : jobs'[q] = jobs[q] \/ q = k
      BY <2>0, <3>1 DEF TypeOK
    <3>4. QED
      BY <3>1, <3>2, <3>3, AloneStays DEF Running
  <2>6. ASSUME NEW k \in Reminders, LockLapses(k) PROVE Alone' /\ AtMostOnce'
    <3>1. LocksRenewed => ~LockLapses(k)
      BY DEF LocksRenewed
    <3>2. UNCHANGED vars
      BY <2>6, <3>1
    <3>3. QED
      BY <2>1, <3>2 DEF vars
  <2>7. ASSUME NEW n \in Runs, WriteRows(n) \/ Publish(n) \/ EventFails(n) \/ WorkerDies(n)
        PROVE  Alone' /\ AtMostOnce'
    <3>1. /\ UNCHANGED <<jobs, attempt, notes>>
          /\ \E label : /\ pc' = [pc EXCEPT ![n] = label]
                        /\ Running(n) \/ n \notin JobRun
      BY <2>7 DEF WriteRows, Publish, EventFails, WorkerDies, Goto, Running, EventRun, JobRun
    <3>2. \A m \in JobRun : Running(m)' => Running(m)
      BY <2>0, <3>1 DEF Running, TypeOK, Runs
    <3>3. QED
      BY <3>1, <3>2, AloneStays
  <2>8. ASSUME NEW n \in Runs, WriteEvent(n) PROVE Alone' /\ AtMostOnce'
    <3>1. /\ n \notin JobRun /\ UNCHANGED <<jobs, attempt>>
          /\ notes' = notes \cup {n} /\ pc' = [pc EXCEPT ![n] = "publish"]
      BY <2>8 DEF WriteEvent, Committed, Goto, EventRun, JobRun, Attempts
    <3>2. \A m \in JobRun : Running(m)' => Running(m)
      BY <2>0, <3>1 DEF Running, TypeOK, Runs
    <3>3. QED
      BY <3>1, <3>2, AloneStays
  <2>9. ASSUME NEW n \in JobRun, Running(n), NEW label, pc' = [pc EXCEPT ![n] = label],
               label \notin {"load", "write", "publish", "commit"},
               NEW state, EndJob(n, state)
        PROVE  /\ \A m \in JobRun : Running(m)' => Running(m)
               /\ jobs' = [jobs EXCEPT ![n[1]] = state]
               /\ jobs[n[1]] = "active"
               /\ \A i \in Attempts : ~Running(<<n[1], i>>)'
    <3>1. Owns(n) /\ n \in Runs /\ n[1] \in Reminders
      BY <2>9 DEF Alone, Runs, JobRun
    <3>2. ~Running(n)'
      BY <2>0, <2>9, <3>1 DEF Running, TypeOK
    <3>3. \A m \in JobRun : Running(m)' => Running(m) /\ m # n
      BY <2>0, <2>9, <3>2 DEF Running, TypeOK, Runs
    <3>4. \A i \in Attempts : Running(<<n[1], i>>)' => <<n[1], i>> = n
      BY <3>1, <3>3 DEF Alone, Owns, JobRun
    <3>5. QED
      BY <2>9, <3>1, <3>2, <3>3, <3>4 DEF EndJob, Owns
  <2>10. ASSUME NEW n \in Runs, LoadReminder(n) \/ RunFails(n) PROVE Alone' /\ AtMostOnce'
    <3>1. /\ n \in JobRun /\ Running(n) /\ UNCHANGED <<attempt, notes>>
          /\ \/ pc' = [pc EXCEPT ![n] = "write"] /\ UNCHANGED jobs
             \/ pc' = [pc EXCEPT ![n] = "end"] /\ EndJob(n, "completed")
             \/ pc' = [pc EXCEPT ![n] = "failed"] /\ EndJob(n, "failed")
      BY <2>10 DEF LoadReminder, RunFails, Goto, Running
    <3>2. CASE pc' = [pc EXCEPT ![n] = "write"] /\ UNCHANGED jobs
      <4>1. \A m \in JobRun : Running(m)' => Running(m)
        BY <2>0, <3>1, <3>2 DEF Running, TypeOK, Runs
      <4>2. QED
        BY <3>1, <3>2, <4>1, AloneStays
    <3>3. CASE \E label \in {"end", "failed"} : \E state :
                  pc' = [pc EXCEPT ![n] = label] /\ EndJob(n, state)
      <4>1. PICK label \in {"end", "failed"} : \E state :
                  pc' = [pc EXCEPT ![n] = label] /\ EndJob(n, state)
        BY <3>3
      <4> PICK state : EndJob(n, state)
        BY <4>1
      <4>2. /\ \A m \in JobRun : Running(m)' => Running(m)
            /\ jobs' = [jobs EXCEPT ![n[1]] = state]
            /\ jobs[n[1]] = "active"
            /\ \A i \in Attempts : ~Running(<<n[1], i>>)'
        BY <2>9, <3>1, <4>1
      <4>3. \A q \in Reminders : jobs'[q] = jobs[q] \/ q = n[1]
        BY <2>0, <4>2 DEF TypeOK
      <4>4. QED
        BY <3>1, <4>2, <4>3, AloneStays
    <3>4. QED
      BY <3>1, <3>2, <3>3
  <2>11. ASSUME NEW n \in Runs, Commit(n) PROVE Alone' /\ AtMostOnce'
    <3>1. /\ pc[n] = "commit" /\ pc' = [pc EXCEPT ![n] = "end"] /\ attempt' = attempt
          /\ notes' = notes \cup {n} /\ EndJob(n, "completed")
      BY <2>11 DEF Commit, Committed, Goto
    <3>2. CASE n \notin JobRun
      <4>1. \A q \in Reminders : jobs'[q] = jobs[q]
        BY <2>0, <3>1, <3>2 DEF EndJob, TypeOK, Runs, JobRun, EventRun
      <4>2. \A m \in JobRun : Running(m)' => Running(m)
        BY <2>0, <3>1, <3>2 DEF Running, TypeOK, Runs
      <4>3. QED
        BY <3>1, <3>2, <4>1, <4>2, AloneStays
    <3>3. CASE n \in JobRun
      <4>1. /\ \A m \in JobRun : Running(m)' => Running(m)
            /\ jobs' = [jobs EXCEPT ![n[1]] = "completed"]
            /\ jobs[n[1]] = "active"
            /\ \A i \in Attempts : ~Running(<<n[1], i>>)'
        BY <2>9, <3>1, <3>3 DEF Running
      <4>2. n[1] \in Reminders
        BY <3>3 DEF JobRun
      <4>3. ASSUME NEW m \in JobRun, Running(m)' PROVE Owns(m)'
        <5>1. Owns(m) /\ m[1] \in Reminders /\ m[2] \in Attempts /\ m = <<m[1], m[2]>>
          BY <4>1, <4>3 DEF Alone, JobRun
        <5>2. m[1] # n[1]
          BY <4>1, <4>3, <5>1
        <5>3. QED
          BY <2>0, <3>1, <4>1, <5>1, <5>2 DEF Owns, TypeOK
      <4>4. \A m \in notes \cap JobRun : m[1] # n[1] /\ m[1] \in Reminders
        BY <4>1 DEF Alone, JobRun
      <4>5. \A m \in notes' \cap JobRun : jobs'[m[1]] = "completed"
        BY <2>0, <3>1, <4>1, <4>2, <4>4 DEF Alone, TypeOK
      <4>6. AtMostOnce'
        BY <3>1, <4>4 DEF AtMostOnce, JobRun
      <4>7. QED
        BY <4>3, <4>5, <4>6 DEF Alone
    <3>4. QED
      BY <3>2, <3>3
  <2>12. CASE UNCHANGED vars
    BY <2>1, <2>12 DEF vars
  <2>13. QED
    BY <2>2, <2>3, <2>4, <2>5, <2>6, <2>7, <2>8, <2>10, <2>11, <2>12 DEF Next, RunStep
<1>3. QED
  BY <1>1, <1>2, HandedOutHolds, PTL DEF Spec

\* When locks are renewed in time no reminder is notified twice, whatever
\* workers die and whatever jobs are handed out again: the only way to a
\* second notification is a run that goes on after its lock has lapsed
\* (ReminderWorker.process, which tests the status before it writes).
THEOREM RenewedLocksNotifyOnce == Spec /\ [][LocksRenewed]_vars => []AtMostOnce
BY AloneHolds, PTL
=============================================================================

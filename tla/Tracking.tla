------------------------------ MODULE Tracking ------------------------------
(***************************************************************************)
(* Tracking of one booked shipment: the job chain of TrackingWorkerService *)
(* under its Redis lock, the two crons of TrackingSchedulerService, the    *)
(* tail of createShipment, and the HTTP handlers trackShipment and         *)
(* cancelShipment, which take no lock.  Shipments share nothing but the    *)
(* queues' capacity, so one of them is enough.                             *)
(*                                                                         *)
(* The carrier walks through a list of status labels; at label n it        *)
(* reports n - 1 events, those with a readable timestamp.  The first label *)
(* stands for what fetchUpdate makes of a PRO the carrier does not know.   *)
(* Time is untimed: a delayed job becomes ready and nextPollAt falls due   *)
(* at any moment.  A failing call, a refused statement and a dead process  *)
(* each use up one of MaxFaults.                                           *)
(***************************************************************************)
EXTENDS Integers, Sequences, Functions

CONSTANTS
    Workers,       \* concurrent jobs of the carrier's BullMQ worker
    Callers,       \* requests that run trackShipment
    Cancellers,    \* requests that run cancelShipment
    Labels,        \* the labels the carrier goes through, in order
    NoWorker,      \* the lock key is not set
    LockMayExpire, \* TRUE: a poll may outlast the 120 seconds of its lock
    Revises,       \* TRUE: a carrier with ids of its own may reword an event
    SharedId,      \* TRUE: all events of the shipment get one carrierEventId
    MaxJobs,       \* bound: jobs the crons may have outstanding
    MaxFaults,     \* bound: failures of any kind
    MaxCopies      \* bound: rows under a suffixed id are counted up to this

ASSUME TrackingAssumption ==
    /\ Workers \cap Callers = {}
    /\ NoWorker \notin Workers
    /\ Labels \in Seq(STRING) /\ Labels # << >>
    /\ \A i \in DOMAIN Labels : Labels[i] \notin {"null", "CANCELLED"}
    /\ LockMayExpire \in BOOLEAN
    /\ {Revises, SharedId} \subseteq BOOLEAN
    /\ {MaxJobs, MaxFaults} \subseteq Nat
    /\ MaxCopies \in Nat \ {0}

VARIABLES
    stage,         \* the carrier: how far the freight has come
    wording,       \* the carrier: wording[e] is the status text of event e
    status,        \* shipment.currentStatus, "null" before the first poll
    nextPoll,      \* shipment.nextPollAt, relative to now
    rows,          \* rows[e][t]: tracking_event rows of e with text t
    copies,        \* the same, for rows whose carrierEventId was suffixed
    jobs,          \* queued jobs, ready or delayed
    lock,          \* who set tracking:lock:<id>, or NoWorker
    pc,            \* pc[p]: where worker or caller p stands
    loaded,        \* loaded[p]: the status in p's identity map
    reply,         \* reply[p]: the carrier's answer p works on
    todo,          \* todo[p]: the events of the answer still to be looked up
    fresh,         \* fresh[p]: the event created and not flushed yet
    cron,          \* cron[k]: where cron k stands with this shipment
    booking,       \* the tail of createShipment
    cancelling,    \* the requests waiting for the carrier to cancel
    faults         \* failures so far

carrierVars == <<stage, wording>>
rowVars == <<rows, copies>>
pollVars == <<loaded, reply, todo, fresh>>
outerVars == <<cron, booking, cancelling>>

vars == <<stage, wording, status, nextPoll, rows, copies, jobs, lock,
          pc, loaded, reply, todo, fresh, cron, booking, cancelling, faults>>

Pollers == Workers \cup Callers

Crons == {"scheduleDueShipments", "safetyNet"}

Events == 1 .. (Len(Labels) - 1)

Reported(n) == 1 .. (n - 1)

Texts == {0, 1}      \* the first wording of an event, and the reworded one

Statuses == Range(Labels) \cup {"null", "CANCELLED"}

\* The statuses the crons take for final.
Closed == {"DELIVERED", "CANCELLED", "RETURNED"}

Reply == [stage : DOMAIN Labels, wording : [Events -> Texts]]

Label(p) == Labels[reply[p].stage]

Unpolled == [stage |-> 1, wording |-> [e \in Events |-> 0]]

WorkerPc == {"idle", "load", "fetch", "apply", "schedule", "enqueue", "error", "requeue", "unlock"}

Busy == {w \in Workers : pc[w] # "idle"}

TypeOK ==
    /\ stage \in DOMAIN Labels
    /\ wording \in [Events -> Texts]
    /\ status \in Statuses
    /\ nextPoll \in {"null", "future", "due", "overdue"}
    /\ rows \in [Events -> [Texts -> Nat]]
    /\ copies \in [Events -> [Texts -> Nat]]
    /\ jobs \in Nat
    /\ lock \in Workers \cup {NoWorker}
    /\ pc \in [Pollers -> WorkerPc]
    /\ loaded \in [Pollers -> Statuses]
    /\ reply \in [Pollers -> Reply]
    /\ todo \in [Pollers -> SUBSET Events]
    /\ fresh \in [Pollers -> SUBSET ({"base", "copy"} \X Events)]
    /\ cron \in [Crons -> {"idle", "bump"}]
    /\ booking \in {"enqueue", "setPoll", "done"}
    /\ cancelling \subseteq Cancellers
    /\ faults \in Nat

\* createShipment has just stored carrier and tracking number.
Init ==
    /\ stage = 1
    /\ wording = [e \in Events |-> 0]
    /\ status = "null"
    /\ nextPoll = "null"
    /\ rows = [e \in Events |-> [t \in Texts |-> 0]]
    /\ copies = [e \in Events |-> [t \in Texts |-> 0]]
    /\ jobs = 0
    /\ lock = NoWorker
    /\ pc = [p \in Pollers |-> "idle"]
    /\ loaded = [p \in Pollers |-> "null"]
    /\ reply = [p \in Pollers |-> Unpolled]
    /\ todo = [p \in Pollers |-> {}]
    /\ fresh = [p \in Pollers |-> {}]
    /\ cron = [k \in Crons |-> "idle"]
    /\ booking = "enqueue"
    /\ cancelling = {}
    /\ faults = 0

Goto(p, label) == pc' = [pc EXCEPT ![p] = label]

\* The EntityManager of a poll and the carrier's answer go out of scope.
Forget(p) ==
    /\ loaded' = [loaded EXCEPT ![p] = "null"]
    /\ reply' = [reply EXCEPT ![p] = Unpolled]
    /\ todo' = [todo EXCEPT ![p] = {}]
    /\ fresh' = [fresh EXCEPT ![p] = {}]

Fault ==
    /\ faults < MaxFaults
    /\ faults' = faults + 1

----------------------------------------------------------------------------
(* The carrier, and the passing of time                                    *)

Advance ==
    /\ stage < Len(Labels)
    /\ stage' = stage + 1
    /\ UNCHANGED <<wording, status, nextPoll, rowVars, jobs, lock, pc, pollVars, outerVars, faults>>

Reword(e) ==
    /\ Revises
    /\ e < stage
    /\ wording[e] = 0
    /\ wording' = [wording EXCEPT ![e] = 1]
    /\ UNCHANGED <<stage, status, nextPoll, rowVars, jobs, lock, pc, pollVars, outerVars, faults>>

\* nextPollAt is reached, and then left behind by more than an hour.
PollTimePasses ==
    /\ \/ nextPoll = "future" /\ nextPoll' = "due"
       \/ nextPoll = "due" /\ nextPoll' = "overdue"
    /\ UNCHANGED <<carrierVars, status, rowVars, jobs, lock, pc, pollVars, outerVars, faults>>

\* A bug that sets the key without a time to live.
TtlPassesMutant == LockMayExpire

\* No adapter bounds its HTTP calls, so the holder may still be at work.
TtlPasses == LockMayExpire \/ pc[lock] = "idle"

\* Redis drops the key after 120 seconds.
Expire ==
    /\ lock # NoWorker
    /\ TtlPasses
    /\ lock' = NoWorker
    /\ UNCHANGED <<carrierVars, status, nextPoll, rowVars, jobs, pc, pollVars, outerVars, faults>>

----------------------------------------------------------------------------
(* createShipment after the wallet deduction                               *)

BookingEnqueues ==
    /\ booking = "enqueue"
    /\ jobs' = jobs + 1
    /\ booking' = "setPoll"
    /\ UNCHANGED <<carrierVars, status, nextPoll, rowVars, lock, pc, pollVars, cron, cancelling, faults>>

\* The failure to queue the job is swallowed.
BookingEnqueueFails ==
    /\ booking = "enqueue"
    /\ Fault
    /\ booking' = "setPoll"
    /\ UNCHANGED <<carrierVars, status, nextPoll, rowVars, jobs, lock, pc, pollVars, cron, cancelling>>

BookingSetsPoll ==
    /\ booking = "setPoll"
    /\ nextPoll' = "future"
    /\ booking' = "done"
    /\ UNCHANGED <<carrierVars, status, rowVars, jobs, lock, pc, pollVars, cron, cancelling, faults>>

BookingDies ==
    /\ booking # "done"
    /\ Fault
    /\ booking' = "done"
    /\ UNCHANGED <<carrierVars, status, nextPoll, rowVars, jobs, lock, pc, pollVars, cron, cancelling>>

----------------------------------------------------------------------------
(* TrackingSchedulerService                                                *)

\* A bug that leaves out the shipments never polled.
SoughtMutant(k) == IF k = "safetyNet" THEN {"overdue"} ELSE {"due", "overdue"}

\* Which values of nextPollAt a cron looks for.
Sought(k) == IF k = "safetyNet" THEN {"null", "overdue"} ELSE {"due", "overdue"}

\* The query and queue.add, which depends on nothing but the query's answer.
Schedule(k) ==
    /\ cron[k] = "idle"
    /\ nextPoll \in Sought(k)
    /\ status \notin Closed
    /\ jobs < MaxJobs
    /\ jobs' = jobs + 1
    /\ cron' = [cron EXCEPT ![k] = "bump"]
    /\ UNCHANGED <<carrierVars, status, nextPoll, rowVars, lock, pc, pollVars, booking, cancelling, faults>>

\* nextPollAt is written by one flush after the whole batch.
Bump(k) ==
    /\ cron[k] = "bump"
    /\ nextPoll' = "future"
    /\ cron' = [cron EXCEPT ![k] = "idle"]
    /\ UNCHANGED <<carrierVars, status, rowVars, jobs, lock, pc, pollVars, booking, cancelling, faults>>

\* The flush fails, or the process dies.  (A refused queue.add changes nothing.)
CronFails(k) ==
    /\ cron[k] = "bump"
    /\ Fault
    /\ cron' = [cron EXCEPT ![k] = "idle"]
    /\ UNCHANGED <<carrierVars, status, nextPoll, rowVars, jobs, lock, pc, pollVars, booking, cancelling>>

----------------------------------------------------------------------------
(* processJob up to the work it protects, and trackShipment's beginning    *)

\* A bug that looks at the lock and does not take it.
LockedMutant(w) == lock

\* SET key 1 EX 120 NX
Locked(w) == w

TakeJob(w) ==
    /\ pc[w] = "idle"
    /\ jobs > 0
    /\ lock = NoWorker
    /\ jobs' = jobs - 1
    /\ lock' = Locked(w)
    /\ Goto(w, "load")
    /\ UNCHANGED <<carrierVars, status, nextPoll, rowVars, pollVars, outerVars, faults>>

\* The key is set: the job completes without having done anything.
SkipJob(w) ==
    /\ pc[w] = "idle"
    /\ jobs > 0
    /\ lock # NoWorker
    /\ jobs' = jobs - 1
    /\ UNCHANGED <<carrierVars, status, nextPoll, rowVars, lock, pc, pollVars, outerVars, faults>>

BeginTrack(c) ==
    /\ pc[c] = "idle"
    /\ Goto(c, "load")
    /\ UNCHANGED <<carrierVars, status, nextPoll, rowVars, jobs, lock, pollVars, outerVars, faults>>

----------------------------------------------------------------------------
(* findOne, fetchUpdate and TrackingUpdateService.apply                    *)

Load(p) ==
    /\ pc[p] = "load"
    /\ loaded' = [loaded EXCEPT ![p] = status]
    /\ Goto(p, "fetch")
    /\ UNCHANGED <<carrierVars, status, nextPoll, rowVars, jobs, lock, reply, todo, fresh, outerVars, faults>>

Fetch(p) ==
    /\ pc[p] = "fetch"
    /\ reply' = [reply EXCEPT ![p] = [stage |-> stage, wording |-> wording]]
    /\ todo' = [todo EXCEPT ![p] = Reported(stage)]
    /\ Goto(p, "apply")
    /\ UNCHANGED <<carrierVars, status, nextPoll, rowVars, jobs, lock, loaded, fresh, outerVars, faults>>

\* generateEventId.  It distinguishes events, but for FedEx: the adapter
\* passes on none of the fields (id, eventType, date) it looks at.
Id(e) == IF SharedId THEN 1 ELSE e

\* A bug that inserts without looking.
VerdictMutant(e, t) == {"base"}

\* What findOne by carrierEventId makes of event e with text t: there is no
\* row, a row that says the same, or a row with another text.
Verdict(e, t) ==
    LET found == {r \in Events \X Texts : Id(r[1]) = Id(e) /\ rows[r[1]][r[2]] > 0}
    IN IF found = {} THEN {"base"}
       ELSE {IF r = <<e, t>> THEN "same" ELSE "copy" : r \in found}

\* The order of the events is the carrier's.  Once an id was inserted or
\* found unchanged, the other events with that id are passed over (seenIds).
LookUp(p) ==
    /\ pc[p] = "apply"
    /\ fresh[p] = {}
    /\ \E e \in todo[p] : \E v \in Verdict(e, reply[p].wording[e]) :
          /\ fresh' = [fresh EXCEPT ![p] = IF v = "same" THEN {} ELSE {<<v, e>>}]
          /\ todo' = [todo EXCEPT ![p] = {f \in @ \ {e} : v = "copy" \/ Id(f) # Id(e)}]
    /\ UNCHANGED <<carrierVars, status, nextPoll, rowVars, jobs, lock, pc, loaded, reply, outerVars, faults>>

\* A bug that persists only the shipment.
InsertedMutant(store, p, kind) == store

\* The table with the row of the event just created, if it goes there.
Inserted(store, p, kind) ==
    [e \in Events |-> [t \in Texts |->
        IF <<kind, e>> \in fresh[p] /\ t = reply[p].wording[e] THEN store[e][t] + 1 ELSE store[e][t]]]

Counted(store) == [e \in Events |-> [t \in Texts |-> IF store[e][t] > MaxCopies THEN MaxCopies ELSE store[e][t]]]

\* A bug that stores the carrier's own code.
NewStatusMutant(p) == "rawStatus"

\* Only a changed property is in the change set of the entity.
NewStatus(p) == IF Label(p) = loaded[p] THEN status ELSE Label(p)

\* One flush: the status, if it changed, and the event just created.
Written(p) ==
    /\ status' = NewStatus(p)
    /\ rows' = Inserted(rows, p, "base")
    /\ copies' = Counted(Inserted(copies, p, "copy"))

\* A created event is pending: MikroORM flushes before the next query.
AutoFlush(p) ==
    /\ pc[p] = "apply"
    /\ fresh[p] # {}
    /\ todo[p] # {}
    /\ Written(p)
    /\ loaded' = [loaded EXCEPT ![p] = Label(p)]
    /\ fresh' = [fresh EXCEPT ![p] = {}]
    /\ UNCHANGED <<carrierVars, nextPoll, jobs, lock, pc, reply, todo, outerVars, faults>>

\* The flush that ends apply, and with it trackShipment.
Flush(p) ==
    /\ pc[p] = "apply"
    /\ todo[p] = {}
    /\ Written(p)
    /\ \/ /\ p \in Workers
          /\ Goto(p, "schedule")
          /\ loaded' = [loaded EXCEPT ![p] = Label(p)]
          /\ fresh' = [fresh EXCEPT ![p] = {}]
          /\ UNCHANGED <<reply, todo>>
       \/ p \in Callers /\ Goto(p, "idle") /\ Forget(p)
    /\ UNCHANGED <<carrierVars, nextPoll, jobs, lock, outerVars, faults>>

----------------------------------------------------------------------------
(* scheduleNextPoll, handleError and the finally block                     *)

SetNextPoll(w) ==
    /\ \/ pc[w] = "schedule" /\ Goto(w, "enqueue")
       \/ pc[w] = "error" /\ Goto(w, "requeue")
    /\ nextPoll' = "future"
    /\ UNCHANGED <<carrierVars, status, rowVars, jobs, lock, pollVars, outerVars, faults>>

EnqueueNext(w) ==
    /\ pc[w] \in {"enqueue", "requeue"}
    /\ jobs' = jobs + 1
    /\ Goto(w, "unlock")
    /\ UNCHANGED <<carrierVars, status, nextPoll, rowVars, lock, pollVars, outerVars, faults>>

\* The key is deleted whoever holds it by now.
Unlock(w) ==
    /\ pc[w] = "unlock"
    /\ lock' = NoWorker
    /\ Goto(w, "idle")
    /\ Forget(w)
    /\ UNCHANGED <<carrierVars, status, nextPoll, rowVars, jobs, outerVars, faults>>

\* The carrier, the database or the queue refuses: handleError.
PollFails(w) ==
    /\ pc[w] \in {"load", "fetch", "apply", "schedule", "enqueue"}
    /\ Fault
    /\ Goto(w, "error")
    /\ Forget(w)
    /\ UNCHANGED <<carrierVars, status, nextPoll, rowVars, jobs, lock, outerVars>>

\* handleError throws too: BullMQ retries the job, unless it has no attempt left.
HandleErrorFails(w) ==
    /\ pc[w] \in {"error", "requeue"}
    /\ Fault
    /\ jobs' \in {jobs, jobs + 1}
    /\ Goto(w, "unlock")
    /\ UNCHANGED <<carrierVars, status, nextPoll, rowVars, lock, pollVars, outerVars>>

\* The process dies: the stalled job is given back, unless it stalled before;
\* the lock stays.
WorkerDies(w) ==
    /\ pc[w] # "idle"
    /\ Fault
    /\ jobs' \in {jobs, jobs + 1}
    /\ Goto(w, "idle")
    /\ Forget(w)
    /\ UNCHANGED <<carrierVars, status, nextPoll, rowVars, lock, outerVars>>

TrackFails(c) ==
    /\ pc[c] # "idle"
    /\ Fault
    /\ Goto(c, "idle")
    /\ Forget(c)
    /\ UNCHANGED <<carrierVars, status, nextPoll, rowVars, jobs, lock, outerVars>>

----------------------------------------------------------------------------
(* cancelShipment                                                          *)

BeginCancel(x) ==
    /\ x \notin cancelling
    /\ status # "CANCELLED"
    /\ cancelling' = cancelling \cup {x}
    /\ UNCHANGED <<carrierVars, status, nextPoll, rowVars, jobs, lock, pc, pollVars, cron, booking, faults>>

\* The carrier has agreed: the status is overwritten, the jobs stay queued.
Cancel(x) ==
    /\ x \in cancelling
    /\ status' = "CANCELLED"
    /\ cancelling' = cancelling \ {x}
    /\ UNCHANGED <<carrierVars, nextPoll, rowVars, jobs, lock, pc, pollVars, cron, booking, faults>>

\* The carrier refuses, or does not support cancelling.
CancelRefused(x) ==
    /\ x \in cancelling
    /\ cancelling' = cancelling \ {x}
    /\ UNCHANGED <<carrierVars, status, nextPoll, rowVars, jobs, lock, pc, pollVars, cron, booking, faults>>

----------------------------------------------------------------------------
PollStep(p) == Load(p) \/ Fetch(p) \/ LookUp(p) \/ AutoFlush(p) \/ Flush(p)

WorkerStep(w) ==
    \/ TakeJob(w) \/ SkipJob(w) \/ PollStep(w)
    \/ SetNextPoll(w) \/ EnqueueNext(w) \/ Unlock(w)

CronStep(k) == Schedule(k) \/ Bump(k)

BookingStep == BookingEnqueues \/ BookingSetsPoll

Next ==
    \/ Advance \/ (\E e \in Events : Reword(e))
    \/ PollTimePasses \/ Expire
    \/ BookingStep \/ BookingEnqueueFails \/ BookingDies
    \/ \E k \in Crons : CronStep(k) \/ CronFails(k)
    \/ \E w \in Workers : WorkerStep(w) \/ PollFails(w) \/ HandleErrorFails(w) \/ WorkerDies(w)
    \/ \E c \in Callers : BeginTrack(c) \/ PollStep(c) \/ TrackFails(c)
    \/ \E x \in Cancellers : BeginCancel(x) \/ Cancel(x) \/ CancelRefused(x)

Spec == Init /\ [][Next]_vars

\* Time passes, the crons fire, BullMQ hands out ready jobs, Redis expires a
\* key, and every call returns or fails (only MaxFaults times).  Nothing
\* makes a user call, or the freight move.
Fairness ==
    /\ WF_vars(PollTimePasses) /\ WF_vars(Expire)
    /\ WF_vars(BookingStep)
    /\ \A k \in Crons : WF_vars(CronStep(k))
    /\ \A w \in Workers : WF_vars(WorkerStep(w))
    /\ \A c \in Callers : WF_vars(PollStep(c))

FairSpec == Spec /\ Fairness

----------------------------------------------------------------------------
(* Properties                                                              *)

Stored(e, t) == rows[e][t] + copies[e][t] > 0

\* What a poll has gone through and flushed is in the database, whatever
\* other polls, retries and crashes did meanwhile: no event the carrier
\* reported is dropped (TrackingUpdateService.apply).
NothingForgotten ==
    \A p \in Pollers :
        pc[p] \in {"apply", "schedule", "enqueue"} =>
            \A e \in Reported(reply[p].stage) \ todo[p] :
                (\E kind \in {"base", "copy"} : <<kind, e>> \in fresh[p]) \/ Stored(e, reply[p].wording[e])

\* As long as no poll outlives its lock, at most one worker is between
\* taking the lock and releasing it, crashes included (processJob).
OneWorkerAtATime == \A v, w \in Busy : v = w

\* Under the lock no event gets two rows with its own carrierEventId: the
\* lookup of one poll sees the insert of the one before (apply).
OneRowPerId == \A e \in Events : rows[e][0] + rows[e][1] <= 1

Rank(s) == IF s \in Range(Labels) THEN CHOOSE i \in DOMAIN Labels : Labels[i] = s ELSE 0

\* Polls under the lock never take the status back to an earlier label;
\* only a cancellation replaces it by something else.
StatusNeverRegresses ==
    [][status' # "CANCELLED" => Rank(status') >= Rank(status)]_vars

\* A key set by a worker that died is gone again some time (EX 120).
LockIsReleased == \A w \in Workers : (lock = w) ~> (lock # w)

LastLabel == Labels[Len(Labels)]

\* Jobs get lost, skipped and repeated, but the scheduler restarts the
\* chain: once the carrier has finished, its last label and all its events
\* are recorded, unless the shipment is cancelled.
FinalStageRecorded ==
    stage = Len(Labels) ~>
        status = "CANCELLED" \/ (status = LastLabel /\ \A e \in Events : Stored(e, wording[e]))

\* What the filter on currentStatus (scheduleDueShipments) is there for: a
\* delivered shipment is not scheduled any more.
DeliveredNotScheduled == [][\A k \in Crons : Schedule(k) => status # LastLabel]_vars
=============================================================================

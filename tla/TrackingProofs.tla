--------------------------- MODULE TrackingProofs ---------------------------
(***************************************************************************)
(* Proofs about Tracking, for any number of workers, callers, cancellers,  *)
(* labels, jobs and failures: its type invariant, that no event gets lost, *)
(* and what the lock gives as long as it outlives the poll it protects:    *)
(* workers are kept apart, rows are single, the status goes forward, and   *)
(* no status that was polled is lost.                                      *)
(***************************************************************************)
EXTENDS Tracking, TLAPS

\* The first label exists, and an event's number is below its stage.
LEMMA LabelFacts ==
    /\ DOMAIN Labels = 1 .. Len(Labels)
    /\ Len(Labels) \in Nat \ {0}
    /\ \A n \in DOMAIN Labels : Reported(n) \subseteq Events
    /\ \A n \in DOMAIN Labels : Labels[n] \in Statuses
    /\ Unpolled \in Reply
<1>1. Len(Labels) \in Nat /\ DOMAIN Labels = 1 .. Len(Labels) /\ Labels # << >>
    BY TrackingAssumption
<1>2. Len(Labels) # 0
    BY <1>1, TrackingAssumption
<1>3. \A n \in DOMAIN Labels : Reported(n) \subseteq Events
    BY <1>1 DEF Reported, Events
<1>4. \A n \in DOMAIN Labels : Labels[n] \in Statuses
    BY DEF Statuses, Range
<1>5. Unpolled \in Reply
    BY <1>1, <1>2 DEF Unpolled, Reply, Texts
<1> QED
    BY <1>1, <1>2, <1>3, <1>4, <1>5

\* What a process forgets leaves its variables well typed.
LEMMA ForgetTypes ==
    ASSUME TypeOK, NEW p \in Pollers, Forget(p)
    PROVE  /\ loaded' \in [Pollers -> Statuses]
           /\ reply' \in [Pollers -> Reply]
           /\ todo' \in [Pollers -> SUBSET Events]
           /\ fresh' \in [Pollers -> SUBSET ({"base", "copy"} \X Events)]
<1>1. "null" \in Statuses
    BY DEF Statuses
<1> QED
    BY <1>1, LabelFacts DEF TypeOK, Forget

\* A flush keeps both tables counts, and the status a status.
LEMMA WrittenTypes ==
    ASSUME TypeOK, NEW p \in Pollers, Written(p)
    PROVE  /\ status' \in Statuses
           /\ rows' \in [Events -> [Texts -> Nat]]
           /\ copies' \in [Events -> [Texts -> Nat]]
           /\ Label(p) \in Statuses
<1>1. reply[p].stage \in DOMAIN Labels
    BY DEF TypeOK, Reply
<1>2. Label(p) \in Statuses
    BY <1>1, LabelFacts DEF Label
<1>3. \A store \in [Events -> [Texts -> Nat]], kind \in {"base", "copy"} :
          Inserted(store, p, kind) \in [Events -> [Texts -> Nat]]
    BY DEF Inserted
<1>4. \A store \in [Events -> [Texts -> Nat]] : Counted(store) \in [Events -> [Texts -> Nat]]
    BY TrackingAssumption DEF Counted
<1> QED
    BY <1>2, <1>3, <1>4 DEF TypeOK, Written, NewStatus

\* Every variable keeps its type, whatever the constants are.
THEOREM TypeCorrect == Spec => []TypeOK
<1>1. Init => TypeOK
    <2> SUFFICES ASSUME Init PROVE TypeOK
        OBVIOUS
    <2>1. stage \in DOMAIN Labels /\ reply \in [Pollers -> Reply]
        BY LabelFacts DEF Init
    <2>2. status \in Statuses /\ loaded \in [Pollers -> Statuses]
        BY DEF Init, Statuses
    <2>3. pc \in [Pollers -> WorkerPc]
        BY DEF Init, WorkerPc
    <2> QED
        BY <2>1, <2>2, <2>3 DEF Init, TypeOK, Texts
<1>2. TypeOK /\ [Next]_vars => TypeOK'
    <2> SUFFICES ASSUME TypeOK, [Next]_vars PROVE TypeOK'
        OBVIOUS
    <2>0. \A p \in Pollers : Forget(p) =>
              /\ loaded' \in [Pollers -> Statuses]
              /\ reply' \in [Pollers -> Reply]
              /\ todo' \in [Pollers -> SUBSET Events]
              /\ fresh' \in [Pollers -> SUBSET ({"base", "copy"} \X Events)]
        BY ForgetTypes
    <2>w. Workers \subseteq Pollers /\ Callers \subseteq Pollers
        BY DEF Pollers
    <2> USE DEF TypeOK, carrierVars, rowVars, pollVars, outerVars, Fault, Goto, WorkerPc
    <2>1. CASE Advance
        BY <2>1, LabelFacts DEF Advance
    <2>2. ASSUME NEW e \in Events, Reword(e) PROVE TypeOK'
        BY <2>2 DEF Reword, Texts
    <2>3. CASE PollTimePasses \/ Expire
        BY <2>3 DEF PollTimePasses, Expire
    <2>4. CASE BookingStep \/ BookingEnqueueFails \/ BookingDies
        BY <2>4
        DEF BookingStep, BookingEnqueues, BookingSetsPoll, BookingEnqueueFails, BookingDies
    <2>5. ASSUME NEW k \in Crons, CronStep(k) \/ CronFails(k) PROVE TypeOK'
        <3>1. CASE Schedule(k)
            BY <3>1 DEF Schedule
        <3>2. CASE Bump(k)
            BY <3>2 DEF Bump
        <3>3. CASE CronFails(k)
            BY <3>3 DEF CronFails
        <3> QED
            BY <2>5, <3>1, <3>2, <3>3 DEF CronStep
    <2>6. ASSUME NEW p \in Pollers, PollStep(p) PROVE TypeOK'
        <3>1. CASE Load(p)
            BY <3>1 DEF Load
        <3>2. CASE Fetch(p)
            <4>1. [stage |-> stage, wording |-> wording] \in Reply
                BY DEF Reply
            <4>2. Reported(stage) \subseteq Events
                BY LabelFacts
            <4> QED
                BY <3>2, <4>1, <4>2 DEF Fetch
        <3>3. CASE LookUp(p)
            <4>1. \A e \in Events, t \in Texts : Verdict(e, t) \subseteq {"base", "same", "copy"}
                BY DEF Verdict
            <4>2. PICK e \in todo[p] : \E v \in Verdict(e, reply[p].wording[e]) :
                     /\ fresh' = [fresh EXCEPT ![p] = IF v = "same" THEN {} ELSE {<<v, e>>}]
                     /\ todo' = [todo EXCEPT ![p] = {f \in @ \ {e} : v = "copy" \/ Id(f) # Id(e)}]
                BY <3>3 DEF LookUp
            <4>3. e \in Events /\ reply[p].wording[e] \in Texts
                BY DEF Reply
            <4>4. fresh' \in [Pollers -> SUBSET ({"base", "copy"} \X Events)]
                BY <4>1, <4>2, <4>3
            <4>5. todo' \in [Pollers -> SUBSET Events]
                BY <4>2
            <4> QED
                BY <3>3, <4>4, <4>5 DEF LookUp
        <3>4. CASE AutoFlush(p)
            BY <3>4, WrittenTypes DEF AutoFlush
        <3>5. CASE Flush(p)
            <4>1. /\ status' \in Statuses
                  /\ rows' \in [Events -> [Texts -> Nat]]
                  /\ copies' \in [Events -> [Texts -> Nat]]
                  /\ Label(p) \in Statuses
                BY <3>5, WrittenTypes DEF Flush
            <4>2. pc' \in [Pollers -> WorkerPc]
                BY <3>5 DEF Flush
            <4>3. CASE /\ loaded' = [loaded EXCEPT ![p] = Label(p)]
                       /\ fresh' = [fresh EXCEPT ![p] = {}]
                       /\ UNCHANGED <<reply, todo>>
                BY <3>5, <4>1, <4>2, <4>3 DEF Flush
            <4>4. CASE Forget(p)
                BY <3>5, <4>1, <4>2, <4>4, <2>0 DEF Flush
            <4> QED
                BY <3>5, <4>3, <4>4 DEF Flush
        <3> QED
            BY <2>6, <3>1, <3>2, <3>3, <3>4, <3>5 DEF PollStep
    <2>7. ASSUME NEW w \in Workers, WorkerStep(w) PROVE TypeOK'
        <3>1. CASE TakeJob(w)
            <4>1. jobs' \in Nat
                BY <3>1 DEF TakeJob
            <4>2. lock' \in Workers /\ pc' \in [Pollers -> WorkerPc]
                BY <3>1, <2>w DEF TakeJob, Locked
            <4> QED
                BY <3>1, <4>1, <4>2 DEF TakeJob
        <3>2. CASE SkipJob(w)
            BY <3>2 DEF SkipJob
        <3>3. CASE PollStep(w)
            BY <3>3, <2>6, <2>w
        <3>4. CASE SetNextPoll(w)
            BY <3>4 DEF SetNextPoll
        <3>5. CASE EnqueueNext(w)
            BY <3>5, <2>w DEF EnqueueNext
        <3>6. CASE Unlock(w)
            BY <3>6, <2>0, <2>w DEF Unlock
        <3> QED
            BY <2>7, <3>1, <3>2, <3>3, <3>4, <3>5, <3>6 DEF WorkerStep
    <2>8. ASSUME NEW w \in Workers, PollFails(w) \/ HandleErrorFails(w) \/ WorkerDies(w)
          PROVE  TypeOK'
        <3>1. CASE PollFails(w)
            BY <3>1, <2>0, <2>w DEF PollFails
        <3>2. CASE HandleErrorFails(w)
            BY <3>2, <2>w DEF HandleErrorFails
        <3>3. CASE WorkerDies(w)
            BY <3>3, <2>0, <2>w DEF WorkerDies
        <3> QED
            BY <2>8, <3>1, <3>2, <3>3
    <2>9. ASSUME NEW c \in Callers, BeginTrack(c) \/ TrackFails(c) PROVE TypeOK'
        <3>1. CASE BeginTrack(c)
            BY <3>1 DEF BeginTrack
        <3>2. CASE TrackFails(c)
            BY <3>2, <2>0, <2>w DEF TrackFails
        <3> QED
            BY <2>9, <3>1, <3>2
    <2>10. ASSUME NEW x \in Cancellers, BeginCancel(x) \/ Cancel(x) \/ CancelRefused(x)
           PROVE  TypeOK'
        BY <2>10 DEF BeginCancel, Cancel, CancelRefused, Statuses
    <2>11. CASE UNCHANGED vars
        BY <2>11 DEF vars
    <2> HIDE DEF TypeOK, carrierVars, rowVars, pollVars, outerVars, Fault, Goto, WorkerPc
    <2> QED
        BY <2>1, <2>2, <2>3, <2>4, <2>5, <2>6, <2>7, <2>8, <2>9, <2>10, <2>11 DEF Next, Pollers
<1> QED
    BY <1>1, <1>2, PTL DEF Spec

----------------------------------------------------------------------------
\* A busy worker holds the lock.
LockHeld == \A w \in Busy : lock = w

\* The lock is only taken when it is free, deleted by its holder, and
\* expires only once its holder is gone: LockHeld is inductive.
LEMMA LockHeldInductive ==
    ASSUME LockMayExpire = FALSE, TypeOK, LockHeld, [Next]_vars
    PROVE  LockHeld'
<1> USE DEF TypeOK, LockHeld, Busy, Goto
<1>w. Workers \subseteq Pollers /\ (\A c \in Callers : c \notin Workers)
    BY TrackingAssumption DEF Pollers
<1>1. CASE UNCHANGED <<pc, lock>>
    BY <1>1
<1>2. CASE Expire
    BY <1>2, TrackingAssumption DEF Expire, TtlPasses
<1>3. ASSUME NEW w \in Workers, WorkerStep(w) \/ PollFails(w) \/ HandleErrorFails(w) \/ WorkerDies(w)
      PROVE  LockHeld'
    <2>1. CASE TakeJob(w)
        BY <2>1, <1>w, TrackingAssumption DEF TakeJob, Locked
    <2>2. CASE Unlock(w)
        BY <2>2, <1>w DEF Unlock
    <2>3. CASE \E label \in WorkerPc : pc[w] # "idle" /\ Goto(w, label) /\ UNCHANGED lock
        BY <2>3, <1>w
    <2>4. CASE SkipJob(w)
        BY <2>4 DEF SkipJob
    <2>5. CASE PollStep(w)
        BY <2>5, <1>w DEF PollStep, Load, Fetch, LookUp, AutoFlush, Flush
    <2>6. CASE SetNextPoll(w)
        BY <2>6, <2>3 DEF SetNextPoll, WorkerPc
    <2>7. CASE EnqueueNext(w)
        BY <2>7, <2>3 DEF EnqueueNext, WorkerPc
    <2>8. CASE PollFails(w)
        BY <2>8, <2>3 DEF PollFails, WorkerPc
    <2>9. CASE HandleErrorFails(w)
        BY <2>9, <2>3 DEF HandleErrorFails, WorkerPc
    <2>10. CASE WorkerDies(w)
        BY <2>10, <2>3 DEF WorkerDies, WorkerPc
    <2> QED
        BY <1>3, <2>1, <2>2, <2>4, <2>5, <2>6, <2>7, <2>8, <2>9, <2>10 DEF WorkerStep
<1>4. ASSUME NEW c \in Callers, BeginTrack(c) \/ PollStep(c) \/ TrackFails(c)
      PROVE  LockHeld'
    <2>1. UNCHANGED lock /\ (\A w \in Workers : pc'[w] = pc[w])
        BY <1>4, <1>w
        DEF BeginTrack, TrackFails, PollStep, Load, Fetch, LookUp, AutoFlush, Flush
    <2> QED
        BY <2>1
<1> QED
    BY <1>1, <1>2, <1>3, <1>4
    DEF Next, vars, Advance, Reword, PollTimePasses, BookingStep, BookingEnqueues, BookingSetsPoll,
        BookingEnqueueFails, BookingDies, CronStep, Schedule, Bump, CronFails,
        BeginCancel, Cancel, CancelRefused

\* As long as no poll outlives its lock, two workers never process the
\* shipment at the same time, crashes and failures included (processJob).
THEOREM LockSeparates ==
    ASSUME LockMayExpire = FALSE
    PROVE  Spec => []OneWorkerAtATime
<1>1. Init => LockHeld
    BY DEF Init, LockHeld, Busy, Pollers
<1>2. TypeOK /\ LockHeld /\ [Next]_vars => LockHeld'
    BY LockHeldInductive
<1>3. LockHeld => OneWorkerAtATime
    BY DEF LockHeld, OneWorkerAtATime, Busy
<1> QED
    BY <1>1, <1>2, <1>3, TypeCorrect, PTL DEF Spec

----------------------------------------------------------------------------
\* Rows are only ever added: what is stored stays stored.
LEMMA StoredStays ==
    ASSUME TypeOK, [Next]_vars, NEW e \in Events, NEW t \in Texts, Stored(e, t)
    PROVE  Stored(e, t)'
<1> USE DEF TypeOK, rowVars
<1>1. CASE UNCHANGED rowVars
    BY <1>1 DEF Stored
<1>2. ASSUME NEW p \in Pollers, Written(p) PROVE Stored(e, t)'
    <2>1. rows'[e][t] \in {rows[e][t], rows[e][t] + 1}
        BY <1>2 DEF Written, Inserted
    <2>2. copies[e][t] > 0 => copies'[e][t] > 0
        <3>1. Inserted(copies, p, "copy")[e][t] \in {copies[e][t], copies[e][t] + 1}
            BY DEF Inserted
        <3> QED
            BY <1>2, <3>1, TrackingAssumption DEF Written, Counted
    <2>3. rows[e][t] \in Nat /\ copies[e][t] \in Nat /\ copies'[e][t] \in Nat
        BY <1>2, WrittenTypes
    <2> QED
        BY <2>1, <2>2, <2>3 DEF Stored
<1>3. ASSUME NEW p \in Pollers, PollStep(p) PROVE Stored(e, t)'
    <2>1. CASE AutoFlush(p) \/ Flush(p)
        BY <2>1, <1>2 DEF AutoFlush, Flush
    <2>2. CASE Load(p) \/ Fetch(p) \/ LookUp(p)
        BY <2>2, <1>1 DEF Load, Fetch, LookUp
    <2> QED
        BY <1>3, <2>1, <2>2 DEF PollStep
<1>4. ASSUME NEW w \in Workers, WorkerStep(w) PROVE Stored(e, t)'
    BY <1>1, <1>3, <1>4
    DEF WorkerStep, TakeJob, SkipJob, SetNextPoll, EnqueueNext, Unlock, Pollers
<1> QED
    BY <1>1, <1>3, <1>4
    DEF Next, vars, Pollers, Advance, Reword, PollTimePasses, Expire, BookingStep, BookingEnqueues,
        BookingSetsPoll, BookingEnqueueFails, BookingDies, CronStep, Schedule, Bump, CronFails,
        PollFails, HandleErrorFails, WorkerDies, BeginTrack, TrackFails, BeginCancel, Cancel, CancelRefused

\* NothingForgotten, of one poll.
Kept(p) ==
    pc[p] \in {"apply", "schedule", "enqueue"} =>
        \A e \in Reported(reply[p].stage) \ todo[p] :
            (\E kind \in {"base", "copy"} : <<kind, e>> \in fresh[p]) \/ Stored(e, reply[p].wording[e])

\* A flush stores the event that was pending.
LEMMA FreshStored ==
    ASSUME TypeOK, NEW p \in Pollers, Written(p), NEW e \in Events,
           NEW kind \in {"base", "copy"}, <<kind, e>> \in fresh[p]
    PROVE  rows'[e][reply[p].wording[e]] + copies'[e][reply[p].wording[e]] > 0
<1> DEFINE t == reply[p].wording[e]
<1>1. t \in Texts
    BY DEF TypeOK, Reply
<1>2. /\ rows[e][t] \in Nat /\ rows'[e][t] \in Nat
      /\ copies[e][t] \in Nat /\ copies'[e][t] \in Nat
    <2>1. /\ rows \in [Events -> [Texts -> Nat]]
          /\ copies \in [Events -> [Texts -> Nat]]
        BY DEF TypeOK
    <2>2. /\ rows' \in [Events -> [Texts -> Nat]]
          /\ copies' \in [Events -> [Texts -> Nat]]
        BY WrittenTypes
    <2> QED
        BY <1>1, <2>1, <2>2
<1>3. CASE kind = "base"
    <2>1. rows'[e][t] = rows[e][t] + 1
        BY <1>1, <1>3 DEF Written, Inserted
    <2> QED
        BY <1>2, <2>1
<1>4. CASE kind = "copy"
    <2>1. Inserted(copies, p, "copy")[e][t] = copies[e][t] + 1
        BY <1>1, <1>4 DEF Inserted
    <2>2. copies'[e][t] = IF Inserted(copies, p, "copy")[e][t] > MaxCopies THEN MaxCopies
                          ELSE Inserted(copies, p, "copy")[e][t]
        BY <1>1 DEF Written, Counted
    <2>3. MaxCopies \in Nat \ {0}
        BY TrackingAssumption
    <2>4. copies'[e][t] = IF copies[e][t] + 1 > MaxCopies THEN MaxCopies ELSE copies[e][t] + 1
        BY <2>1, <2>2
    <2> QED
        BY <1>2, <1>4, <2>3, <2>4
<1> QED
    BY <1>3, <1>4

\* With ids that distinguish events, an event leaves todo only when it is
\* stored or pending, and a flush stores what is pending.
LEMMA KeptStep ==
    ASSUME SharedId = FALSE, TypeOK, [Next]_vars, NEW p \in Pollers, Kept(p)
    PROVE  Kept(p)'
<1>0. \A e \in Events, t \in Texts : Stored(e, t) => Stored(e, t)'
    BY StoredStays
<1>t. \A e \in Reported(reply[p].stage) : e \in Events /\ reply[p].wording[e] \in Texts
    BY LabelFacts DEF TypeOK, Reply
<1> USE DEF TypeOK, pollVars, Goto
<1>1. CASE UNCHANGED <<pollVars, pc>>
    BY <1>0, <1>1, <1>t DEF Kept
<1>2. CASE /\ UNCHANGED pollVars
           /\ pc'[p] = pc[p] \/ pc'[p] \notin {"apply", "schedule", "enqueue"}
              \/ (pc[p] = "schedule" /\ pc'[p] = "enqueue")
    BY <1>0, <1>2, <1>t DEF Kept
<1>3. CASE pc'[p] \notin {"apply", "schedule", "enqueue"}
    BY <1>3 DEF Kept
<1>4. CASE /\ pc'[p] = pc[p] /\ reply'[p] = reply[p]
           /\ todo'[p] = todo[p] /\ fresh'[p] = fresh[p]
    BY <1>0, <1>4, <1>t DEF Kept
<1>5. CASE PollStep(p)
    <2>1. CASE Load(p)
        BY <2>1, <1>3 DEF Load
    <2>2. CASE Fetch(p)
        <3>1. todo'[p] = Reported(stage) /\ reply'[p].stage = stage
            BY <2>2 DEF Fetch
        <3> QED
            BY <3>1 DEF Kept
    <2>3. CASE LookUp(p)
        <3>1. /\ pc[p] = "apply" /\ fresh[p] = {} /\ reply' = reply /\ pc' = pc
              /\ rows' = rows /\ copies' = copies
            BY <2>3 DEF LookUp, rowVars
        <3>a. PICK e \in todo[p] : \E v \in Verdict(e, reply[p].wording[e]) :
                 /\ fresh' = [fresh EXCEPT ![p] = IF v = "same" THEN {} ELSE {<<v, e>>}]
                 /\ todo' = [todo EXCEPT ![p] = {f \in @ \ {e} : v = "copy" \/ Id(f) # Id(e)}]
            BY <2>3 DEF LookUp
        <3>2. PICK v \in Verdict(e, reply[p].wording[e]) :
                 /\ fresh' = [fresh EXCEPT ![p] = IF v = "same" THEN {} ELSE {<<v, e>>}]
                 /\ todo' = [todo EXCEPT ![p] = {f \in @ \ {e} : v = "copy" \/ Id(f) # Id(e)}]
            BY <3>a
        <3>3. todo'[p] = todo[p] \ {e}
            BY <3>2 DEF Id
        <3>4. v = "same" => Stored(e, reply[p].wording[e])
            <4> SUFFICES ASSUME v = "same" PROVE Stored(e, reply[p].wording[e])
                OBVIOUS
            <4>1. e \in Events /\ reply[p].wording[e] \in Texts
                BY DEF Reply
            <4>2. rows[e][reply[p].wording[e]] > 0
                BY <3>2, <4>1 DEF Verdict
            <4> QED
                BY <4>1, <4>2 DEF Stored
        <3>5. v \in {"same", "base", "copy"}
            BY <3>2 DEF Verdict
        <3>6. \A f \in Reported(reply[p].stage) \ todo[p] : Stored(f, reply[p].wording[f])
            BY <3>1 DEF Kept
        <3>7. v # "same" => <<v, e>> \in fresh'[p]
            BY <3>2
        <3>8. \A f, t : Stored(f, t)' <=> Stored(f, t)
            BY <3>1 DEF Stored
        <3> QED
            BY <3>1, <3>3, <3>4, <3>5, <3>6, <3>7, <3>8 DEF Kept
    <2>4. CASE AutoFlush(p) \/ Flush(p)
        <3>1. Written(p) /\ pc[p] = "apply"
            BY <2>4 DEF AutoFlush, Flush
        <3>2. \A f \in Reported(reply[p].stage) \ todo[p] :
                 rows'[f][reply[p].wording[f]] + copies'[f][reply[p].wording[f]] > 0
            <4> SUFFICES ASSUME NEW f \in Reported(reply[p].stage) \ todo[p]
                         PROVE  rows'[f][reply[p].wording[f]] + copies'[f][reply[p].wording[f]] > 0
                OBVIOUS
            <4>1. f \in Events /\ reply[p].wording[f] \in Texts
                BY <1>t
            <4>2. CASE \E kind \in {"base", "copy"} : <<kind, f>> \in fresh[p]
                BY <3>1, <4>1, <4>2, FreshStored
            <4>3. CASE Stored(f, reply[p].wording[f])
                BY <4>1, <4>3, <1>0 DEF Stored
            <4> QED
                BY <3>1, <4>2, <4>3 DEF Kept
        <3>3. \/ reply' = reply /\ todo' = todo
              \/ pc'[p] = "idle"
            BY <2>4 DEF AutoFlush, Flush
        <3> QED
            BY <3>2, <3>3 DEF Kept, Stored
    <2> QED
        BY <1>5, <2>1, <2>2, <2>3, <2>4 DEF PollStep
<1>6. ASSUME NEW q \in Pollers, q # p, PollStep(q) PROVE Kept(p)'
    <2>1. /\ pc'[p] = pc[p] /\ reply'[p] = reply[p]
          /\ todo'[p] = todo[p] /\ fresh'[p] = fresh[p]
        BY <1>6 DEF PollStep, Load, Fetch, LookUp, AutoFlush, Flush, Forget
    <2> QED
        BY <2>1, <1>4
<1>7. ASSUME NEW w \in Workers, WorkerStep(w) PROVE Kept(p)'
    <2>1. CASE TakeJob(w) \/ SkipJob(w) \/ SetNextPoll(w) \/ EnqueueNext(w)
        BY <2>1, <1>2 DEF TakeJob, SkipJob, SetNextPoll, EnqueueNext
    <2>2. CASE Unlock(w)
        BY <2>2, <1>3, <1>4 DEF Unlock, Forget
    <2> QED
        BY <1>5, <1>6, <1>7, <2>1, <2>2 DEF WorkerStep, Pollers
<1>8. ASSUME NEW w \in Pollers, \/ PollFails(w) \/ WorkerDies(w) \/ TrackFails(w)
                                \/ HandleErrorFails(w) \/ BeginTrack(w)
      PROVE  Kept(p)'
    <2>1. CASE PollFails(w) \/ WorkerDies(w) \/ TrackFails(w)
        BY <2>1, <1>3, <1>4 DEF PollFails, WorkerDies, TrackFails, Forget
    <2>2. CASE HandleErrorFails(w) \/ BeginTrack(w)
        BY <2>2, <1>2 DEF HandleErrorFails, BeginTrack
    <2> QED
        BY <1>8, <2>1, <2>2
<1> QED
    BY <1>1, <1>5, <1>6, <1>7, <1>8
    DEF Next, vars, Pollers, Advance, Reword, PollTimePasses, Expire, BookingStep, BookingEnqueues,
        BookingSetsPoll, BookingEnqueueFails, BookingDies, CronStep, Schedule, Bump, CronFails,
        BeginCancel, Cancel, CancelRefused

\* If ids distinguish events, no event that a poll has gone through and
\* flushed is ever missing from the database, with or without a lock that
\* holds, overlapping requests, retries and crashes (apply).
THEOREM NothingIsForgotten ==
    ASSUME SharedId = FALSE
    PROVE  Spec => []NothingForgotten
<1> DEFINE Inv == \A p \in Pollers : Kept(p)
<1>1. Init => Inv
    BY DEF Init, Kept
<1>2. TypeOK /\ Inv /\ [Next]_vars => Inv'
    BY KeptStep
<1>3. Inv <=> NothingForgotten
    BY DEF Kept, NothingForgotten
<1> QED
    BY <1>1, <1>2, <1>3, TypeCorrect, PTL DEF Spec

----------------------------------------------------------------------------
\* What the lookup of a poll has found out: an idle worker has nothing
\* pending, and a row that is to be inserted under the event's own id is not
\* there yet.
LookedUp ==
    /\ \A w \in Workers : pc[w] = "idle" => fresh[w] = {}
    /\ \A w \in Workers : \A e \in Events :
          <<"base", e>> \in fresh[w] => rows[e][0] = 0 /\ rows[e][1] = 0

Single == LookedUp /\ OneRowPerId

\* Nobody but the worker that holds the lock can insert what it looked for.
LEMMA SingleStep ==
    ASSUME SharedId = FALSE, Callers = {}, TypeOK, LockHeld, Single, [Next]_vars
    PROVE  Single'
<1> USE DEF TypeOK, Single, LookedUp, OneRowPerId, Goto, rowVars, pollVars
<1>w. Pollers = Workers
    BY DEF Pollers
<1>1. CASE UNCHANGED <<rows, fresh, pc>>
    BY <1>1
<1>3. ASSUME NEW w \in Workers, LookUp(w) PROVE Single'
    <2>1. PICK e \in todo[w] : \E v \in Verdict(e, reply[w].wording[e]) :
             fresh' = [fresh EXCEPT ![w] = IF v = "same" THEN {} ELSE {<<v, e>>}]
        BY <1>3 DEF LookUp
    <2>2. PICK v \in Verdict(e, reply[w].wording[e]) :
             fresh' = [fresh EXCEPT ![w] = IF v = "same" THEN {} ELSE {<<v, e>>}]
        BY <2>1
    <2>3. e \in Events /\ pc[w] = "apply" /\ UNCHANGED <<rows, pc>>
        BY <1>3, <1>w DEF LookUp
    <2>4. v = "base" => rows[e][0] = 0 /\ rows[e][1] = 0
        <3> SUFFICES ASSUME v = "base" PROVE rows[e][0] = 0 /\ rows[e][1] = 0
            OBVIOUS
        <3>1. \A r \in Events \X Texts : ~(Id(r[1]) = Id(e) /\ rows[r[1]][r[2]] > 0)
            BY <2>2 DEF Verdict
        <3>2. <<e, 0>> \in Events \X Texts /\ <<e, 1>> \in Events \X Texts
            BY <2>3 DEF Texts
        <3>3. ~(rows[e][0] > 0) /\ ~(rows[e][1] > 0)
            BY <3>1, <3>2
        <3> QED
            BY <2>3, <3>3 DEF Texts
    <2>5. \A f \in Events : <<"base", f>> \in fresh'[w] => f = e /\ v = "base"
        BY <2>2, <1>w
    <2>6. \A q \in Workers \ {w} : fresh'[q] = fresh[q]
        BY <2>2, <1>w
    <2> QED
        BY <2>3, <2>4, <2>5, <2>6
<1>4. ASSUME NEW w \in Workers, AutoFlush(w) \/ Flush(w) PROVE Single'
    <2>1. /\ pc[w] = "apply" /\ rows' = Inserted(rows, w, "base")
          /\ fresh' = [fresh EXCEPT ![w] = {}]
          /\ \A q \in Workers \ {w} : pc'[q] = pc[q]
          /\ pc'[w] # "idle"
        <3>1. CASE AutoFlush(w)
            BY <3>1, <1>w DEF AutoFlush, Written
        <3>2. CASE Flush(w)
            <4>1. /\ pc[w] = "apply" /\ rows' = Inserted(rows, w, "base")
                  /\ fresh' = [fresh EXCEPT ![w] = {}] /\ pc' = [pc EXCEPT ![w] = "schedule"]
                BY <3>2 DEF Flush, Written
            <4> QED
                BY <4>1, <1>w
        <3> QED
            BY <1>4, <3>1, <3>2
    <2>2. \A q \in Workers \ {w} : pc[q] = "idle" /\ fresh[q] = {}
        BY <2>1, <1>w, TrackingAssumption DEF LockHeld, Busy
    <2>3. ASSUME NEW e \in Events PROVE rows'[e][0] + rows'[e][1] <= 1
        <3>1. /\ rows[e][0] \in Nat /\ rows[e][1] \in Nat /\ rows[e][0] + rows[e][1] <= 1
            BY DEF Texts
        <3>2. \A t \in Texts :
                 rows'[e][t] = IF <<"base", e>> \in fresh[w] /\ t = reply[w].wording[e]
                               THEN rows[e][t] + 1 ELSE rows[e][t]
            BY <2>1 DEF Inserted
        <3>3. <<"base", e>> \in fresh[w] => rows[e][0] = 0 /\ rows[e][1] = 0
            OBVIOUS
        <3>4. /\ rows'[e][0] = IF <<"base", e>> \in fresh[w] /\ 0 = reply[w].wording[e]
                               THEN rows[e][0] + 1 ELSE rows[e][0]
              /\ rows'[e][1] = IF <<"base", e>> \in fresh[w] /\ 1 = reply[w].wording[e]
                               THEN rows[e][1] + 1 ELSE rows[e][1]
            BY <3>2 DEF Texts
        <3> QED
            BY <3>1, <3>3, <3>4
    <2>4. \A q \in Workers : fresh'[q] = {}
        BY <2>1, <2>2, <1>w
    <2> QED
        BY <2>3, <2>4
<1>5. ASSUME NEW w \in Workers, \/ Load(w) \/ Fetch(w) \/ TakeJob(w) \/ SetNextPoll(w)
                                \/ EnqueueNext(w) \/ HandleErrorFails(w)
      PROVE  Single'
    BY <1>5, <1>w DEF Load, Fetch, TakeJob, SetNextPoll, EnqueueNext, HandleErrorFails
<1>6. ASSUME NEW w \in Workers, Unlock(w) \/ PollFails(w) \/ WorkerDies(w) PROVE Single'
    BY <1>6, <1>w DEF Unlock, PollFails, WorkerDies, Forget
<1>7. ASSUME NEW w \in Workers, SkipJob(w) PROVE Single'
    BY <1>1, <1>7 DEF SkipJob
<1> QED
    BY <1>1, <1>3, <1>4, <1>5, <1>6, <1>7
    DEF Next, vars, WorkerStep, PollStep, Advance, Reword, PollTimePasses, Expire, BookingStep,
        BookingEnqueues, BookingSetsPoll, BookingEnqueueFails, BookingDies, CronStep, Schedule, Bump,
        CronFails, BeginCancel, Cancel, CancelRefused

\* Where ids distinguish events, no request polls beside the workers and no
\* poll outlives its lock, an event never gets two rows with its own id: for
\* any number of workers, retries and crashes (apply).
THEOREM RowsAreSingle ==
    ASSUME LockMayExpire = FALSE, SharedId = FALSE, Callers = {}
    PROVE  Spec => []OneRowPerId
<1>1. Init => LockHeld /\ Single
    BY DEF Init, LockHeld, Busy, Pollers, Single, LookedUp, OneRowPerId, Texts
<1>2. TypeOK /\ LockHeld /\ Single /\ [Next]_vars => LockHeld' /\ Single'
    BY LockHeldInductive, SingleStep
<1>3. Single => OneRowPerId
    BY DEF Single
<1> QED
    BY <1>1, <1>2, <1>3, TypeCorrect, PTL DEF Spec

----------------------------------------------------------------------------
\* The carrier goes through no label twice.
Distinct == \A i, j \in DOMAIN Labels : Labels[i] = Labels[j] => i = j

\* The labels are ranked as the carrier goes through them; what is no label
\* of the carrier comes before all.
LEMMA RankFacts ==
    ASSUME Distinct
    PROVE  /\ \A n \in DOMAIN Labels : Rank(Labels[n]) = n
           /\ Rank("null") = 0 /\ Rank("CANCELLED") = 0
           /\ \A s \in Statuses : Rank(s) \in Nat
<1>1. ASSUME NEW n \in DOMAIN Labels PROVE Rank(Labels[n]) = n
    <2>1. Labels[n] \in Range(Labels)
        BY DEF Range
    <2>2. \A i \in DOMAIN Labels : Labels[i] = Labels[n] => i = n
        BY DEF Distinct
    <2> QED
        BY <2>1, <2>2 DEF Rank
<1>2. "null" \notin Range(Labels) /\ "CANCELLED" \notin Range(Labels)
    BY TrackingAssumption DEF Range
<1>3. Rank("null") = 0 /\ Rank("CANCELLED") = 0
    BY <1>2 DEF Rank
<1>4. ASSUME NEW s \in Range(Labels) PROVE Rank(s) \in Nat
    <2>1. PICK n \in DOMAIN Labels : s = Labels[n]
        BY DEF Range
    <2> QED
        BY <2>1, <1>1, LabelFacts
<1> QED
    BY <1>1, <1>3, <1>4 DEF Statuses

\* The carrier is never behind what was stored, nor is the answer that a
\* worker is about to store.
InStep ==
    /\ Rank(status) <= stage
    /\ \A w \in Workers : pc[w] = "apply" => Rank(status) <= reply[w].stage /\ reply[w].stage <= stage

\* What a flush of worker w makes of the status.
LEMMA WrittenRank ==
    ASSUME Distinct, TypeOK, InStep, NEW w \in Workers, pc[w] = "apply", Written(w)
    PROVE  /\ Rank(status) <= Rank(status')
           /\ Rank(status') <= reply[w].stage
<1>1. reply[w].stage \in DOMAIN Labels /\ reply[w].stage \in Nat
    BY LabelFacts DEF TypeOK, Reply, Pollers
<1>2. Rank(Label(w)) = reply[w].stage
    BY <1>1, RankFacts DEF Label
<1>3. status' = status \/ status' = Label(w)
    BY DEF Written, NewStatus
<1>4. Rank(status) \in Nat /\ Rank(status) <= reply[w].stage
    BY RankFacts DEF TypeOK, InStep
<1> QED
    BY <1>1, <1>2, <1>3, <1>4

\* While one worker applies its answer, nobody else polls.
LEMMA InStepKept ==
    ASSUME Distinct, Callers = {}, TypeOK, LockHeld, InStep, [Next]_vars
    PROVE  InStep' /\ (status' # "CANCELLED" => Rank(status') >= Rank(status))
<1> USE DEF TypeOK, Goto
<1>w. Pollers = Workers
    BY DEF Pollers
<1>n. /\ stage \in Nat /\ Rank(status) \in Nat /\ Rank("CANCELLED") = 0
      /\ \A w \in Workers : reply[w].stage \in Nat
    BY LabelFacts, RankFacts, <1>w DEF Reply
<1>1. CASE UNCHANGED <<status, stage, reply, pc>>
    BY <1>1, <1>n DEF InStep
<1>2. CASE Advance
    <2>1. stage' = stage + 1 /\ UNCHANGED <<status, reply, pc>>
        BY <1>2 DEF Advance, pollVars
    <2> QED
        BY <2>1, <1>n DEF InStep
<1>3. CASE /\ UNCHANGED <<status, stage>>
           /\ \A w \in Workers : pc'[w] # "apply" \/ (pc'[w] = pc[w] /\ reply'[w] = reply[w])
    BY <1>3, <1>n DEF InStep
<1>4. ASSUME NEW w \in Workers, Fetch(w)
      PROVE  InStep' /\ (status' # "CANCELLED" => Rank(status') >= Rank(status))
    <2>1. /\ UNCHANGED <<status, stage>>
          /\ reply'[w].stage = stage
          /\ \A v \in Workers \ {w} : pc'[v] = pc[v] /\ reply'[v] = reply[v]
        BY <1>4, <1>w DEF Fetch, carrierVars
    <2> QED
        BY <2>1, <1>n DEF InStep
<1>5. ASSUME NEW w \in Workers, AutoFlush(w) \/ Flush(w)
      PROVE  InStep' /\ (status' # "CANCELLED" => Rank(status') >= Rank(status))
    <2>1. /\ pc[w] = "apply" /\ Written(w) /\ UNCHANGED <<stage, reply>>
          /\ \A v \in Workers \ {w} : pc'[v] = pc[v]
        BY <1>5, <1>w, TrackingAssumption DEF AutoFlush, Flush, carrierVars
    <2>2. \A v \in Workers \ {w} : pc[v] = "idle"
        BY <2>1 DEF LockHeld, Busy
    <2>3. /\ Rank(status) <= Rank(status')
          /\ Rank(status') <= reply[w].stage
        BY <2>1, WrittenRank
    <2>4. Rank(status') \in Nat
        BY <2>1, <1>w, WrittenTypes, RankFacts
    <2>5. reply[w].stage <= stage
        BY <2>1 DEF InStep
    <2> QED
        BY <2>1, <2>2, <2>3, <2>4, <2>5, <1>n DEF InStep
<1>6. ASSUME NEW x \in Cancellers, Cancel(x)
      PROVE  InStep' /\ (status' # "CANCELLED" => Rank(status') >= Rank(status))
    <2>1. status' = "CANCELLED" /\ UNCHANGED <<stage, reply, pc>>
        BY <1>6 DEF Cancel, carrierVars, pollVars
    <2> QED
        BY <2>1, <1>n DEF InStep
<1>7. ASSUME NEW w \in Workers, Load(w) \/ LookUp(w) \/ TakeJob(w) \/ SkipJob(w) \/ SetNextPoll(w)
                                \/ EnqueueNext(w) \/ HandleErrorFails(w)
      PROVE  InStep' /\ (status' # "CANCELLED" => Rank(status') >= Rank(status))
    BY <1>7, <1>3, <1>w
    DEF Load, LookUp, TakeJob, SkipJob, SetNextPoll, EnqueueNext, HandleErrorFails, carrierVars, pollVars
<1>8. ASSUME NEW w \in Workers, Unlock(w) \/ PollFails(w) \/ WorkerDies(w)
      PROVE  InStep' /\ (status' # "CANCELLED" => Rank(status') >= Rank(status))
    BY <1>8, <1>3, <1>w DEF Unlock, PollFails, WorkerDies, Forget, carrierVars
<1> QED
    BY <1>1, <1>2, <1>4, <1>5, <1>6, <1>7, <1>8
    DEF Next, vars, carrierVars, pollVars, WorkerStep, PollStep, Reword, PollTimePasses, Expire, BookingStep,
        BookingEnqueues, BookingSetsPoll, BookingEnqueueFails, BookingDies, CronStep, Schedule, Bump,
        CronFails, BeginCancel, CancelRefused

\* Where no poll outlives its lock, no request polls beside the workers and
\* the carrier does not come back to a label it has left, no poll takes the
\* status back: for any number of workers, cancellations, retries and
\* crashes (apply, scheduleNextPoll).
THEOREM NoPollGoesBack ==
    ASSUME LockMayExpire = FALSE, Callers = {}, Distinct
    PROVE  Spec => StatusNeverRegresses
<1>1. Init => LockHeld /\ InStep
    <2> SUFFICES ASSUME Init PROVE LockHeld /\ InStep
        OBVIOUS
    <2>1. Rank(status) = 0 /\ stage = 1
        BY RankFacts DEF Init
    <2> QED
        BY <2>1 DEF Init, LockHeld, Busy, Pollers, InStep
<1>2. TypeOK /\ LockHeld /\ InStep /\ [Next]_vars => LockHeld' /\ InStep'
    BY LockHeldInductive, InStepKept
<1>3. TypeOK /\ LockHeld /\ InStep /\ [Next]_vars
          => [status' # "CANCELLED" => Rank(status') >= Rank(status)]_vars
    BY InStepKept
<1> QED
    BY <1>1, <1>2, <1>3, TypeCorrect, PTL DEF Spec, StatusNeverRegresses

----------------------------------------------------------------------------
\* What a worker has flushed is what the row says when it plans the next
\* poll, unless the shipment was cancelled meanwhile.
PolledIsRecorded ==
    \A w \in Workers :
        pc[w] \in {"schedule", "enqueue"} => status \in {Label(w), "CANCELLED"}

\* The entity of a poll is the row, but for a cancellation.
InSight ==
    \A w \in Workers :
        /\ pc[w] \in {"fetch", "apply", "schedule", "enqueue"} =>
              status \in {loaded[w], "CANCELLED"}
        /\ pc[w] \in {"schedule", "enqueue"} => loaded[w] = Label(w)

\* Nobody but the worker that polls writes a status, and cancellations.
LEMMA InSightKept ==
    ASSUME Callers = {}, TypeOK, LockHeld, InSight, [Next]_vars
    PROVE  InSight'
<1> USE DEF TypeOK, Goto
<1>w. Pollers = Workers
    BY DEF Pollers
<1>1. CASE /\ status' = status
           /\ \A w \in Workers :
                 \/ pc'[w] \notin {"fetch", "apply", "schedule", "enqueue"}
                 \/ /\ pc'[w] = pc[w] \/ (pc[w] = "schedule" /\ pc'[w] = "enqueue")
                    /\ loaded'[w] = loaded[w] /\ reply'[w] = reply[w]
    BY <1>1 DEF InSight, Label
<1>2. ASSUME NEW w \in Workers, Load(w) PROVE InSight'
    <2>1. /\ status' = status /\ loaded'[w] = status /\ pc'[w] = "fetch"
          /\ \A v \in Workers \ {w} : /\ pc'[v] = pc[v] /\ loaded'[v] = loaded[v]
                                      /\ reply'[v] = reply[v]
        BY <1>2, <1>w DEF Load
    <2> QED
        BY <2>1 DEF InSight, Label
<1>3. ASSUME NEW w \in Workers, Fetch(w) \/ LookUp(w) PROVE InSight'
    <2>1. /\ UNCHANGED <<status, loaded>> /\ pc[w] \in {"fetch", "apply"} /\ pc'[w] = "apply"
          /\ \A v \in Workers \ {w} : pc'[v] = pc[v] /\ reply'[v] = reply[v]
        BY <1>3, <1>w DEF Fetch, LookUp
    <2> QED
        BY <2>1 DEF InSight, Label
<1>4. ASSUME NEW w \in Workers, AutoFlush(w) \/ Flush(w) PROVE InSight'
    <2>1. /\ pc[w] = "apply" /\ Written(w) /\ reply' = reply
          /\ pc'[w] \in {"apply", "schedule"} /\ loaded'[w] = Label(w)
          /\ \A v \in Workers \ {w} : pc'[v] = pc[v]
        BY <1>4, <1>w, TrackingAssumption DEF AutoFlush, Flush
    <2>2. \A v \in Workers \ {w} : pc'[v] = "idle"
        BY <2>1 DEF LockHeld, Busy
    <2>3. status' \in {Label(w), "CANCELLED"}
        BY <2>1 DEF Written, NewStatus, InSight
    <2>4. Label(w)' = Label(w)
        BY <2>1 DEF Label
    <2> QED
        BY <2>1, <2>2, <2>3, <2>4 DEF InSight
<1>5. ASSUME NEW x \in Cancellers, Cancel(x) PROVE InSight'
    <2>1. status' = "CANCELLED" /\ UNCHANGED <<loaded, reply, pc>>
        BY <1>5 DEF Cancel, pollVars
    <2> QED
        BY <2>1 DEF InSight, Label
<1>6. ASSUME NEW w \in Workers, TakeJob(w) \/ SkipJob(w) \/ SetNextPoll(w) \/ EnqueueNext(w)
                                \/ HandleErrorFails(w)
      PROVE  InSight'
    BY <1>1, <1>6, <1>w DEF TakeJob, SkipJob, SetNextPoll, EnqueueNext, HandleErrorFails, pollVars
<1>7. ASSUME NEW w \in Workers, Unlock(w) \/ PollFails(w) \/ WorkerDies(w) PROVE InSight'
    BY <1>1, <1>7, <1>w DEF Unlock, PollFails, WorkerDies, Forget
<1>8. CASE UNCHANGED <<status, loaded, reply, pc>>
    BY <1>1, <1>8
<1> QED
    BY <1>2, <1>3, <1>4, <1>5, <1>6, <1>7, <1>8
    DEF Next, vars, pollVars, WorkerStep, PollStep, Advance, Reword, PollTimePasses, Expire,
        BookingStep, BookingEnqueues, BookingSetsPoll, BookingEnqueueFails, BookingDies, CronStep,
        Schedule, Bump, CronFails, BeginCancel, CancelRefused

\* Where no poll outlives its lock and no request polls beside the workers, no
\* poll's status is lost, though only a changed property is written: for any
\* number of workers, crons, retries and crashes, the row has the label of the
\* answer by the time the next poll is planned, unless the shipment was
\* cancelled (apply, scheduleNextPoll).
THEOREM PolledStatusIsRecorded ==
    ASSUME LockMayExpire = FALSE, Callers = {}
    PROVE  Spec => []PolledIsRecorded
<1>1. Init => LockHeld /\ InSight
    BY DEF Init, LockHeld, Busy, Pollers, InSight
<1>2. TypeOK /\ LockHeld /\ InSight /\ [Next]_vars => LockHeld' /\ InSight'
    BY LockHeldInductive, InSightKept
<1>3. InSight => PolledIsRecorded
    BY DEF InSight, PolledIsRecorded
<1> QED
    BY <1>1, <1>2, <1>3, TypeCorrect, PTL DEF Spec
=============================================================================

------------------------------- MODULE Claims -------------------------------
(***************************************************************************)
(* The claim of one shipment: ClaimService files it, reviews it, changes   *)
(* its documents, and the cleanup processor deletes files some time after. *)
(* Rows live in the database, files on the disk, jobs in Redis, and no     *)
(* transaction spans two of them.                                          *)
(***************************************************************************)
EXTENDS Integers, FiniteSets

CONSTANTS
    Requests,
    RoleOf,         \* what each request asks for
    Files,          \* names of uploaded files
    Arriving,       \* bound: the sets of requests that arrive in one behaviour
    MaxFaults       \* bound on refused statements, crashes and failed jobs

Role == {"create", "decide", "update", "remove", "unlink", "comment"}

Status == {"DRAFT", "SUBMITTED", "UNDER_REVIEW", "PENDING_CARRIER_RESPONSE",
           "APPROVED", "REJECTED", "RESOLVED", "CLOSED"}

ASSUME ClaimsAssumption ==
    /\ RoleOf \in [Requests -> Role]
    /\ Arriving \subseteq SUBSET Requests
    /\ "none" \notin Requests
    /\ MaxFaults \in Nat

VARIABLES
    claim,          \* the row: who filed it and its status, "none" before
    docs,           \* the document rows
    comments,       \* the requests whose comments are stored
    disk,           \* the files that are there
    uploaded,       \* the files that have ever been there
    jobs,           \* delayed deletions, in Redis
    gone,           \* history: which removal deleted a file
    leaked,         \* history: files whose deletion failed for good
    pc,             \* pc[r]: where the handler of r stands
    arg,            \* arg[r]: the status or the files r asks for
    copy,           \* copy[r]: the claim and the documents as r loaded them
    left,           \* left[r]: the rows whose files r has still to see deleted
    faults          \* bound: faults left

vars == <<claim, docs, comments, disk, uploaded, jobs, gone, leaked, pc, arg, copy, left, faults>>

ClaimRow == [by : Requests \cup {"none"}, status : Status \cup {"none"}]

NoClaim == [by |-> "none", status |-> "none"]

DocumentRow == [file : Files, by : Requests]

\* row: the row the file was deleted for, none when it was deleted by name
Removal == [by : Requests, file : Files, row : SUBSET DocumentRow]

Pc == {"absent", "idle", "insert", "decide", "queue", "unlinked", "comment",
       "told", "done", "interrupted"}

Filed == claim.status # "none"

FilesOf(rows) == {d.file : d \in rows}

TypeOK ==
    /\ claim \in ClaimRow
    /\ docs \subseteq DocumentRow
    /\ comments \subseteq Requests
    /\ disk \subseteq uploaded
    /\ uploaded \subseteq Files
    /\ jobs \subseteq Removal
    /\ gone \subseteq Removal
    /\ leaked \subseteq Files
    /\ pc \in [Requests -> Pc]
    /\ arg \in [Requests -> [status : Status, files : SUBSET Files]]
    /\ copy \in [Requests -> [status : Status \cup {"none"}, docs : SUBSET DocumentRow]]
    /\ left \in [Requests -> SUBSET DocumentRow]
    /\ faults \in Nat

Init ==
    /\ claim = NoClaim
    /\ docs = {}
    /\ comments = {}
    /\ disk = {}
    /\ uploaded = {}
    /\ jobs = {}
    /\ gone = {}
    /\ leaked = {}
    /\ \E here \in Arriving : pc = [r \in Requests |-> IF r \in here THEN "idle" ELSE "absent"]
    /\ arg = [r \in Requests |-> [status |-> "DRAFT", files |-> {}]]
    /\ copy = [r \in Requests |-> [status |-> "none", docs |-> {}]]
    /\ left = [r \in Requests |-> {}]
    /\ faults = MaxFaults

Goto(r, label) == pc' = [pc EXCEPT ![r] = label]

Is(r, role) == RoleOf[r] = role

\* A request that is refused keeps nothing.
Refuse(r) == Goto(r, "told") /\ UNCHANGED <<arg, copy>>

Accept(r, label, status, files) ==
    /\ Goto(r, label)
    /\ arg' = [arg EXCEPT ![r] = [status |-> status, files |-> files]]
    /\ copy' = [copy EXCEPT ![r] = [status |-> claim.status, docs |-> docs]]

----------------------------------------------------------------------------
(* Filing                                                                  *)

\* Multer gives every upload a name of its own.
Upload(f) ==
    /\ f \notin uploaded
    /\ disk' = disk \cup {f}
    /\ uploaded' = uploaded \cup {f}
    /\ UNCHANGED <<claim, docs, comments, jobs, gone, leaked, pc, arg, copy, left, faults>>

BeginCreate(r, status, files) ==
    /\ Is(r, "create")
    /\ pc[r] = "idle"
    /\ IF ~Filed /\ status \in {"DRAFT", "SUBMITTED"}
          THEN Accept(r, "insert", status, files)
          ELSE Refuse(r)
    /\ UNCHANGED <<claim, docs, comments, disk, uploaded, jobs, gone, leaked, left, faults>>

\* A bug that forgets who uploaded a document.
NewRowsMutant(r, files) == [file : files, by : {"none"}]

NewRows(r, files) == [file : files, by : {r}]

\* The shipment of a claim is unique.
Taken == Filed

InsertClaim(r) ==
    /\ pc[r] = "insert"
    /\ IF Taken
          THEN Goto(r, "told") /\ UNCHANGED <<claim, docs>>
          ELSE /\ claim' = [by |-> r, status |-> arg[r].status]
               /\ docs' = docs \cup NewRows(r, arg[r].files)
               /\ Goto(r, "done")
    /\ UNCHANGED <<comments, disk, uploaded, jobs, gone, leaked, arg, copy, left, faults>>

----------------------------------------------------------------------------
(* Review                                                                  *)

\* allowedTransitions: a draft has none.
Transitions(status) ==
    CASE status = "SUBMITTED" -> {"UNDER_REVIEW", "APPROVED", "REJECTED"}
      [] status = "UNDER_REVIEW" -> {"APPROVED", "REJECTED"}
      [] status = "APPROVED" -> {"RESOLVED"}
      [] OTHER -> {}

\* A bug that refuses only the status a claim already has.
MayBecomeMutant(status) == claim.status \notin {"none", status}

MayBecome(status) == status \in Transitions(claim.status)

BeginDecide(r, status) ==
    /\ Is(r, "decide")
    /\ pc[r] = "idle"
    /\ IF MayBecome(status)
          THEN Accept(r, "decide", status, {})
          ELSE Refuse(r)
    /\ UNCHANGED <<claim, docs, comments, disk, uploaded, jobs, gone, leaked, left, faults>>

FlushStatus(r) ==
    /\ pc[r] = "decide"
    /\ claim' = [claim EXCEPT !.status = arg[r].status]
    /\ Goto(r, "done")
    /\ UNCHANGED <<docs, comments, disk, uploaded, jobs, gone, leaked, arg, copy, left, faults>>

\* addComment: the claim is looked up, then the comment inserted.
BeginComment(r) ==
    /\ Is(r, "comment")
    /\ pc[r] = "idle"
    /\ Goto(r, IF Filed THEN "comment" ELSE "told")
    /\ UNCHANGED <<claim, docs, comments, disk, uploaded, jobs, gone, leaked, arg, copy, left, faults>>

InsertComment(r) ==
    /\ pc[r] = "comment"
    /\ comments' = comments \cup {r}
    /\ Goto(r, "done")
    /\ UNCHANGED <<claim, docs, disk, uploaded, jobs, gone, leaked, arg, copy, left, faults>>

----------------------------------------------------------------------------
(* ClaimService.update: the documents asked for replace those loaded       *)

Dropped(rows, files) == {d \in rows : d.file \notin files}

BeginUpdate(r, files) ==
    /\ Is(r, "update")
    /\ pc[r] = "idle"
    /\ IF Filed
          THEN /\ Accept(r, "queue", "DRAFT", files)
               /\ left' = [left EXCEPT ![r] = Dropped(docs, files)]
          ELSE Refuse(r) /\ UNCHANGED left
    /\ UNCHANGED <<claim, docs, comments, disk, uploaded, jobs, gone, leaked, faults>>

QueueDeletion(r) ==
    /\ pc[r] = "queue"
    /\ \E d \in left[r] :
          /\ jobs' = jobs \cup {[by |-> r, file |-> d.file, row |-> {d}]}
          /\ left' = [left EXCEPT ![r] = @ \ {d}]
    /\ UNCHANGED <<claim, docs, comments, disk, uploaded, gone, leaked, pc, arg, copy, faults>>

\* A bug that leaves the rows whose files are to go.
ReplacedMutant(r) == docs \cup NewRows(r, arg[r].files \ FilesOf(copy[r].docs))

\* Rows deleted meanwhile are deleted again, in vain.
Replaced(r) ==
    (docs \ Dropped(copy[r].docs, arg[r].files))
        \cup NewRows(r, arg[r].files \ FilesOf(copy[r].docs))

FlushUpdate(r) ==
    /\ pc[r] = "queue"
    /\ left[r] = {}
    /\ docs' = Replaced(r)
    /\ Goto(r, "done")
    /\ UNCHANGED <<claim, comments, disk, uploaded, jobs, gone, leaked, arg, copy, left, faults>>

----------------------------------------------------------------------------
(* Files leave the disk                                                    *)

\* A bug that reports success without deleting.
DeletesMutant(g) == UNCHANGED <<disk, gone>>

Deletes(g) ==
    /\ disk' = disk \ {g.file}
    /\ gone' = IF g.file \in disk THEN gone \cup {g} ELSE gone

\* deleteDocument by id: first the file, whose absence is no error, ...
UnlinkDocument(r) ==
    /\ Is(r, "remove")
    /\ pc[r] = "idle"
    /\ \E d \in docs :
          /\ Deletes([by |-> r, file |-> d.file, row |-> {d}])
          /\ copy' = [copy EXCEPT ![r].docs = {d}]
    /\ Goto(r, "unlinked")
    /\ UNCHANGED <<claim, docs, comments, uploaded, jobs, leaked, arg, left, faults>>

\* ... then the row.
RemoveDocument(r) ==
    /\ pc[r] = "unlinked"
    /\ docs' = docs \ copy[r].docs
    /\ Goto(r, "done")
    /\ UNCHANGED <<claim, comments, disk, uploaded, jobs, gone, leaked, arg, copy, left, faults>>

\* deleteDocument by file name: no row is looked at.
UnlinkByName(r, f) ==
    /\ Is(r, "unlink")
    /\ pc[r] = "idle"
    /\ Deletes([by |-> r, file |-> f, row |-> {}])
    /\ Goto(r, IF f \in disk THEN "done" ELSE "told")
    /\ UNCHANGED <<claim, docs, comments, uploaded, jobs, leaked, arg, copy, left, faults>>

\* ClaimDocumentCleanupProcessor.process.
RunJob(j) ==
    /\ j \in jobs
    /\ jobs' = jobs \ {j}
    /\ Deletes(j)
    /\ UNCHANGED <<claim, docs, comments, uploaded, leaked, pc, arg, copy, left, faults>>

\* The job throws; with no attempts configured it is not tried again.
JobFails(j) ==
    /\ j \in jobs
    /\ faults > 0
    /\ faults' = faults - 1
    /\ jobs' = jobs \ {j}
    /\ leaked' = leaked \cup {j.file}
    /\ UNCHANGED <<claim, docs, comments, disk, uploaded, gone, pc, arg, copy, left>>

\* The process dies, or the database, the disk or Redis refuses.
Interrupt(r) ==
    /\ pc[r] \notin {"absent", "idle", "told", "done", "interrupted"}
    /\ faults > 0
    /\ faults' = faults - 1
    /\ Goto(r, "interrupted")
    /\ UNCHANGED <<claim, docs, comments, disk, uploaded, jobs, gone, leaked, arg, copy, left>>

Next ==
    \/ \E f \in Files : Upload(f)
    \/ \E r \in Requests :
        \/ \E status \in Status : BeginDecide(r, status)
        \/ \E files \in SUBSET uploaded :
              \/ \E status \in Status : BeginCreate(r, status, files)
              \/ BeginUpdate(r, files)
        \/ \E f \in Files : UnlinkByName(r, f)
        \/ InsertClaim(r) \/ FlushStatus(r)
        \/ BeginComment(r) \/ InsertComment(r)
        \/ QueueDeletion(r) \/ FlushUpdate(r)
        \/ UnlinkDocument(r) \/ RemoveDocument(r)
        \/ Interrupt(r)
    \/ \E j \in jobs : RunJob(j) \/ JobFails(j)

\* The worker process takes jobs as they come due.
Fairness == WF_vars(\E j \in jobs : RunJob(j))

Spec == Init /\ [][Next]_vars /\ Fairness

----------------------------------------------------------------------------
(* Properties                                                              *)

\* A status follows the table, or the decision was taken on a status that
\* another reviewer has changed since.
StatusFollowsTable ==
    [][Filed /\ claim'.status # claim.status =>
          \E r \in Requests :
              /\ claim'.status = arg[r].status
              /\ pc[r] = "decide" /\ pc'[r] = "done"
              /\ claim'.status \in Transitions(claim.status)
                    \/ claim.status # copy[r].status]_vars

\* A document keeps its file as long as its row stands, unless the file was
\* deleted by name, for another document that names it, or by a removal that
\* is not finished or was cut short.
DocumentKeepsFile ==
    \A d \in docs : d.file \notin disk =>
        \E g \in gone : /\ g.file = d.file
                        /\ \/ g.row # {d}
                           \/ pc[g.by] \in {"queue", "unlinked", "interrupted"}

\* A file that has lost its last document is deleted in the end, unless the
\* job that was to delete it failed.
OrphansGo ==
    \A f \in Files :
        (\E r \in Requests : pc[r] = "done" /\ f \in FilesOf(copy[r].docs) \ FilesOf(docs))
            ~> (f \in FilesOf(docs) \cup leaked \/ f \notin disk)
=============================================================================

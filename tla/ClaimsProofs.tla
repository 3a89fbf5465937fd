---------------------------- MODULE ClaimsProofs ----------------------------
(***************************************************************************)
(* Theorems about Claims, for every set of requests and of files.          *)
(*                                                                         *)
(* That a document keeps its file cannot be seen from the rows and the     *)
(* disk: a job deletes a file long after the update that dropped its row,  *)
(* and in between the row is there or not.  Rows says who can know of a    *)
(* row, Removals what a deletion, done or to come, was for.  Decisions is  *)
(* about the status, FreshDecisions about reviewers who take turns.        *)
(***************************************************************************)
EXTENDS Claims, TLAPS

\* Whoever knows of a row knows of it after the request that inserted it is
\* done: a row is never inserted twice.
Rows ==
    /\ \A d \in docs : pc[d.by] = "done"
    /\ \A r \in Requests : \A d \in copy[r].docs \cup left[r] : pc[d.by] = "done"
    /\ \A g \in jobs \cup gone : \A d \in g.row : pc[d.by] = "done"

\* A file leaves the disk by a removal that is on record, and a removal that
\* is finished was for a row that is gone.
Removals ==
    /\ \A r \in Requests : arg[r].files \subseteq uploaded
    /\ \A d \in docs : d.file \in uploaded
    /\ \A f \in uploaded \ disk : \E g \in gone : g.file = f
    /\ \A r \in Requests : pc[r] = "queue" => left[r] \subseteq Dropped(copy[r].docs, arg[r].files)
    /\ \A g \in jobs \cup gone :
          /\ pc[g.by] \in {"queue", "unlinked", "interrupted", "done"}
          /\ pc[g.by] = "queue" => g.row \subseteq Dropped(copy[g.by].docs, arg[g.by].files)
          /\ pc[g.by] = "unlinked" => g.row \subseteq copy[g.by].docs
          /\ pc[g.by] = "done" => g.row \cap docs = {}

\* A decision that waits for its flush was one the table had.
Decisions ==
    \A r \in Requests :
        pc[r] = "decide" => arg[r].status \in Transitions(copy[r].status)

----------------------------------------------------------------------------
\* A request that is taken in waits where it was sent, with what it asked for
\* and what it found.
LEMMA TakenIn ==
    ASSUME TypeOK, NEW r \in Requests, NEW label \in Pc, NEW status \in Status,
           NEW files \in SUBSET uploaded, Accept(r, label, status, files)
    PROVE  /\ pc' \in [Requests -> Pc] /\ pc' = [pc EXCEPT ![r] = label]
           /\ arg' \in [Requests -> [status : Status, files : SUBSET Files]]
           /\ copy' \in [Requests -> [status : Status \cup {"none"}, docs : SUBSET DocumentRow]]
           /\ arg'[r].status = status /\ arg'[r].files = files
           /\ copy'[r].status = claim.status /\ copy'[r].docs = docs
           /\ \A q \in Requests \ {r} :
                 pc'[q] = pc[q] /\ arg'[q] = arg[q] /\ copy'[q] = copy[q]
<1>1. /\ [status |-> status, files |-> files] \in [status : Status, files : SUBSET Files]
      /\ [status |-> claim.status, docs |-> docs]
            \in [status : Status \cup {"none"}, docs : SUBSET DocumentRow]
  BY DEF TypeOK, ClaimRow
<1>2. /\ pc' = [pc EXCEPT ![r] = label]
      /\ arg' = [arg EXCEPT ![r] = [status |-> status, files |-> files]]
      /\ copy' = [copy EXCEPT ![r] = [status |-> claim.status, docs |-> docs]]
  BY DEF Accept, Goto
<1>3. /\ pc \in [Requests -> Pc]
      /\ arg \in [Requests -> [status : Status, files : SUBSET Files]]
      /\ copy \in [Requests -> [status : Status \cup {"none"}, docs : SUBSET DocumentRow]]
  BY DEF TypeOK
<1>4. QED
  BY <1>1, <1>2, <1>3

\* A request that is refused keeps what it had.
LEMMA TurnedAway ==
    ASSUME TypeOK, NEW r \in Requests, Refuse(r)
    PROVE  /\ pc' \in [Requests -> Pc] /\ pc' = [pc EXCEPT ![r] = "told"]
           /\ arg' = arg /\ copy' = copy
  BY DEF Refuse, Goto, TypeOK, Pc

\* The rows of one request's files.
LEMMA NewRowsType ==
    ASSUME NEW r \in Requests, NEW files \in SUBSET Files
    PROVE  /\ NewRows(r, files) \in SUBSET DocumentRow
           /\ \A d \in NewRows(r, files) : d.by = r /\ d.file \in files
  BY DEF NewRows, DocumentRow

\* What the three ways to begin a request have in common.
Begins(r) ==
    \/ \E status \in Status : BeginDecide(r, status)
    \/ \E files \in SUBSET uploaded :
          \/ \E status \in Status : BeginCreate(r, status, files)
          \/ BeginUpdate(r, files)

\* A request that begins reads the claim and its documents and touches
\* nothing that others see.
Begun(r) ==
    /\ pc[r] = "idle"
    /\ pc'[r] \in {"decide", "insert", "queue", "told"}
    /\ UNCHANGED <<claim, docs, disk, uploaded, jobs, gone>>
    /\ arg'[r].files \subseteq uploaded \/ arg'[r] = arg[r]
    /\ copy'[r].docs = docs \/ copy'[r] = copy[r]
    /\ left'[r] \subseteq docs \/ left'[r] = left[r]
    /\ pc'[r] = "decide" =>
          /\ arg'[r].status \in Transitions(claim.status)
          /\ copy'[r].status = claim.status
    /\ pc'[r] = "queue" =>
          /\ left'[r] = Dropped(docs, arg'[r].files)
          /\ copy'[r].docs = docs
    /\ \A q \in Requests \ {r} :
          /\ pc'[q] = pc[q] /\ arg'[q] = arg[q]
          /\ copy'[q] = copy[q] /\ left'[q] = left[q]

\* One value is replaced.
LEMMA OneLeft ==
    ASSUME TypeOK, NEW r \in Requests, NEW rows, left' = [left EXCEPT ![r] = rows]
    PROVE  left'[r] = rows /\ \A q \in Requests \ {r} : left'[q] = left[q]
BY DEF TypeOK

\* A refused request shows to nobody.
LEMMA RefusedBegins ==
    ASSUME TypeOK, NEW r \in Requests, pc[r] = "idle", Refuse(r),
           UNCHANGED <<claim, docs, disk, uploaded, jobs, gone, left>>
    PROVE  Begun(r)
<1>1. pc'[r] = "told" /\ \A q \in Requests \ {r} : pc'[q] = pc[q]
  BY TurnedAway DEF TypeOK
<1>2. arg' = arg /\ copy' = copy /\ left' = left
  BY TurnedAway
<1>3. QED
  BY <1>1, <1>2 DEF Begun

\* However it begins, a request has begun.
LEMMA BeginsIsBegun ==
    ASSUME TypeOK, NEW r \in Requests, Begins(r) PROVE Begun(r)
<1>1. ASSUME NEW status \in Status, BeginDecide(r, status) PROVE Begun(r)
  <2>1. /\ pc[r] = "idle"
        /\ UNCHANGED <<claim, docs, disk, uploaded, jobs, gone, left>>
        /\ \/ MayBecome(status) /\ Accept(r, "decide", status, {})
           \/ Refuse(r)
    BY <1>1 DEF BeginDecide
  <2>2. CASE MayBecome(status) /\ Accept(r, "decide", status, {})
    <3>1. "decide" \in Pc /\ {} \in SUBSET uploaded
      BY DEF Pc
    <3>2. pc' = [pc EXCEPT ![r] = "decide"]
      BY <2>2, <3>1, TakenIn
    <3>3. /\ arg'[r].status = status /\ arg'[r].files = {}
          /\ copy'[r].status = claim.status /\ copy'[r].docs = docs
          /\ \A q \in Requests \ {r} : pc'[q] = pc[q] /\ arg'[q] = arg[q] /\ copy'[q] = copy[q]
      BY <2>2, <3>1, TakenIn
    <3>4. pc'[r] = "decide"
      BY <3>2 DEF TypeOK
    <3>5. status \in Transitions(claim.status)
      BY <2>2 DEF MayBecome
    <3>6. left' = left
      BY <2>1
    <3>7. QED
      BY <2>1, <3>3, <3>4, <3>5, <3>6 DEF Begun
  <2>3. CASE Refuse(r)
    BY <2>1, <2>3, RefusedBegins
  <2>4. QED
    BY <2>1, <2>2, <2>3
<1>2. ASSUME NEW files \in SUBSET uploaded, NEW status \in Status, BeginCreate(r, status, files)
      PROVE  Begun(r)
  <2>1. /\ pc[r] = "idle"
        /\ UNCHANGED <<claim, docs, disk, uploaded, jobs, gone, left>>
        /\ Accept(r, "insert", status, files) \/ Refuse(r)
    BY <1>2 DEF BeginCreate
  <2>2. CASE Accept(r, "insert", status, files)
    <3>1. "insert" \in Pc
      BY DEF Pc
    <3>2. pc' = [pc EXCEPT ![r] = "insert"]
      BY <2>2, <3>1, TakenIn
    <3>3. /\ arg'[r].files = files /\ copy'[r].docs = docs
          /\ \A q \in Requests \ {r} : pc'[q] = pc[q] /\ arg'[q] = arg[q] /\ copy'[q] = copy[q]
      BY <2>2, <3>1, TakenIn
    <3>4. pc'[r] = "insert"
      BY <3>2 DEF TypeOK
    <3>5. left' = left
      BY <2>1
    <3>6. QED
      BY <2>1, <3>3, <3>4, <3>5 DEF Begun
  <2>3. CASE Refuse(r)
    BY <2>1, <2>3, RefusedBegins
  <2>4. QED
    BY <2>1, <2>2, <2>3
<1>3. ASSUME NEW files \in SUBSET uploaded, BeginUpdate(r, files) PROVE Begun(r)
  <2>1. /\ pc[r] = "idle"
        /\ UNCHANGED <<claim, docs, disk, uploaded, jobs, gone>>
        /\ \/ /\ Accept(r, "queue", "DRAFT", files)
              /\ left' = [left EXCEPT ![r] = Dropped(docs, files)]
           \/ Refuse(r) /\ UNCHANGED left
    BY <1>3 DEF BeginUpdate
  <2>2. CASE /\ Accept(r, "queue", "DRAFT", files)
             /\ left' = [left EXCEPT ![r] = Dropped(docs, files)]
    <3>1. "queue" \in Pc /\ "DRAFT" \in Status
      BY DEF Pc, Status
    <3>2. pc' = [pc EXCEPT ![r] = "queue"]
      BY <2>2, <3>1, TakenIn
    <3>3. /\ arg'[r].files = files /\ copy'[r].docs = docs
          /\ \A q \in Requests \ {r} : pc'[q] = pc[q] /\ arg'[q] = arg[q] /\ copy'[q] = copy[q]
      BY <2>2, <3>1, TakenIn
    <3>4. pc'[r] = "queue"
      BY <3>2 DEF TypeOK
    <3>5. /\ left'[r] = Dropped(docs, files)
          /\ \A q \in Requests \ {r} : left'[q] = left[q]
      <4> DEFINE rows == Dropped(docs, files)
      <4>1. left' = [left EXCEPT ![r] = rows]
        BY <2>2
      <4> HIDE DEF rows
      <4>2. left'[r] = rows /\ \A q \in Requests \ {r} : left'[q] = left[q]
        BY <4>1, OneLeft
      <4>3. QED
        BY <4>2 DEF rows
    <3>6. Dropped(docs, files) \subseteq docs
      BY DEF Dropped
    <3>7. QED
      BY <2>1, <3>3, <3>4, <3>5, <3>6 DEF Begun
  <2>3. CASE Refuse(r) /\ UNCHANGED left
    BY <2>1, <2>3, RefusedBegins
  <2>4. QED
    BY <2>1, <2>2, <2>3
<1>4. QED
  BY <1>1, <1>2, <1>3 DEF Begins

\* A request that begins inserts no row and learns of none it should not.
LEMMA RowsBegun ==
    ASSUME TypeOK, Rows, NEW r \in Requests, Begun(r) PROVE Rows'
<1>1. UNCHANGED <<docs, jobs, gone>>
  BY DEF Begun
<1>2. /\ pc[r] = "idle" /\ pc'[r] # "done"
      /\ \A q \in Requests \ {r} : pc'[q] = pc[q]
  BY DEF Begun
<1>3. \A q \in Requests : pc[q] = "done" => pc'[q] = "done"
  BY <1>2
<1>4. \A q \in Requests : copy'[q].docs \cup left'[q] \subseteq docs \cup copy[q].docs \cup left[q]
  BY DEF Begun
<1>5. /\ \A d \in docs : d.by \in Requests /\ pc[d.by] = "done"
      /\ \A q \in Requests : \A d \in copy[q].docs \cup left[q] :
            d.by \in Requests /\ pc[d.by] = "done"
  BY DEF TypeOK, Rows, DocumentRow
<1>6. \A g \in jobs \cup gone : \A d \in g.row : d.by \in Requests /\ pc[d.by] = "done"
  BY DEF TypeOK, Rows, DocumentRow, Removal
<1>7. /\ \A d \in docs' : pc'[d.by] = "done"
      /\ \A g \in jobs' \cup gone' : \A d \in g.row : pc'[d.by] = "done"
  BY <1>1, <1>3, <1>5, <1>6
<1>8. \A q \in Requests : \A d \in copy'[q].docs \cup left'[q] : pc'[d.by] = "done"
  BY <1>3, <1>4, <1>5
<1>9. QED
  BY <1>7, <1>8 DEF Rows

\* A request that begins to decide has looked its decision up.
LEMMA DecisionsBegun ==
    ASSUME Decisions, NEW r \in Requests, Begun(r) PROVE Decisions'
<1>1. pc'[r] = "decide" => arg'[r].status \in Transitions(copy'[r].status)
  BY DEF Begun
<1>2. \A q \in Requests \ {r} : pc'[q] = pc[q] /\ arg'[q] = arg[q] /\ copy'[q] = copy[q]
  BY DEF Begun
<1>3. QED
  BY <1>1, <1>2 DEF Decisions

\* Type correctness: rows, files and jobs keep their types in every
\* interleaving of requests and of the cleanup processor.
THEOREM TypeCorrect == Spec => []TypeOK
<1> USE ClaimsAssumption
<1>1. Init => TypeOK
  BY DEF Init, TypeOK, NoClaim, ClaimRow, Status, Pc
<1>2. TypeOK /\ [Next]_vars => TypeOK'
  <2> SUFFICES ASSUME TypeOK, [Next]_vars PROVE TypeOK'
    OBVIOUS
  <2> USE DEF TypeOK, Goto, Pc
  <2>1. ASSUME NEW f \in Files, Upload(f) PROVE TypeOK'
    BY <2>1 DEF Upload
  <2>2. ASSUME NEW r \in Requests, NEW status \in Status, BeginDecide(r, status)
        PROVE TypeOK'
    <3>1. CASE MayBecome(status)
      <4>1. Accept(r, "decide", status, {})
        BY <2>2, <3>1 DEF BeginDecide
      <4>2. QED
        BY <2>2, <4>1, TakenIn DEF BeginDecide
    <3>2. CASE ~MayBecome(status)
      BY <2>2, <3>2, TurnedAway DEF BeginDecide
    <3>3. QED
      BY <3>1, <3>2
  <2>3. ASSUME NEW r \in Requests, NEW files \in SUBSET uploaded, NEW status \in Status, BeginCreate(r, status, files)
        PROVE TypeOK'
    <3>1. CASE Accept(r, "insert", status, files)
      BY <2>3, <3>1, TakenIn DEF BeginCreate
    <3>2. CASE Refuse(r)
      BY <2>3, <3>2, TurnedAway DEF BeginCreate
    <3>3. QED
      BY <2>3, <3>1, <3>2 DEF BeginCreate
  <2>4. ASSUME NEW r \in Requests, NEW files \in SUBSET uploaded, BeginUpdate(r, files)
        PROVE TypeOK'
    <3>1. CASE Accept(r, "queue", "DRAFT", files)
                  /\ left' = [left EXCEPT ![r] = Dropped(docs, files)]
      <4>1. "DRAFT" \in Status /\ Dropped(docs, files) \in SUBSET DocumentRow
        BY DEF Dropped, Status
      <4>2. QED
        BY <2>4, <3>1, <4>1, TakenIn DEF BeginUpdate
    <3>2. CASE Refuse(r) /\ UNCHANGED left
      BY <2>4, <3>2, TurnedAway DEF BeginUpdate
    <3>3. QED
      BY <2>4, <3>1, <3>2 DEF BeginUpdate
  <2>5. ASSUME NEW r \in Requests, NEW f \in Files, UnlinkByName(r, f) PROVE TypeOK'
    BY <2>5 DEF UnlinkByName, Deletes, Removal
  <2>6. ASSUME NEW r \in Requests, InsertClaim(r) PROVE TypeOK'
    <3>1. CASE Taken
      BY <2>6, <3>1 DEF InsertClaim
    <3>2. CASE ~Taken
      <4>1. /\ claim' = [by |-> r, status |-> arg[r].status]
            /\ docs' = docs \cup NewRows(r, arg[r].files)
        BY <2>6, <3>2 DEF InsertClaim
      <4>2. claim' \in ClaimRow
        BY <4>1 DEF ClaimRow
      <4>3. docs' \subseteq DocumentRow
        BY <4>1, NewRowsType
      <4>4. QED
        BY <2>6, <3>2, <4>2, <4>3 DEF InsertClaim
    <3>3. QED
      BY <3>1, <3>2
  <2>7. ASSUME NEW r \in Requests, FlushStatus(r) PROVE TypeOK'
    BY <2>7 DEF FlushStatus, ClaimRow
  <2>8. ASSUME NEW r \in Requests, BeginComment(r) PROVE TypeOK'
    BY <2>8 DEF BeginComment
  <2>9. ASSUME NEW r \in Requests, InsertComment(r) PROVE TypeOK'
    BY <2>9 DEF InsertComment
  <2>10. ASSUME NEW r \in Requests, QueueDeletion(r) PROVE TypeOK'
    BY <2>10 DEF QueueDeletion, Removal, DocumentRow
  <2>11. ASSUME NEW r \in Requests, FlushUpdate(r) PROVE TypeOK'
    BY <2>11 DEF FlushUpdate, Replaced, NewRows, DocumentRow
  <2>12. ASSUME NEW r \in Requests, UnlinkDocument(r) PROVE TypeOK'
    BY <2>12 DEF UnlinkDocument, Deletes, Removal, DocumentRow
  <2>13. ASSUME NEW r \in Requests, RemoveDocument(r) PROVE TypeOK'
    BY <2>13 DEF RemoveDocument
  <2>14. ASSUME NEW r \in Requests, Interrupt(r) PROVE TypeOK'
    BY <2>14 DEF Interrupt
  <2>15. ASSUME NEW j \in jobs, RunJob(j) PROVE TypeOK'
    BY <2>15 DEF RunJob, Deletes
  <2>16. ASSUME NEW j \in jobs, JobFails(j) PROVE TypeOK'
    BY <2>16 DEF JobFails, Removal
  <2>17. CASE UNCHANGED vars
    BY <2>17 DEF vars
  <2> HIDE DEF TypeOK, Goto, Pc
  <2>18. QED
    BY <2>1, <2>2, <2>3, <2>4, <2>5, <2>6, <2>7, <2>8, <2>9, <2>10, <2>11, <2>12,
       <2>13, <2>14, <2>15, <2>16, <2>17 DEF Next
<1>3. QED
  BY <1>1, <1>2, PTL DEF Spec

\* Rows are inserted once, with the end of their request.
LEMMA RowsHold == Spec => []Rows
<1> USE ClaimsAssumption
<1>1. Init => Rows
  BY DEF Init, Rows
<1>2. TypeOK /\ Rows /\ [Next]_vars => Rows'
  <2> SUFFICES ASSUME TypeOK, Rows, [Next]_vars PROVE Rows'
    OBVIOUS
  <2> USE DEF TypeOK, Rows, Goto, Removal, DocumentRow
  <2>1. ASSUME NEW f \in Files, Upload(f) PROVE Rows'
    BY <2>1 DEF Upload
  <2>2. ASSUME NEW r \in Requests, Begins(r) PROVE Rows'
    BY ONLY TypeOK, Rows, <2>2, BeginsIsBegun, RowsBegun
  <2>5. ASSUME NEW r \in Requests, NEW f \in Files, UnlinkByName(r, f) PROVE Rows'
    BY <2>5 DEF UnlinkByName, Deletes
  <2>6. ASSUME NEW r \in Requests, InsertClaim(r) PROVE Rows'
    <3>1. CASE Taken
      BY <2>6, <3>1 DEF InsertClaim
    <3>2. CASE ~Taken
      <4>1. /\ docs' = docs \cup NewRows(r, arg[r].files)
            /\ pc' = [pc EXCEPT ![r] = "done"]
        BY <2>6, <3>2 DEF InsertClaim
      <4>2. \A d \in docs' : pc'[d.by] = "done"
        BY <4>1, NewRowsType
      <4>3. QED
        BY <2>6, <4>1, <4>2 DEF InsertClaim
    <3>3. QED
      BY <3>1, <3>2
  <2>7. ASSUME NEW r \in Requests, FlushStatus(r) PROVE Rows'
    BY <2>7 DEF FlushStatus
  <2>8. ASSUME NEW r \in Requests, BeginComment(r) PROVE Rows'
    BY <2>8 DEF BeginComment
  <2>9. ASSUME NEW r \in Requests, InsertComment(r) PROVE Rows'
    BY <2>9 DEF InsertComment
  <2>10. ASSUME NEW r \in Requests, QueueDeletion(r) PROVE Rows'
    BY <2>10 DEF QueueDeletion, DocumentRow
  <2>11. ASSUME NEW r \in Requests, FlushUpdate(r) PROVE Rows'
    BY <2>11 DEF FlushUpdate, Replaced, NewRows, DocumentRow
  <2>12. ASSUME NEW r \in Requests, UnlinkDocument(r) PROVE Rows'
    BY <2>12 DEF UnlinkDocument, Deletes, DocumentRow
  <2>13. ASSUME NEW r \in Requests, RemoveDocument(r) PROVE Rows'
    BY <2>13 DEF RemoveDocument
  <2>14. ASSUME NEW r \in Requests, Interrupt(r) PROVE Rows'
    BY <2>14 DEF Interrupt
  <2>15. ASSUME NEW j \in jobs, RunJob(j) PROVE Rows'
    BY <2>15 DEF RunJob, Deletes
  <2>16. ASSUME NEW j \in jobs, JobFails(j) PROVE Rows'
    BY <2>16 DEF JobFails
  <2>17. CASE UNCHANGED vars
    BY <2>17 DEF vars
  <2> HIDE DEF TypeOK, Rows, Goto, Removal, DocumentRow
  <2>18. QED
    BY <2>1, <2>2, <2>5, <2>6, <2>7, <2>8, <2>9, <2>10, <2>11, <2>12,
       <2>13, <2>14, <2>15, <2>16, <2>17 DEF Next, Begins
<1>3. QED
  BY <1>1, <1>2, TypeCorrect, PTL DEF Spec

\* A request that begins takes up nothing that a removal was for.
LEMMA RemovalsBegun ==
    ASSUME TypeOK, Removals, NEW r \in Requests, Begun(r) PROVE Removals'
<1>0. /\ UNCHANGED <<docs, disk, uploaded, jobs, gone>>
      /\ \A q \in Requests \ {r} :
            /\ pc'[q] = pc[q] /\ arg'[q] = arg[q]
            /\ copy'[q] = copy[q] /\ left'[q] = left[q]
  BY DEF Begun
<1>1. \A g \in jobs \cup gone : g.by \in Requests \ {r}
  BY DEF TypeOK, Removals, Removal, Begun
<1>2. \A q \in Requests : arg'[q].files \subseteq uploaded'
  BY <1>0 DEF Removals, Begun
<1>3. \A q \in Requests :
         pc'[q] = "queue" => left'[q] \subseteq Dropped(copy'[q].docs, arg'[q].files)
  <2>1. pc'[r] = "queue" => left'[r] = Dropped(copy'[r].docs, arg'[r].files)
    BY DEF Begun
  <2>2. QED
    BY <1>0, <2>1 DEF Removals
<1>4. ASSUME NEW g \in jobs' \cup gone'
      PROVE  /\ pc'[g.by] \in {"queue", "unlinked", "interrupted", "done"}
             /\ pc'[g.by] = "queue" => g.row \subseteq Dropped(copy'[g.by].docs, arg'[g.by].files)
             /\ pc'[g.by] = "unlinked" => g.row \subseteq copy'[g.by].docs
             /\ pc'[g.by] = "done" => g.row \cap docs' = {}
  <2>1. g \in jobs \cup gone /\ docs' = docs
    BY <1>0
  <2>2. pc'[g.by] = pc[g.by] /\ arg'[g.by] = arg[g.by] /\ copy'[g.by] = copy[g.by]
    BY <1>0, <1>1, <2>1
  <2>3. QED
    BY <2>1, <2>2 DEF Removals
<1>5. /\ \A d \in docs' : d.file \in uploaded'
      /\ \A f \in uploaded' \ disk' : \E g \in gone' : g.file = f
  BY <1>0 DEF Removals
<1>6. QED
  BY <1>2, <1>3, <1>4, <1>5 DEF Removals

\* Removals keep their reasons.
LEMMA RemovalsHold == Spec => []Removals
<1> USE ClaimsAssumption
<1>1. Init => Removals
  BY DEF Init, Removals
<1>2. TypeOK /\ Rows /\ Removals /\ [Next]_vars => Removals'
  <2> SUFFICES ASSUME TypeOK, Rows, Removals, [Next]_vars PROVE Removals'
    OBVIOUS
  <2> USE DEF TypeOK, Rows, Removals, Goto, Removal, DocumentRow
  <2>1. ASSUME NEW f \in Files, Upload(f) PROVE Removals'
    BY <2>1 DEF Upload
  <2>2. ASSUME NEW r \in Requests, Begins(r) PROVE Removals'
    BY ONLY TypeOK, Removals, <2>2, BeginsIsBegun, RemovalsBegun
  <2>5. ASSUME NEW r \in Requests, NEW f \in Files, UnlinkByName(r, f)
        PROVE Removals'
    <3> DEFINE g == [by |-> r, file |-> f, row |-> {}]
    <3>1. /\ pc[r] = "idle" /\ UNCHANGED <<docs, uploaded, jobs, arg, copy, left>>
          /\ disk' = disk \ {f}
          /\ gone' = IF f \in disk THEN gone \cup {g} ELSE gone
          /\ pc' = [pc EXCEPT ![r] = IF f \in disk THEN "done" ELSE "told"]
      BY <2>5 DEF UnlinkByName, Deletes
    <3>2. g.by = r /\ g.file = f /\ g.row = {}
      OBVIOUS
    <3>3. r \notin {h.by : h \in jobs \cup gone}
      BY <3>1
    <3>4. CASE f \in disk
      <4> HIDE DEF g
      <4>1. gone' = gone \cup {g} /\ pc' = [pc EXCEPT ![r] = "done"]
        BY <3>1, <3>4
      <4>2. \A h \in jobs \cup gone : pc'[h.by] = pc[h.by]
        BY <3>3, <4>1
      <4>3. \A e \in uploaded \ disk' : \E h \in gone' : h.file = e
        BY <3>1, <3>2, <4>1
      <4>4. QED
        BY <3>1, <3>2, <4>1, <4>2, <4>3
    <3>5. CASE f \notin disk
      BY <3>1, <3>3, <3>5
    <3>6. QED
      BY <3>4, <3>5
  <2>6. ASSUME NEW r \in Requests, InsertClaim(r) PROVE Removals'
    <3>1. /\ pc[r] = "insert"
          /\ UNCHANGED <<disk, uploaded, jobs, gone, arg, copy, left>>
      BY <2>6 DEF InsertClaim
    <3>2. CASE Taken
      <4>1. docs' = docs /\ pc' = [pc EXCEPT ![r] = "told"]
        BY <2>6, <3>2 DEF InsertClaim
      <4>2. QED
        BY <3>1, <4>1
    <3>3. CASE ~Taken
      <4>1. /\ docs' = docs \cup NewRows(r, arg[r].files)
            /\ pc' = [pc EXCEPT ![r] = "done"]
        BY <2>6, <3>3 DEF InsertClaim
      <4>2. \A d \in docs' : d.file \in uploaded /\ (d \in docs \/ d.by = r)
        BY <4>1, NewRowsType
      <4>3. \A g \in jobs \cup gone : pc'[g.by] = pc[g.by]
        BY <3>1, <4>1
      <4>4. \A g \in jobs \cup gone : pc[g.by] = "done" => g.row \cap docs' = {}
        BY <3>1, <4>2
      <4>5. QED
        BY <3>1, <4>1, <4>2, <4>3, <4>4
    <3>4. QED
      BY <3>2, <3>3
  <2>7. ASSUME NEW r \in Requests, FlushStatus(r) PROVE Removals'
    BY <2>7 DEF FlushStatus
  <2>8. ASSUME NEW r \in Requests, BeginComment(r) PROVE Removals'
    BY <2>8 DEF BeginComment
  <2>9. ASSUME NEW r \in Requests, InsertComment(r) PROVE Removals'
    BY <2>9 DEF InsertComment
  <2>10. ASSUME NEW r \in Requests, QueueDeletion(r) PROVE Removals'
    BY <2>10 DEF QueueDeletion
  <2>11. ASSUME NEW r \in Requests, FlushUpdate(r) PROVE Removals'
    BY <2>11 DEF FlushUpdate, Replaced, NewRows, Dropped, FilesOf
  <2>12. ASSUME NEW r \in Requests, UnlinkDocument(r) PROVE Removals'
    <3>1. PICK d \in docs :
             /\ Deletes([by |-> r, file |-> d.file, row |-> {d}])
             /\ copy' = [copy EXCEPT ![r].docs = {d}]
      BY <2>12 DEF UnlinkDocument
    <3> DEFINE g == [by |-> r, file |-> d.file, row |-> {d}]
    <3>2. /\ pc[r] = "idle" /\ UNCHANGED <<docs, uploaded, jobs, arg, left>>
          /\ pc' = [pc EXCEPT ![r] = "unlinked"]
          /\ disk' = disk \ {d.file}
          /\ gone' = IF d.file \in disk THEN gone \cup {g} ELSE gone
      BY <2>12, <3>1 DEF UnlinkDocument, Deletes
    <3>3. g.by = r /\ g.file = d.file /\ g.row = {d}
      OBVIOUS
    <3>4. /\ copy'[r].docs = {d}
          /\ \A q \in Requests \ {r} : copy'[q] = copy[q]
      BY <3>1
    <3> HIDE DEF g
    <3>5. \A h \in jobs \cup gone : h.by # r
      BY <3>2
    <3>6. \A e \in uploaded \ disk' : \E h \in gone' : h.file = e
      <4>1. CASE d.file \in disk
        BY <3>2, <3>3, <4>1
      <4>2. CASE d.file \notin disk
        BY <3>2, <4>2
      <4>3. QED
        BY <4>1, <4>2
    <3>7. gone' \subseteq gone \cup {g}
      BY <3>2
    <3>8. \A h \in jobs' \cup gone' :
             /\ pc'[h.by] \in {"queue", "unlinked", "interrupted", "done"}
             /\ pc'[h.by] = "queue" => h.row \subseteq Dropped(copy'[h.by].docs, arg'[h.by].files)
             /\ pc'[h.by] = "unlinked" => h.row \subseteq copy'[h.by].docs
             /\ pc'[h.by] = "done" => h.row \cap docs' = {}
      <4>1. ASSUME NEW h \in jobs \cup gone
            PROVE  /\ pc'[h.by] \in {"queue", "unlinked", "interrupted", "done"}
                   /\ pc'[h.by] = "queue" => h.row \subseteq Dropped(copy'[h.by].docs, arg'[h.by].files)
                   /\ pc'[h.by] = "unlinked" => h.row \subseteq copy'[h.by].docs
                   /\ pc'[h.by] = "done" => h.row \cap docs' = {}
        BY <3>2, <3>4, <3>5
      <4>2. pc'[g.by] = "unlinked" /\ g.row \subseteq copy'[g.by].docs
        BY <3>2, <3>3, <3>4
      <4>3. QED
        BY <3>2, <3>7, <4>1, <4>2
    <3>9. QED
      BY <3>2, <3>4, <3>6, <3>8
  <2>13. ASSUME NEW r \in Requests, RemoveDocument(r) PROVE Removals'
    BY <2>13 DEF RemoveDocument
  <2>14. ASSUME NEW r \in Requests, Interrupt(r) PROVE Removals'
    BY <2>14 DEF Interrupt
  <2>15. ASSUME NEW j \in jobs, RunJob(j) PROVE Removals'
    BY <2>15 DEF RunJob, Deletes
  <2>16. ASSUME NEW j \in jobs, JobFails(j) PROVE Removals'
    BY <2>16 DEF JobFails
  <2>17. CASE UNCHANGED vars
    BY <2>17 DEF vars
  <2> HIDE DEF TypeOK, Rows, Removals, Goto, Removal, DocumentRow
  <2>18. QED
    BY <2>1, <2>2, <2>5, <2>6, <2>7, <2>8, <2>9, <2>10, <2>11, <2>12,
       <2>13, <2>14, <2>15, <2>16, <2>17 DEF Next, Begins
<1>3. QED
  BY <1>1, <1>2, TypeCorrect, RowsHold, PTL DEF Spec

\* Neither a decision nor what it was looked up for changes.
LEMMA DecisionsHold == Spec => []Decisions
<1> USE ClaimsAssumption
<1>1. Init => Decisions
  BY DEF Init, Decisions
<1>2. TypeOK /\ Decisions /\ [Next]_vars => Decisions'
  <2> SUFFICES ASSUME TypeOK, Decisions, [Next]_vars PROVE Decisions'
    OBVIOUS
  <2> USE DEF TypeOK, Decisions, Goto
  <2>1. ASSUME NEW f \in Files, Upload(f) PROVE Decisions'
    BY <2>1 DEF Upload
  <2>2. ASSUME NEW r \in Requests, Begins(r) PROVE Decisions'
    BY ONLY TypeOK, Decisions, <2>2, BeginsIsBegun, DecisionsBegun
  <2>5. ASSUME NEW r \in Requests, NEW f \in Files, UnlinkByName(r, f)
        PROVE Decisions'
    BY <2>5 DEF UnlinkByName
  <2>6. ASSUME NEW r \in Requests, InsertClaim(r) PROVE Decisions'
    BY <2>6 DEF InsertClaim
  <2>7. ASSUME NEW r \in Requests, FlushStatus(r) PROVE Decisions'
    BY <2>7 DEF FlushStatus
  <2>8. ASSUME NEW r \in Requests, BeginComment(r) PROVE Decisions'
    BY <2>8 DEF BeginComment
  <2>9. ASSUME NEW r \in Requests, InsertComment(r) PROVE Decisions'
    BY <2>9 DEF InsertComment
  <2>10. ASSUME NEW r \in Requests, QueueDeletion(r) PROVE Decisions'
    BY <2>10 DEF QueueDeletion
  <2>11. ASSUME NEW r \in Requests, FlushUpdate(r) PROVE Decisions'
    BY <2>11 DEF FlushUpdate
  <2>12. ASSUME NEW r \in Requests, UnlinkDocument(r) PROVE Decisions'
    BY <2>12 DEF UnlinkDocument
  <2>13. ASSUME NEW r \in Requests, RemoveDocument(r) PROVE Decisions'
    BY <2>13 DEF RemoveDocument
  <2>14. ASSUME NEW r \in Requests, Interrupt(r) PROVE Decisions'
    BY <2>14 DEF Interrupt
  <2>15. ASSUME NEW j \in jobs, RunJob(j) PROVE Decisions'
    BY <2>15 DEF RunJob
  <2>16. ASSUME NEW j \in jobs, JobFails(j) PROVE Decisions'
    BY <2>16 DEF JobFails
  <2>17. CASE UNCHANGED vars
    BY <2>17 DEF vars
  <2> HIDE DEF TypeOK, Decisions, Goto
  <2>18. QED
    BY <2>1, <2>2, <2>5, <2>6, <2>7, <2>8, <2>9, <2>10, <2>11, <2>12,
       <2>13, <2>14, <2>15, <2>16, <2>17 DEF Next, Begins
<1>3. QED
  BY <1>1, <1>2, TypeCorrect, PTL DEF Spec

\* The status of a claim follows the table, or it was decided on a status
\* that another reviewer has changed since: for any number of reviewers.
THEOREM StatusByTable == Spec => StatusFollowsTable
<1> DEFINE Step ==
      Filed /\ claim'.status # claim.status =>
          \E r \in Requests :
              /\ claim'.status = arg[r].status
              /\ pc[r] = "decide" /\ pc'[r] = "done"
              /\ claim'.status \in Transitions(claim.status)
                    \/ claim.status # copy[r].status
<1>1. TypeOK /\ Decisions /\ [Next]_vars => Step
  <2> SUFFICES ASSUME TypeOK, Decisions, [Next]_vars PROVE Step
    OBVIOUS
  <2> USE DEF TypeOK
  <2>1. ASSUME NEW f \in Files, Upload(f) PROVE Step
    BY <2>1 DEF Upload
  <2>2. ASSUME NEW r \in Requests, NEW status \in Status, BeginDecide(r, status)
        PROVE Step
    BY <2>2 DEF BeginDecide
  <2>3. ASSUME NEW r \in Requests, NEW files \in SUBSET uploaded, NEW status \in Status, BeginCreate(r, status, files)
        PROVE Step
    BY <2>3 DEF BeginCreate
  <2>4. ASSUME NEW r \in Requests, NEW files \in SUBSET uploaded, BeginUpdate(r, files)
        PROVE Step
    BY <2>4 DEF BeginUpdate
  <2>5. ASSUME NEW r \in Requests, NEW f \in Files, UnlinkByName(r, f) PROVE Step
    BY <2>5 DEF UnlinkByName
  <2>6. ASSUME NEW r \in Requests, InsertClaim(r) PROVE Step
    BY <2>6 DEF InsertClaim, Taken
  <2>7. ASSUME NEW r \in Requests, FlushStatus(r) PROVE Step
    BY <2>7 DEF FlushStatus, Decisions, Goto, ClaimRow
  <2>8. ASSUME NEW r \in Requests, BeginComment(r) PROVE Step
    BY <2>8 DEF BeginComment
  <2>9. ASSUME NEW r \in Requests, InsertComment(r) PROVE Step
    BY <2>9 DEF InsertComment
  <2>10. ASSUME NEW r \in Requests, QueueDeletion(r) PROVE Step
    BY <2>10 DEF QueueDeletion
  <2>11. ASSUME NEW r \in Requests, FlushUpdate(r) PROVE Step
    BY <2>11 DEF FlushUpdate
  <2>12. ASSUME NEW r \in Requests, UnlinkDocument(r) PROVE Step
    BY <2>12 DEF UnlinkDocument
  <2>13. ASSUME NEW r \in Requests, RemoveDocument(r) PROVE Step
    BY <2>13 DEF RemoveDocument
  <2>14. ASSUME NEW r \in Requests, Interrupt(r) PROVE Step
    BY <2>14 DEF Interrupt
  <2>15. ASSUME NEW j \in jobs, RunJob(j) PROVE Step
    BY <2>15 DEF RunJob
  <2>16. ASSUME NEW j \in jobs, JobFails(j) PROVE Step
    BY <2>16 DEF JobFails
  <2>17. CASE UNCHANGED vars
    BY <2>17 DEF vars
  <2> HIDE DEF TypeOK
  <2>18. QED
    BY <2>1, <2>2, <2>3, <2>4, <2>5, <2>6, <2>7, <2>8, <2>9, <2>10, <2>11, <2>12,
       <2>13, <2>14, <2>15, <2>16, <2>17 DEF Next
<1>2. QED
  BY <1>1, TypeCorrect, DecisionsHold, PTL DEF Spec, StatusFollowsTable

----------------------------------------------------------------------------
\* Reviewers decide in turn: no request looks the claim up between another's
\* look and its flush (claim.service.ts, updateStatus).
OneDecision == \A r, s \in Requests : pc[r] = "decide" /\ pc[s] = "decide" => r = s

\* A decision that waits for its flush was taken on the status of the row.
FreshDecisions == \A r \in Requests : pc[r] = "decide" => copy[r].status = claim.status

\* What a new decision was taken on, and that the others wait as they did.
LEMMA FreshBegun ==
    ASSUME FreshDecisions, NEW r \in Requests, Begun(r)
    PROVE  FreshDecisions'
<1>1. claim' = claim
  BY DEF Begun
<1>2. ASSUME NEW q \in Requests, pc'[q] = "decide" PROVE copy'[q].status = claim'.status
  <2>1. CASE q = r
    BY <1>1, <1>2, <2>1 DEF Begun
  <2>2. CASE q # r
    <3>1. pc'[q] = pc[q] /\ copy'[q] = copy[q]
      BY <2>2 DEF Begun
    <3>2. QED
      BY <1>1, <1>2, <3>1 DEF FreshDecisions
  <2>3. QED
    BY <2>1, <2>2
<1>3. QED
  BY <1>2 DEF FreshDecisions

\* When reviewers decide in turn, no decision is overtaken by another, nor by
\* the filing of the claim, which no decision can precede.
LEMMA FreshDecisionsHold == Spec /\ []OneDecision => []FreshDecisions
<1> USE ClaimsAssumption
<1>1. Init => FreshDecisions
  BY DEF Init, FreshDecisions
<1>2. TypeOK /\ OneDecision /\ Decisions /\ FreshDecisions /\ [Next]_vars => FreshDecisions'
  <2> SUFFICES ASSUME TypeOK, OneDecision, Decisions, FreshDecisions, [Next]_vars
               PROVE  FreshDecisions'
    OBVIOUS
  <2> USE DEF TypeOK, FreshDecisions, Goto
  <2>1. ASSUME NEW f \in Files, Upload(f) PROVE FreshDecisions'
    BY <2>1 DEF Upload
  <2>2. ASSUME NEW r \in Requests, Begins(r) PROVE FreshDecisions'
    BY ONLY TypeOK, FreshDecisions, <2>2, BeginsIsBegun, FreshBegun
  <2>3. ASSUME NEW r \in Requests, NEW f \in Files, UnlinkByName(r, f)
        PROVE FreshDecisions'
    BY <2>3 DEF UnlinkByName
  <2>4. ASSUME NEW r \in Requests, InsertClaim(r) PROVE FreshDecisions'
    <3>1. CASE Filed
      BY <2>4, <3>1 DEF InsertClaim, Taken
    <3>2. CASE ~Filed
      <4>1. Transitions(claim.status) = {}
        BY <3>2 DEF Filed, Transitions
      <4>2. \A q \in Requests : pc[q] # "decide"
        BY <4>1 DEF Decisions
      <4>3. QED
        BY <2>4, <3>2, <4>2 DEF InsertClaim, Taken
    <3>3. QED
      BY <3>1, <3>2
  <2>5. ASSUME NEW r \in Requests, FlushStatus(r) PROVE FreshDecisions'
    BY <2>5 DEF FlushStatus, OneDecision
  <2>6. ASSUME NEW r \in Requests, BeginComment(r) PROVE FreshDecisions'
    BY <2>6 DEF BeginComment
  <2>7. ASSUME NEW r \in Requests, InsertComment(r) PROVE FreshDecisions'
    BY <2>7 DEF InsertComment
  <2>8. ASSUME NEW r \in Requests, QueueDeletion(r) PROVE FreshDecisions'
    BY <2>8 DEF QueueDeletion
  <2>9. ASSUME NEW r \in Requests, FlushUpdate(r) PROVE FreshDecisions'
    BY <2>9 DEF FlushUpdate
  <2>10. ASSUME NEW r \in Requests, UnlinkDocument(r) PROVE FreshDecisions'
    BY <2>10 DEF UnlinkDocument
  <2>11. ASSUME NEW r \in Requests, RemoveDocument(r) PROVE FreshDecisions'
    BY <2>11 DEF RemoveDocument
  <2>12. ASSUME NEW r \in Requests, Interrupt(r) PROVE FreshDecisions'
    BY <2>12 DEF Interrupt
  <2>13. ASSUME NEW j \in jobs, RunJob(j) PROVE FreshDecisions'
    BY <2>13 DEF RunJob
  <2>14. ASSUME NEW j \in jobs, JobFails(j) PROVE FreshDecisions'
    BY <2>14 DEF JobFails
  <2>15. CASE UNCHANGED vars
    BY <2>15 DEF vars
  <2> HIDE DEF TypeOK, FreshDecisions, Goto
  <2>16. QED
    BY <2>1, <2>2, <2>3, <2>4, <2>5, <2>6, <2>7, <2>8, <2>9, <2>10, <2>11, <2>12,
       <2>13, <2>14, <2>15 DEF Next, Begins
<1>3. QED
  BY <1>1, <1>2, TypeCorrect, DecisionsHold, PTL DEF Spec

\* allowedTransitions, as the table means it: once filed, a claim only moves
\* along it, and never out of a status it has no way out of.
TableIsKept ==
    [][Filed /\ claim'.status # claim.status =>
          claim'.status \in Transitions(claim.status)]_vars

\* The check that updateStatus makes before its flush is enough as long as
\* reviewers decide in turn, however else claims are filed, updated, commented
\* and cleaned up meanwhile.
THEOREM DecisionsInTurn == Spec /\ []OneDecision => TableIsKept
<1> DEFINE Step ==
      Filed /\ claim'.status # claim.status =>
          \E r \in Requests :
              /\ claim'.status = arg[r].status
              /\ pc[r] = "decide" /\ pc'[r] = "done"
              /\ claim'.status \in Transitions(claim.status)
                    \/ claim.status # copy[r].status
<1> DEFINE Kept ==
      Filed /\ claim'.status # claim.status => claim'.status \in Transitions(claim.status)
<1>1. FreshDecisions /\ Step => Kept
  BY DEF FreshDecisions
<1>2. FreshDecisions /\ UNCHANGED vars => Kept
  BY DEF vars
<1>3. FreshDecisions /\ [Step]_vars => [Kept]_vars
  BY <1>1, <1>2
<1>4. QED
  BY <1>3, StatusByTable, FreshDecisionsHold, PTL DEF StatusFollowsTable, TableIsKept

----------------------------------------------------------------------------
\* A document's file leaves the disk before its row only by a deletion by
\* name, for another row, or by a removal that is not finished.
THEOREM FilesKept == Spec => []DocumentKeepsFile
<1>1. TypeOK /\ Removals => DocumentKeepsFile
  <2> SUFFICES ASSUME TypeOK, Removals, NEW d \in docs, d.file \notin disk
               PROVE  \E g \in gone :
                          /\ g.file = d.file
                          /\ \/ g.row # {d}
                             \/ pc[g.by] \in {"queue", "unlinked", "interrupted"}
    BY DEF DocumentKeepsFile
  <2>1. PICK g \in gone : g.file = d.file
    BY DEF Removals
  <2>2. g.row = {d} => pc[g.by] # "done"
    BY DEF Removals
  <2>3. pc[g.by] \in {"queue", "unlinked", "interrupted", "done"}
    BY DEF Removals
  <2>4. QED
    BY <2>1, <2>2, <2>3
<1>2. QED
  BY <1>1, TypeCorrect, RemovalsHold, PTL
=============================================================================

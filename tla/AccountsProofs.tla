--------------------------- MODULE AccountsProofs ---------------------------
(***************************************************************************)
(* Theorems about Accounts, for every set of requests, every set of        *)
(* permissions and every limit on guesses.                                 *)
(*                                                                         *)
(* Places says which steps a request of each kind can be at.  With it,     *)
(* Customers follows a sign-up and Square's answer side by side, Tokens    *)
(* what ids and tokens a copy can still hold, and Guesses what a handler   *)
(* that counts a guess has seen.  OneCodeInv, Current and Grants are about *)
(* codes, guesses and updates of permissions that come in turn.            *)
(***************************************************************************)
EXTENDS Accounts, TLAPS

\* Where a request of each kind can stand.
Labels(role) ==
    {"absent", "idle", "told", "done", "interrupted"} \cup
        CASE role = "signup" -> {"insert", "await", "save", "cleanup", "drop"}
          [] role = "code" -> {"wipe", "write"}
          [] role = "verify" -> {"miss", "use", "grant"}
          [] role = "reset" -> {"reset"}
          [] role = "change" -> {"change"}
          [] role = "review" -> {"review"}
          [] role = "member" -> {"edit", "delete", "flush"}
          [] role = "remove" -> {"remove"}
          [] OTHER -> {}

Places == \A r \in Requests : pc[r] \in Labels(RoleOf[r])

\* A customer was made for its sign-up, which does not end before Square has
\* answered, and ends in a refusal only without one that it was told of.
Customers ==
    \A r \in Requests :
        /\ r \in customers => answer[r] \in {"made", "lost", "kept"}
        /\ answer[r] # "none" => Is(r, "signup") /\ pc[r] \notin {"absent", "idle"}
        /\ answer[r] = "pending" => pc[r] \in {"insert", "await", "cleanup", "interrupted"}
        /\ pc[r] = "told" => r \notin customers \/ answer[r] \in {"lost", "kept"}

\* The request that an id or a token is named for has made it already, and
\* will not make it again.
Named(u) ==
    /\ u.by \in Requests => pc[u.by] \notin {"absent", "idle", "insert"}
    /\ u.token \in Requests => pc[u.token] = "done"

Tokens ==
    /\ Named(user)
    /\ \A r \in Requests : Named(copy[r])
    /\ user.tokenLive => user.token # "none"
    /\ \A r \in Requests :
          Is(r, "reset") /\ pc[r] \in {"reset", "done"} =>
             copy[r].by # "none" /\ copy[r].token # "none"
    /\ SpentTokenIsGone

\* A guess is counted by a handler that found the code open.
Guesses ==
    /\ \A r \in Requests : pc[r] = "miss" => ~code[r].blocked
    /\ GuessesAreCounted

----------------------------------------------------------------------------
\* A user as a sign-up or an administrator inserts it.
LEMMA Inserting ==
    ASSUME NEW w \in Writer
    PROVE  /\ NewUser(w) \in UserRow
           /\ NewUser(w).by = w /\ NewUser(w).token = "none" /\ ~NewUser(w).tokenLive
           /\ NewUser(w).grantor = "none" /\ NewUser(w).permissions = {}
  BY DEF NewUser, UserRow, Writer

\* The row that stands for no user.
LEMMA InsertingNobody == NoUser \in UserRow /\ NoUser.by = "none" /\ NoUser.token = "none"
    /\ ~NoUser.tokenLive /\ NoUser.grantor = "none"
  BY Inserting DEF NoUser, Writer

\* A user as an administrator inserts it: verified, approved, with a role.
Profile(w, role, perms) ==
    [NewUser(w) EXCEPT !.verified = TRUE, !.approved = TRUE, !.role = role,
                       !.permissions = perms]

\* Such a user keeps the types and has no token yet.
LEMMA InsertingProfile ==
    ASSUME NEW w \in Writer, NEW role \in {"ADMIN", "USER"}, NEW perms \in SUBSET Rows
    PROVE  /\ Profile(w, role, perms) \in UserRow
           /\ Profile(w, role, perms).by = w /\ Profile(w, role, perms).token = "none"
           /\ ~Profile(w, role, perms).tokenLive /\ Profile(w, role, perms).grantor = "none"
  BY DEF Profile, NewUser, UserRow, Writer

\* So does the one that was there from the start, ...
LEMMA InsertingOriginal ==
    /\ Original \in UserRow
    /\ Original.by = "origin" /\ Original.token = "none" /\ ~Original.tokenLive
    /\ Original.grantor = "none"
<1>1. Original = Profile("origin", "USER", Permissions \X {"origin"})
  BY DEF Original, Profile
<1>2. Permissions \X {"origin"} \in SUBSET Rows
  BY DEF Rows, Writer
<1>3. QED
  BY <1>1, <1>2, InsertingProfile DEF Writer

\* ... and the one a request asks for.
LEMMA InsertingAsked ==
    ASSUME NEW r \in Requests, NEW a \in Asked, a.role # "none"
    PROVE  LET u == NewProfile(r, a) IN
           /\ u \in UserRow
           /\ u.by = r /\ u.token = "none" /\ ~u.tokenLive /\ u.grantor = "none"
<1> DEFINE granted == IF a.role = "ADMIN" THEN Permissions ELSE a.permissions
<1>1. /\ a.role \in {"ADMIN", "USER"} /\ r \in Writer
      /\ granted \X {r} \in SUBSET Rows
  BY DEF Asked, Writer, Rows
<1>2. NewProfile(r, a) = Profile(r, a.role, granted \X {r})
  BY DEF NewProfile, Profile
<1> HIDE DEF granted
<1>3. QED
  BY <1>1, <1>2, InsertingProfile

\* The columns that are written.
LEMMA Writing ==
    ASSUME NEW u \in UserRow, NEW r \in Requests
    PROVE  /\ [u EXCEPT !.customer = r] \in UserRow
           /\ [u EXCEPT !.password = r] \in UserRow
           /\ [u EXCEPT !.verified = TRUE] \in UserRow
           /\ [u EXCEPT !.token = r, !.tokenLive = TRUE] \in UserRow
           /\ [u EXCEPT !.password = r, !.token = "none", !.tokenLive = FALSE] \in UserRow
<1>1. r \in Writer /\ "none" \in Writer
  BY DEF Writer
<1>2. [u EXCEPT !.customer = r] \in UserRow
  BY <1>1 DEF UserRow
<1>3. [u EXCEPT !.password = r] \in UserRow
  BY <1>1 DEF UserRow
<1>4. [u EXCEPT !.verified = TRUE] \in UserRow
  BY DEF UserRow
<1>5. [u EXCEPT !.token = r, !.tokenLive = TRUE] \in UserRow
  BY <1>1 DEF UserRow
<1>6. [u EXCEPT !.password = r, !.token = "none", !.tokenLive = FALSE] \in UserRow
  BY <1>1 DEF UserRow
<1>7. QED
  BY <1>2, <1>3, <1>4, <1>5, <1>6

\* A reset token that runs out.
LEMMA Expiring == ASSUME NEW u \in UserRow PROVE [u EXCEPT !.tokenLive = FALSE] \in UserRow
  BY DEF UserRow

\* The columns of a review.
LEMMA Reviewing ==
    ASSUME NEW u \in UserRow, NEW approved \in BOOLEAN, NEW approver \in Writer
    PROVE  [u EXCEPT !.approved = approved, !.approver = approver] \in UserRow
  BY DEF UserRow

\* A user as an update of its role and permissions commits it.
Commit(u, role, perms, grantor) ==
    [u EXCEPT !.role = role, !.permissions = perms, !.grantor = grantor]

\* A code as it is written.
LEMMA NewCodeType ==
    ASSUME NEW w \in Writer, NEW purpose \in Purpose
    PROVE  NewCode(w, purpose) \in CodeRow /\ NewCode(w, purpose).retries = 0
  BY DEF NewCode, CodeRow

\* The columns of a code that are written.
LEMMA Stamping ==
    ASSUME NEW o \in CodeRow
    PROVE  /\ [o EXCEPT !.used = TRUE] \in CodeRow
           /\ [o EXCEPT !.fresh = FALSE] \in CodeRow
           /\ [o EXCEPT !.expired = TRUE] \in CodeRow
<1>1. [o EXCEPT !.used = TRUE] \in CodeRow
  BY DEF CodeRow
<1>2. [o EXCEPT !.fresh = FALSE] \in CodeRow
  BY DEF CodeRow
<1>3. [o EXCEPT !.expired = TRUE] \in CodeRow
  BY DEF CodeRow
<1>4. QED
  BY <1>1, <1>2, <1>3

\* They leave what counts guesses alone.
LEMMA Keeping ==
    ASSUME NEW o \in CodeRow, NEW v \in {[o EXCEPT !.used = TRUE], [o EXCEPT !.fresh = FALSE],
                                         [o EXCEPT !.expired = TRUE]}
    PROVE  /\ v.retries = o.retries /\ v.blocked = o.blocked
           /\ v.misses = o.misses /\ v.raced = o.raced
  BY DEF CodeRow

\* What a wrong guess makes of the row that its handler has loaded.
LEMMA Missing ==
    ASSUME NEW c \in CodeRow
    PROVE  /\ Missed(c) \in CodeRow /\ Missed(c).retries < MaxRetries
           /\ c.retries + 1 >= MaxRetries => Missed(c).blocked = TRUE
           /\ c.retries + 1 < MaxRetries =>
                 Missed(c).blocked = c.blocked /\ Missed(c).retries = c.retries + 1
<1> USE AccountsAssumption
<1>1. c.retries \in Nat /\ c.retries + 1 \in Nat /\ MaxRetries \in Nat /\ MaxRetries > 0
  BY DEF CodeRow
<1>2. CASE c.retries + 1 >= MaxRetries
  <2>1. Missed(c) = [c EXCEPT !.blocked = TRUE, !.retries = 0]
    BY <1>1, <1>2 DEF Missed
  <2>2. [c EXCEPT !.blocked = TRUE, !.retries = 0] \in CodeRow
    BY DEF CodeRow
  <2>3. Missed(c).blocked = TRUE /\ Missed(c).retries = 0
    BY <2>1 DEF CodeRow
  <2>4. Missed(c) \in CodeRow
    BY <2>1, <2>2
  <2>5. QED
    BY <1>1, <1>2, <2>3, <2>4
<1>3. CASE c.retries + 1 < MaxRetries
  <2>1. Missed(c) = [c EXCEPT !.retries = @ + 1]
    BY <1>1, <1>3 DEF Missed
  <2>2. Missed(c) \in CodeRow
    BY <1>1, <2>1 DEF CodeRow
  <2>3. Missed(c).retries = c.retries + 1 /\ Missed(c).blocked = c.blocked
    BY <2>1 DEF CodeRow
  <2>4. QED
    BY <1>1, <1>3, <2>2, <2>3
<1>4. c.retries + 1 >= MaxRetries \/ c.retries + 1 < MaxRetries
  BY <1>1
<1>5. QED
  BY <1>2, <1>3, <1>4

\* A code as the handler that loaded c writes it back after a wrong guess.
Counted(o, c) ==
    [o EXCEPT !.retries = Missed(c).retries, !.blocked = @ \/ Missed(c).blocked,
              !.misses = @ + 1, !.raced = @ \/ o.retries # c.retries \/ o.blocked]

\* Its columns, one by one.
LEMMA Counting ==
    ASSUME NEW o \in CodeRow, NEW c \in CodeRow
    PROVE  /\ Counted(o, c) \in CodeRow
           /\ Counted(o, c).retries = Missed(c).retries
           /\ Counted(o, c).blocked = (o.blocked \/ Missed(c).blocked)
           /\ Counted(o, c).misses = o.misses + 1
           /\ Counted(o, c).raced = (o.raced \/ o.retries # c.retries \/ o.blocked)
<1> DEFINE retries == Missed(c).retries
           blocked == o.blocked \/ Missed(c).blocked
           misses == o.misses + 1
           raced == o.raced \/ o.retries # c.retries \/ o.blocked
<1>1. Counted(o, c) = [o EXCEPT !.retries = retries, !.blocked = blocked,
                                !.misses = misses, !.raced = raced]
  BY DEF Counted
<1>2. retries \in Nat /\ blocked \in BOOLEAN /\ misses \in Nat /\ raced \in BOOLEAN
  <2>1. Missed(c) \in CodeRow
    BY Missing
  <2>2. QED
    BY <2>1 DEF CodeRow
<1> HIDE DEF retries, blocked, misses, raced
<1>3. Counted(o, c) \in CodeRow
  BY <1>1, <1>2 DEF CodeRow
<1>4. /\ Counted(o, c).retries = retries /\ Counted(o, c).blocked = blocked
      /\ Counted(o, c).misses = misses /\ Counted(o, c).raced = raced
  BY <1>1 DEF CodeRow
<1>5. QED
  BY <1>3, <1>4 DEF retries, blocked, misses, raced

\* A code that counts its wrong guesses, as GuessesAreCounted has it.
Sound(o) ==
    ~o.raced => IF o.blocked THEN o.misses = MaxRetries ELSE o.retries = o.misses

\* It still does when another column is written ...
LEMMA KeptSound ==
    ASSUME NEW o \in CodeRow, NEW v \in {[o EXCEPT !.used = TRUE], [o EXCEPT !.fresh = FALSE],
                                         [o EXCEPT !.expired = TRUE]}, Sound(o)
    PROVE  Sound(v)
<1>1. v.retries = o.retries /\ v.blocked = o.blocked /\ v.misses = o.misses /\ v.raced = o.raced
  BY Keeping
<1>2. QED
  BY <1>1 DEF Sound

\* ... and when a handler that found it open counts one more.
LEMMA CountedSound ==
    ASSUME NEW o \in CodeRow, NEW c \in CodeRow, o.retries < MaxRetries, ~c.blocked, Sound(o)
    PROVE  Sound(Counted(o, c))
<1> USE AccountsAssumption
<1> DEFINE v == Counted(o, c)
<1>1. /\ v.retries = Missed(c).retries /\ v.blocked = (o.blocked \/ Missed(c).blocked)
      /\ v.misses = o.misses + 1 /\ v.raced = (o.raced \/ o.retries # c.retries \/ o.blocked)
  BY Counting
<1> HIDE DEF v
<1>2. o.retries \in Nat /\ o.misses \in Nat /\ MaxRetries \in Nat
  BY DEF CodeRow
<1>3. SUFFICES ASSUME ~v.raced
               PROVE  IF v.blocked THEN v.misses = MaxRetries ELSE v.retries = v.misses
  BY DEF Sound, v
<1>4. ~o.raced /\ o.retries = c.retries /\ ~o.blocked
  BY <1>1, <1>3
<1>5. o.misses = o.retries
  BY <1>4 DEF Sound
<1>6. CASE o.retries + 1 >= MaxRetries
  <2>1. Missed(c).blocked = TRUE
    BY <1>4, <1>6, Missing
  <2>2. o.retries + 1 = MaxRetries
    BY <1>2, <1>6
  <2>3. v.blocked /\ v.misses = MaxRetries
    BY <1>1, <1>5, <2>1, <2>2
  <2>4. QED
    BY <2>3
<1>7. CASE o.retries + 1 < MaxRetries
  <2>1. Missed(c).blocked = c.blocked /\ Missed(c).retries = c.retries + 1
    BY <1>4, <1>7, Missing
  <2>2. v.retries = v.misses
    BY <1>1, <1>4, <1>5, <2>1
  <2>3. ~v.blocked
    BY <1>1, <1>4, <2>1
  <2>4. QED
    BY <2>2, <2>3
<1>8. QED
  BY <1>2, <1>6, <1>7

\* The rows that an update leaves of those that it finds.
Kept(r) == Left(r) \ RowsOf(r, Dropped(r))

\* What an update commits: the same user, with some of the rows it finds and
\* with those it inserts.
LEMMA EditedType ==
    ASSUME TypeOK, NEW r \in Requests
    PROVE  /\ Edited(r) \in UserRow
           /\ Edited(r).by = user.by /\ Edited(r).token = user.token
           /\ Edited(r).tokenLive = user.tokenLive
           /\ Edited(r).permissions = Kept(r) \cup (Inserted(r) \X {r})
           /\ Edited(r).grantor = IF Replaces(asked[r], copy[r]) THEN r ELSE user.grantor
<1> DEFINE role == IF asked[r].role \in {"none", copy[r].role} THEN user.role ELSE asked[r].role
           perms == Kept(r) \cup (Inserted(r) \X {r})
           grantor == IF Replaces(asked[r], copy[r]) THEN r ELSE user.grantor
<1>1. /\ user \in UserRow /\ asked[r] \in Asked
      /\ user.role \in {"ADMIN", "USER"} /\ user.permissions \in SUBSET Rows
      /\ user.grantor \in Requests \cup {"none"}
  BY DEF TypeOK, UserRow
<1>2. Inserted(r) \subseteq Permissions /\ r \in Writer /\ Kept(r) \subseteq Rows
  <2>1. Inserted(r) \subseteq asked[r].permissions
    BY DEF Inserted
  <2>2. Left(r) \subseteq user.permissions
    BY DEF Left
  <2>3. QED
    BY <1>1, <2>1, <2>2 DEF Asked, Writer, Kept
<1>3. role \in {"ADMIN", "USER"}
  BY <1>1 DEF Asked
<1>4. perms \in SUBSET Rows
  BY <1>2 DEF Rows
<1>5. grantor \in Requests \cup {"none"}
  BY <1>1
<1>6. Edited(r) = Commit(user, role, perms, grantor)
  BY DEF Edited, Commit, Kept
<1> HIDE DEF role, perms, grantor
<1>7. LET v == Commit(user, role, perms, grantor) IN
      /\ v \in UserRow /\ v.by = user.by /\ v.token = user.token
      /\ v.tokenLive = user.tokenLive /\ v.grantor = grantor /\ v.permissions = perms
  BY <1>1, <1>3, <1>4, <1>5 DEF Commit, UserRow
<1>8. QED
  BY <1>6, <1>7 DEF perms, grantor

\* What an update does when it flushes: it commits, or it is refused and
\* leaves the user alone.
LEMMA Flushing ==
    ASSUME NEW r \in Requests, FlushMember(r)
    PROVE  /\ pc[r] = "flush"
           /\ UNCHANGED <<copy, asked, swept, OfSquare, OfCodes, faults>>
           /\ \/ Goto(r, "done") /\ user.by = copy[r].by /\ user' = Edited(r)
              \/ Goto(r, "done") /\ user.by # copy[r].by /\ UNCHANGED user
              \/ Goto(r, "told") /\ UNCHANGED user
<1>1. pc[r] = "flush" /\ UNCHANGED <<copy, asked, swept, OfSquare, OfCodes, faults>>
  BY DEF FlushMember
<1>2. \/ Goto(r, "done") /\ user' = IF user.by = copy[r].by THEN Edited(r) ELSE user
      \/ Goto(r, "told") /\ UNCHANGED user
  BY DEF FlushMember
<1>3. QED
  BY <1>1, <1>2

\* A step of a handler that writes nothing but the user keeps all the types
\* when it keeps the user's.
LEMMA UserTyped ==
    ASSUME TypeOK, NEW r \in Requests, NEW label \in Pc, Goto(r, label), user' \in UserRow,
           UNCHANGED <<copy, asked, swept, OfSquare, OfCodes, faults>>
    PROVE  TypeOK'
<1>1. pc' \in [Requests -> Pc]
  BY DEF TypeOK, Goto
<1>2. UNCHANGED <<copy, asked, swept, customers, answer, codes, code, faults>>
  BY DEF OfSquare, OfCodes
<1>3. QED
  BY <1>1, <1>2 DEF TypeOK

\* The steps that write the user.
WritesUser(r) ==
    \/ InsertUser(r) \/ SaveCustomer(r) \/ Grant(r) \/ FlushReset(r) \/ FlushChange(r)
    \/ FlushReview(r) \/ FlushMember(r) \/ FlushRemove(r)

\* They keep the types.
LEMMA WritesUserTyped ==
    ASSUME TypeOK, NEW r \in Requests, WritesUser(r) PROVE TypeOK'
<1>0. /\ user \in UserRow /\ copy[r] \in UserRow /\ r \in Writer
      /\ {"await", "cleanup", "done", "told"} \subseteq Pc
  BY DEF TypeOK, Writer, Pc
<1>1. UNCHANGED <<copy, asked, swept, OfSquare, OfCodes, faults>>
  BY DEF WritesUser, InsertUser, SaveCustomer, Grant, FlushReset, FlushChange, FlushReview,
         FlushMember, FlushRemove
<1>2. PICK label \in Pc : Goto(r, label)
  <2>1. InsertUser(r) => Goto(r, "cleanup") \/ Goto(r, "await")
    BY DEF InsertUser
  <2>2. SaveCustomer(r) \/ Grant(r) \/ FlushReset(r) \/ FlushChange(r) => Goto(r, "done")
    BY DEF SaveCustomer, Grant, FlushReset, FlushChange
  <2>3. FlushReview(r) \/ FlushRemove(r) => Goto(r, "done")
    BY DEF FlushReview, FlushRemove
  <2>4. FlushMember(r) => Goto(r, "done") \/ Goto(r, "told")
    BY Flushing
  <2>5. QED
    BY <1>0, <2>1, <2>2, <2>3, <2>4 DEF WritesUser
<1>3. user' \in UserRow
  <2>1. CASE InsertUser(r)
    BY <1>0, <2>1, Inserting DEF InsertUser
  <2>2. CASE SaveCustomer(r)
    BY Zenon, <1>0, <2>2, Writing DEF SaveCustomer
  <2>3. CASE Grant(r)
    BY Zenon, <1>0, <2>3, Writing DEF Grant
  <2>4. CASE FlushReset(r)
    BY Zenon, <1>0, <2>4, Writing DEF FlushReset, AfterReset
  <2>5. CASE FlushChange(r)
    BY Zenon, <1>0, <2>5, Writing DEF FlushChange
  <2>6. CASE FlushReview(r)
    <3> DEFINE approved == user.approved /\ ~copy[r].approved
               approver == IF copy[r].approver = "none" THEN user.approver ELSE "none"
    <3>1. /\ user.approved \in BOOLEAN /\ user.approver \in Writer
          /\ copy[r].approved \in BOOLEAN
      BY <1>0 DEF UserRow
    <3>2. approved \in BOOLEAN /\ approver \in Writer
      BY <3>1 DEF Writer
    <3>3. [user EXCEPT !.approved = approved, !.approver = approver] \in UserRow
      BY <1>0, <3>2, Reviewing
    <3>4. [user EXCEPT !.approved = TRUE, !.approver = r] \in UserRow
      BY <1>0, Reviewing
    <3>5. QED
      BY <1>0, <2>6, <3>3, <3>4 DEF FlushReview
  <2>7. CASE FlushMember(r)
    BY <1>0, <2>7, EditedType, Flushing
  <2>8. CASE FlushRemove(r)
    BY <1>0, <2>8, InsertingNobody DEF FlushRemove
  <2>9. QED
    BY <2>1, <2>2, <2>3, <2>4, <2>5, <2>6, <2>7, <2>8 DEF WritesUser
<1>4. QED
  BY <1>1, <1>2, <1>3, UserTyped

\* Type correctness: whatever interleaves at one email address, the user, the
\* codes and the copies keep their types, and no count passes the limit.
THEOREM TypeCorrect == Spec => []TypeOK
<1> USE AccountsAssumption
<1>1. Init => TypeOK
  <2>1. NewCode("none", "email_verification") \in CodeRow
    BY NewCodeType DEF Writer, Purpose
  <2>2. QED
    BY <2>1, InsertingOriginal, InsertingNobody DEF Init, TypeOK, Pc, Asked
<1>2. TypeOK /\ [Next]_vars => TypeOK'
  <2> SUFFICES ASSUME TypeOK, [Next]_vars PROVE TypeOK'
    OBVIOUS
  <2> USE DEF TypeOK, Goto, Pc
  <2>1. ASSUME NEW r \in Requests, BeginSignup(r) PROVE TypeOK'
    BY <2>1 DEF BeginSignup, OfUser, OfSquare, OfCodes, Begins
  <2>2. ASSUME NEW r \in Requests, SquareAnswers(r) PROVE TypeOK'
    BY <2>2 DEF SquareAnswers, OfUser, OfSquare, OfCodes, Begins
  <2>3. ASSUME NEW r \in Requests, WritesUser(r) PROVE TypeOK'
    BY ONLY TypeOK, <2>3, WritesUserTyped
  <2>4. ASSUME NEW r \in Requests, AwaitSquare(r) PROVE TypeOK'
    BY <2>4 DEF AwaitSquare, OfUser, OfSquare, OfCodes, Begins
  <2>6. ASSUME NEW r \in Requests, Cleanup(r) PROVE TypeOK'
    BY <2>6 DEF Cleanup, OfUser, OfSquare, OfCodes, Begins
  <2>7. ASSUME NEW r \in Requests, DropCustomer(r) PROVE TypeOK'
    BY <2>7 DEF DropCustomer, OfUser, OfSquare, OfCodes, Begins
  <2>8. ASSUME NEW r \in Requests, BeginCode(r) PROVE TypeOK'
    BY <2>8 DEF BeginCode, OfUser, OfSquare, OfCodes, Begins
  <2>9. ASSUME NEW r \in Requests, WipeCodes(r) PROVE TypeOK'
    BY <2>9 DEF WipeCodes, OfUser, OfSquare, OfCodes, Begins
  <2>10. ASSUME NEW r \in Requests, WriteCode(r) PROVE TypeOK'
    <3>1. r \in Writer /\ PurposeOf[r] \in Purpose
      BY DEF Writer
    <3>2. QED
      BY <2>10, <3>1, NewCodeType DEF WriteCode, OfUser, OfSquare
  <2>11. ASSUME NEW r \in Requests, BeginVerify(r) PROVE TypeOK'
    <3>1. \E label \in {"told", "use", "miss"} : Goto(r, label)
      BY <2>11 DEF BeginVerify
    <3>2. code' = code \/ \E o \in codes : code' = [code EXCEPT ![r] = o]
      BY <2>11 DEF BeginVerify
    <3>3. pc' \in [Requests -> Pc] /\ code' \in [Requests -> CodeRow]
      BY <3>1, <3>2
    <3>4. UNCHANGED <<user, copy, asked, swept, customers, answer, codes, faults>>
      <4>1. UNCHANGED <<OfUser, OfSquare, codes, faults>>
        BY <2>11 DEF BeginVerify
      <4>2. QED
        BY <4>1 DEF OfUser, OfSquare
    <3>5. QED
      BY <3>3, <3>4
  <2>12. ASSUME NEW r \in Requests, FlushMiss(r) PROVE TypeOK'
    <3>1. \A o \in codes : /\ Counted(o, code[r]) \in CodeRow
                           /\ Counted(o, code[r]).retries < MaxRetries
      <4>1. TAKE o \in codes
      <4>2. o \in CodeRow /\ code[r] \in CodeRow
        OBVIOUS
      <4>3. Missed(code[r]).retries < MaxRetries
        BY <4>2, Missing
      <4>4. QED
        BY <4>2, <4>3, Counting
    <3>2. codes' = {IF o.by # code[r].by \/ o.purpose # code[r].purpose THEN o
                    ELSE Counted(o, code[r]) : o \in codes}
      BY Zenon, <2>12 DEF FlushMiss, Counted
    <3>3. codes' \subseteq CodeRow /\ \A o \in codes' : o.retries < MaxRetries
      BY <3>1, <3>2
    <3>4. QED
      BY Zenon, <2>12, <3>3 DEF FlushMiss, OfUser, OfSquare
  <2>13. ASSUME NEW r \in Requests, FlushUse(r) PROVE TypeOK'
    <3>1. \A o \in codes : /\ [o EXCEPT !.used = TRUE] \in CodeRow
                           /\ [o EXCEPT !.used = TRUE].retries = o.retries
      BY Stamping, Keeping
    <3>2. codes' = {IF o.by # code[r].by \/ o.purpose # code[r].purpose THEN o
                    ELSE [o EXCEPT !.used = TRUE] : o \in codes}
      BY <2>13 DEF FlushUse
    <3>3. ASSUME NEW v \in codes' PROVE v \in CodeRow /\ v.retries < MaxRetries
      <4>1. PICK o \in codes : v = o \/ v = [o EXCEPT !.used = TRUE]
        BY <3>2
      <4>2. o \in CodeRow /\ o.retries < MaxRetries
        BY <4>1
      <4>3. CASE v = o
        BY <4>2, <4>3
      <4>4. CASE v = [o EXCEPT !.used = TRUE]
        <5>1. v \in CodeRow
          BY <3>1, <4>4
        <5>2. v.retries = o.retries
          BY <3>1, <4>4
        <5>3. QED
          BY <4>2, <5>1, <5>2
      <4>5. QED
        BY <4>1, <4>3, <4>4
    <3>4. QED
      BY <2>13, <3>3 DEF FlushUse, OfUser, OfSquare
  <2>15. ASSUME NEW r \in Requests, BeginReset(r) PROVE TypeOK'
    BY <2>15 DEF BeginReset, OfUser, OfSquare, OfCodes, Begins
  <2>17. ASSUME NEW r \in Requests, BeginChange(r) PROVE TypeOK'
    BY <2>17 DEF BeginChange, OfUser, OfSquare, OfCodes, Begins
  <2>19. ASSUME NEW r \in Requests, CreateProfile(r) PROVE TypeOK'
    <3>1. PICK a \in Asked :
             /\ a.role # "none" /\ a.given
             /\ IF Exists \/ (a.role = "USER" /\ a.permissions = {})
                   THEN Goto(r, "told") /\ UNCHANGED user
                   ELSE Goto(r, "done") /\ user' = NewProfile(r, a)
      BY <2>19 DEF CreateProfile
    <3>2. NewProfile(r, a) \in UserRow
      BY <3>1, InsertingAsked
    <3>3. user' \in UserRow /\ pc' \in [Requests -> Pc]
      BY <3>1, <3>2
    <3>4. QED
      BY <2>19, <3>3 DEF CreateProfile, OfSquare, OfCodes
  <2>20. ASSUME NEW r \in Requests, BeginReview(r) PROVE TypeOK'
    <3>1. PICK approve \in BOOLEAN :
             /\ asked' = [asked EXCEPT ![r].given = approve]
             /\ Goto(r, IF ~Exists \/ (approve /\ user.approved) THEN "told" ELSE "review")
      BY <2>20 DEF BeginReview
    <3>2. [asked[r] EXCEPT !.given = approve] \in Asked
      BY ONLY asked \in [Requests -> Asked], r \in Requests, approve \in BOOLEAN DEF Asked
    <3>3. asked' \in [Requests -> Asked]
      BY <3>1, <3>2
    <3>4. QED
      BY <2>20, <3>1, <3>3 DEF BeginReview, Begins, OfSquare, OfCodes
  <2>22. ASSUME NEW r \in Requests, BeginMember(r) PROVE TypeOK'
    BY <2>22 DEF BeginMember, OfUser, OfSquare, OfCodes, Begins
  <2>23. ASSUME NEW r \in Requests, BeginDelete(r) PROVE TypeOK'
    BY <2>23 DEF BeginDelete, OfSquare, OfCodes, UserRow
  <2>25. ASSUME NEW r \in Requests, EndDelete(r) PROVE TypeOK'
    BY <2>25 DEF EndDelete, OfSquare, OfCodes
  <2>24. ASSUME NEW r \in Requests, BeginRemove(r) PROVE TypeOK'
    BY <2>24 DEF BeginRemove, OfUser, OfSquare, OfCodes, Begins
  <2>26. ASSUME NEW r \in Requests, Refuse(r) PROVE TypeOK'
    BY <2>26 DEF Refuse, OfUser, OfSquare, OfCodes, Begins
  <2>27. ASSUME NEW r \in Requests, Interrupt(r) PROVE TypeOK'
    BY <2>27 DEF Interrupt, OfUser, OfSquare, OfCodes, Begins
  <2>28. ASSUME NEW o \in codes, CodeAges(o) PROVE TypeOK'
    <3>1. /\ [o EXCEPT !.fresh = FALSE] \in CodeRow /\ [o EXCEPT !.expired = TRUE] \in CodeRow
          /\ [o EXCEPT !.fresh = FALSE].retries = o.retries
          /\ [o EXCEPT !.expired = TRUE].retries = o.retries
      BY Stamping, Keeping
    <3>2. codes' \subseteq CodeRow /\ \A q \in codes' : q.retries < MaxRetries
      BY <2>28, <3>1 DEF CodeAges
    <3>3. QED
      BY <2>28, <3>2 DEF CodeAges, OfUser, OfSquare
  <2>29. ASSUME TokenExpires PROVE TypeOK'
    <3>1. user' \in UserRow
      BY <2>29, Expiring DEF TokenExpires
    <3>2. QED
      BY <2>29, <3>1 DEF TokenExpires, OfUser, OfSquare, OfCodes
  <2>30. CASE UNCHANGED vars
    BY <2>30 DEF vars
  <2> HIDE DEF TypeOK, Goto, Pc
  <2>31. QED
    BY <2>1, <2>2, <2>3, <2>4, <2>6, <2>7, <2>8, <2>9, <2>10, <2>11, <2>12,
       <2>13, <2>15, <2>17, <2>19, <2>20, <2>22, <2>23, <2>24, <2>25,
       <2>26, <2>27, <2>28, <2>29, <2>30 DEF Next, WritesUser
<1>3. QED
  BY <1>1, <1>2, PTL DEF Spec

\* A request goes only through the steps of its kind.
LEMMA PlacesHold == Spec => []Places
<1> USE AccountsAssumption
<1>1. Init => Places
  <2>1. Init => \E here \in Arriving : pc = [r \in Requests |-> IF r \in here THEN "idle" ELSE "absent"]
    BY ONLY Zenon DEF Init
  <2>2. \A role : {"absent", "idle"} \subseteq Labels(role)
    BY DEF Labels
  <2>3. QED
    BY ONLY <2>1, <2>2 DEF Places
<1>2. TypeOK /\ Places /\ [Next]_vars => Places'
  <2> SUFFICES ASSUME TypeOK, Places, [Next]_vars PROVE Places'
    OBVIOUS
  <2> USE DEF TypeOK, Places, Labels, Goto, Is, Role
  <2>1. ASSUME NEW r \in Requests, BeginSignup(r) PROVE Places'
    BY <2>1 DEF BeginSignup, Begins
  <2>2. ASSUME NEW r \in Requests, SquareAnswers(r) PROVE Places'
    BY <2>2 DEF SquareAnswers, Begins
  <2>3. ASSUME NEW r \in Requests, InsertUser(r) PROVE Places'
    BY <2>3 DEF InsertUser, Begins
  <2>4. ASSUME NEW r \in Requests, AwaitSquare(r) PROVE Places'
    BY <2>4 DEF AwaitSquare, Begins
  <2>5. ASSUME NEW r \in Requests, SaveCustomer(r) PROVE Places'
    BY <2>5 DEF SaveCustomer, Begins
  <2>6. ASSUME NEW r \in Requests, Cleanup(r) PROVE Places'
    BY <2>6 DEF Cleanup, Begins
  <2>7. ASSUME NEW r \in Requests, DropCustomer(r) PROVE Places'
    BY <2>7 DEF DropCustomer, Begins
  <2>8. ASSUME NEW r \in Requests, BeginCode(r) PROVE Places'
    BY <2>8 DEF BeginCode, Begins
  <2>9. ASSUME NEW r \in Requests, WipeCodes(r) PROVE Places'
    BY <2>9 DEF WipeCodes, Begins
  <2>10. ASSUME NEW r \in Requests, WriteCode(r) PROVE Places'
    BY <2>10 DEF WriteCode, Begins
  <2>11. ASSUME NEW r \in Requests, BeginVerify(r) PROVE Places'
    BY <2>11 DEF BeginVerify, Begins
  <2>12. ASSUME NEW r \in Requests, FlushMiss(r) PROVE Places'
    <3>1. pc[r] = "miss" /\ pc' = [pc EXCEPT ![r] = "told"]
      BY Zenon, <2>12 DEF FlushMiss, Begins
    <3>2. QED
      BY <3>1
  <2>13. ASSUME NEW r \in Requests, FlushUse(r) PROVE Places'
    BY <2>13 DEF FlushUse, Begins
  <2>14. ASSUME NEW r \in Requests, Grant(r) PROVE Places'
    BY <2>14 DEF Grant, Begins
  <2>15. ASSUME NEW r \in Requests, BeginReset(r) PROVE Places'
    BY <2>15 DEF BeginReset, Begins
  <2>16. ASSUME NEW r \in Requests, FlushReset(r) PROVE Places'
    BY <2>16 DEF FlushReset, Begins
  <2>17. ASSUME NEW r \in Requests, BeginChange(r) PROVE Places'
    BY <2>17 DEF BeginChange, Begins
  <2>18. ASSUME NEW r \in Requests, FlushChange(r) PROVE Places'
    BY <2>18 DEF FlushChange, Begins
  <2>19. ASSUME NEW r \in Requests, CreateProfile(r) PROVE Places'
    BY <2>19 DEF CreateProfile, Begins
  <2>20. ASSUME NEW r \in Requests, BeginReview(r) PROVE Places'
    BY <2>20 DEF BeginReview, Begins
  <2>21. ASSUME NEW r \in Requests, FlushReview(r) PROVE Places'
    BY <2>21 DEF FlushReview, Begins
  <2>22. ASSUME NEW r \in Requests, BeginMember(r) PROVE Places'
    BY <2>22 DEF BeginMember, Begins
  <2>23. ASSUME NEW r \in Requests, FlushMember(r) PROVE Places'
    BY <2>23 DEF FlushMember, Begins
  <2>32. ASSUME NEW r \in Requests, BeginDelete(r) PROVE Places'
    BY <2>32 DEF BeginDelete, Begins
  <2>33. ASSUME NEW r \in Requests, EndDelete(r) PROVE Places'
    BY <2>33 DEF EndDelete, Begins
  <2>24. ASSUME NEW r \in Requests, BeginRemove(r) PROVE Places'
    BY <2>24 DEF BeginRemove, Begins
  <2>25. ASSUME NEW r \in Requests, FlushRemove(r) PROVE Places'
    BY <2>25 DEF FlushRemove, Begins
  <2>26. ASSUME NEW r \in Requests, Refuse(r) PROVE Places'
    BY <2>26 DEF Refuse, Begins
  <2>27. ASSUME NEW r \in Requests, Interrupt(r) PROVE Places'
    BY <2>27 DEF Interrupt, Begins
  <2>28. ASSUME NEW o \in codes, CodeAges(o) PROVE Places'
    BY <2>28 DEF CodeAges, Begins
  <2>29. ASSUME TokenExpires PROVE Places'
    BY <2>29 DEF TokenExpires, Begins
  <2>30. CASE UNCHANGED vars
    BY <2>30 DEF vars
  <2> HIDE DEF TypeOK, Places, Labels, Goto, Is, Role
  <2>31. QED
    BY <2>1, <2>2, <2>3, <2>4, <2>5, <2>6, <2>7, <2>8, <2>9, <2>10, <2>11, <2>12,
       <2>13, <2>14, <2>15, <2>16, <2>17, <2>18, <2>19, <2>20, <2>21, <2>22, <2>23,
       <2>24, <2>25, <2>26, <2>27, <2>28, <2>29, <2>30, <2>32, <2>33 DEF Next
<1>3. QED
  BY <1>1, <1>2, TypeCorrect, PTL DEF Spec

\* Square's answer and the sign-up that waits for it keep in step.
LEMMA CustomersHold == Spec => []Customers
<1> USE AccountsAssumption
<1>1. Init => Customers
  BY DEF Init, Customers
<1>2. TypeOK /\ Places /\ Customers /\ [Next]_vars => Customers'
  <2> SUFFICES ASSUME TypeOK, Places, Customers, [Next]_vars PROVE Customers'
    OBVIOUS
  <2> USE DEF TypeOK, Customers, Places, Labels, Goto, Is, OfUser, OfSquare, OfCodes
  <2>1. ASSUME NEW r \in Requests, BeginSignup(r) PROVE Customers'
    BY <2>1 DEF BeginSignup, Begins, Exists
  <2>2. ASSUME NEW r \in Requests, SquareAnswers(r) PROVE Customers'
    BY <2>2 DEF SquareAnswers, Begins
  <2>3. ASSUME NEW r \in Requests, InsertUser(r) PROVE Customers'
    BY <2>3 DEF InsertUser, Begins
  <2>4. ASSUME NEW r \in Requests, AwaitSquare(r) PROVE Customers'
    BY <2>4 DEF AwaitSquare, Begins
  <2>5. ASSUME NEW r \in Requests, SaveCustomer(r) PROVE Customers'
    BY <2>5 DEF SaveCustomer, Begins
  <2>6. ASSUME NEW r \in Requests, Cleanup(r) PROVE Customers'
    BY <2>6 DEF Cleanup, Settled
  <2>7. ASSUME NEW r \in Requests, DropCustomer(r) PROVE Customers'
    BY <2>7 DEF DropCustomer, Begins
  <2>8. ASSUME NEW r \in Requests, BeginCode(r) PROVE Customers'
    BY <2>8 DEF BeginCode, Begins
  <2>9. ASSUME NEW r \in Requests, WipeCodes(r) PROVE Customers'
    BY <2>9 DEF WipeCodes, Begins
  <2>10. ASSUME NEW r \in Requests, WriteCode(r) PROVE Customers'
    BY <2>10 DEF WriteCode, Begins
  <2>11. ASSUME NEW r \in Requests, BeginVerify(r) PROVE Customers'
    BY <2>11 DEF BeginVerify, Begins
  <2>12. ASSUME NEW r \in Requests, FlushMiss(r) PROVE Customers'
    <3>1. /\ pc[r] = "miss" /\ pc' = [pc EXCEPT ![r] = "told"]
          /\ UNCHANGED <<customers, answer>>
      BY Zenon, <2>12 DEF FlushMiss
    <3>2. ~Is(r, "signup")
      BY <3>1
    <3>3. QED
      BY <3>1, <3>2
  <2>13. ASSUME NEW r \in Requests, FlushUse(r) PROVE Customers'
    BY <2>13 DEF FlushUse, Begins
  <2>14. ASSUME NEW r \in Requests, Grant(r) PROVE Customers'
    BY <2>14 DEF Grant, Begins
  <2>15. ASSUME NEW r \in Requests, BeginReset(r) PROVE Customers'
    BY <2>15 DEF BeginReset, Begins
  <2>16. ASSUME NEW r \in Requests, FlushReset(r) PROVE Customers'
    BY <2>16 DEF FlushReset, Begins
  <2>17. ASSUME NEW r \in Requests, BeginChange(r) PROVE Customers'
    BY <2>17 DEF BeginChange, Begins
  <2>18. ASSUME NEW r \in Requests, FlushChange(r) PROVE Customers'
    BY <2>18 DEF FlushChange, Begins
  <2>19. ASSUME NEW r \in Requests, CreateProfile(r) PROVE Customers'
    BY <2>19 DEF CreateProfile, Begins
  <2>20. ASSUME NEW r \in Requests, BeginReview(r) PROVE Customers'
    BY <2>20 DEF BeginReview, Begins
  <2>21. ASSUME NEW r \in Requests, FlushReview(r) PROVE Customers'
    BY <2>21 DEF FlushReview, Begins
  <2>22. ASSUME NEW r \in Requests, BeginMember(r) PROVE Customers'
    BY <2>22 DEF BeginMember, Begins
  <2>23. ASSUME NEW r \in Requests, FlushMember(r) PROVE Customers'
    BY <2>23 DEF FlushMember, Begins
  <2>32. ASSUME NEW r \in Requests, BeginDelete(r) PROVE Customers'
    BY <2>32 DEF BeginDelete, Begins
  <2>33. ASSUME NEW r \in Requests, EndDelete(r) PROVE Customers'
    BY <2>33 DEF EndDelete, Begins
  <2>24. ASSUME NEW r \in Requests, BeginRemove(r) PROVE Customers'
    BY <2>24 DEF BeginRemove, Begins
  <2>25. ASSUME NEW r \in Requests, FlushRemove(r) PROVE Customers'
    BY <2>25 DEF FlushRemove, Begins
  <2>26. ASSUME NEW r \in Requests, Refuse(r) PROVE Customers'
    BY <2>26 DEF Refuse, Begins
  <2>27. ASSUME NEW r \in Requests, Interrupt(r) PROVE Customers'
    BY <2>27 DEF Interrupt, Begins
  <2>28. ASSUME NEW o \in codes, CodeAges(o) PROVE Customers'
    BY <2>28 DEF CodeAges, Begins
  <2>29. ASSUME TokenExpires PROVE Customers'
    BY <2>29 DEF TokenExpires, Begins
  <2>30. CASE UNCHANGED vars
    BY <2>30 DEF vars
  <2> HIDE DEF TypeOK, Customers, Places, Labels, Goto, Is, OfUser, OfSquare, OfCodes
  <2>31. QED
    BY <2>1, <2>2, <2>3, <2>4, <2>5, <2>6, <2>7, <2>8, <2>9, <2>10, <2>11, <2>12,
       <2>13, <2>14, <2>15, <2>16, <2>17, <2>18, <2>19, <2>20, <2>21, <2>22, <2>23,
       <2>24, <2>25, <2>26, <2>27, <2>28, <2>29, <2>30, <2>32, <2>33 DEF Next
<1>3. QED
  BY <1>1, <1>2, TypeCorrect, PlacesHold, PTL DEF Spec

\* Ids and tokens are made once.
LEMMA TokensHold == Spec => []Tokens
<1> USE AccountsAssumption
<1>1. Init => Tokens
  <2> SUFFICES ASSUME Init PROVE Tokens
    OBVIOUS
  <2>1. /\ user.by \notin Requests /\ user.token = "none" /\ ~user.tokenLive
    BY InsertingOriginal, InsertingNobody DEF Init
  <2>2. \A r \in Requests : /\ copy[r].by \notin Requests /\ copy[r].token \notin Requests
                            /\ pc[r] \notin {"reset", "done"}
    BY InsertingNobody DEF Init
  <2>3. Named(user) /\ \A r \in Requests : Named(copy[r])
    BY <2>1, <2>2 DEF Named
  <2>4. SpentTokenIsGone
    <3>1. \A r \in Requests : pc[r] # "done"
      BY <2>2
    <3>2. QED
      BY ONLY <3>1 DEF SpentTokenIsGone
  <2>5. QED
    BY <2>1, <2>2, <2>3, <2>4 DEF Tokens
<1>2. TypeOK /\ Places /\ Tokens /\ [Next]_vars => Tokens'
  <2> SUFFICES ASSUME TypeOK, Places, Tokens, [Next]_vars PROVE Tokens'
    OBVIOUS
  <2> USE DEF TypeOK, Tokens, Named, SpentTokenIsGone, Places, Labels, Goto, Is, UserRow, Writer
  <2>1. ASSUME NEW r \in Requests, BeginSignup(r) PROVE Tokens'
    BY <2>1 DEF BeginSignup, Begins, OfUser
  <2>2. ASSUME NEW r \in Requests, SquareAnswers(r) PROVE Tokens'
    BY <2>2 DEF SquareAnswers, Begins, OfUser
  <2>3. ASSUME NEW r \in Requests, InsertUser(r) PROVE Tokens'
    <3>1. CASE user' = user
      BY <2>3, <3>1 DEF InsertUser, Begins
    <3>2. CASE user'.by = r /\ user'.token = "none" /\ ~user'.tokenLive /\ pc'[r] \in {"await", "done"}
      <4>1. /\ pc[r] \in {"idle", "insert"} /\ ~Is(r, "reset") /\ UNCHANGED copy
            /\ \A q \in Requests \ {r} : pc'[q] = pc[q]
        BY <2>3 DEF InsertUser, Begins
      <4>2. \A q \in Requests : copy[q].by # r /\ copy[q].token # r
        BY <4>1
      <4>3. QED
        BY <3>2, <4>1, <4>2
    <3>3. CASE ~Exists
      <4>1. user' = NewUser(r) /\ pc'[r] = "await"
        BY <2>3, <3>3 DEF InsertUser
      <4>2. QED
        BY <3>2, <4>1, Inserting
    <3>4. QED
      BY <2>3, <3>1, <3>2, <3>3 DEF InsertUser
  <2>4. ASSUME NEW r \in Requests, AwaitSquare(r) PROVE Tokens'
    BY <2>4 DEF AwaitSquare, Begins, OfUser
  <2>5. ASSUME NEW r \in Requests, SaveCustomer(r) PROVE Tokens'
    BY <2>5 DEF SaveCustomer, Begins, OfUser
  <2>6. ASSUME NEW r \in Requests, Cleanup(r) PROVE Tokens'
    BY <2>6 DEF Cleanup, Begins, OfUser
  <2>7. ASSUME NEW r \in Requests, DropCustomer(r) PROVE Tokens'
    BY <2>7 DEF DropCustomer, Begins, OfUser
  <2>8. ASSUME NEW r \in Requests, BeginCode(r) PROVE Tokens'
    BY <2>8 DEF BeginCode, Begins, OfUser
  <2>9. ASSUME NEW r \in Requests, WipeCodes(r) PROVE Tokens'
    BY <2>9 DEF WipeCodes, Begins, OfUser
  <2>10. ASSUME NEW r \in Requests, WriteCode(r) PROVE Tokens'
    <3>1. pc[r] = "write" /\ pc' = [pc EXCEPT ![r] = "done"] /\ UNCHANGED <<user, copy>>
      BY <2>10 DEF WriteCode, OfUser
    <3>2. QED
      BY <3>1
  <2>11. ASSUME NEW r \in Requests, BeginVerify(r) PROVE Tokens'
    <3>1. \E label \in {"told", "use", "miss"} : pc' = [pc EXCEPT ![r] = label]
      BY <2>11 DEF BeginVerify
    <3>2. pc[r] = "idle" /\ UNCHANGED <<user, copy>>
      BY <2>11 DEF BeginVerify, Begins, OfUser
    <3>3. QED
      BY <3>1, <3>2
  <2>12. ASSUME NEW r \in Requests, FlushMiss(r) PROVE Tokens'
    <3>1. pc' = [pc EXCEPT ![r] = "told"] /\ UNCHANGED <<user, copy>> /\ pc[r] = "miss"
      BY Zenon, <2>12 DEF FlushMiss, OfUser
    <3>2. QED
      BY <3>1
  <2>13. ASSUME NEW r \in Requests, FlushUse(r) PROVE Tokens'
    <3>1. pc[r] = "use" /\ pc' = [pc EXCEPT ![r] = "grant"] /\ UNCHANGED <<user, copy>>
      BY <2>13 DEF FlushUse, OfUser
    <3>2. QED
      BY <3>1
  <2>14. ASSUME NEW r \in Requests, Grant(r) PROVE Tokens'
    BY <2>14 DEF Grant, Begins, OfUser
  <2>15. ASSUME NEW r \in Requests, BeginReset(r) PROVE Tokens'
    BY <2>15 DEF BeginReset, Begins, Exists
  <2>16. ASSUME NEW r \in Requests, FlushReset(r) PROVE Tokens'
    <3>1. /\ pc' = [pc EXCEPT ![r] = "done"] /\ UNCHANGED copy /\ pc[r] = "reset"
      BY <2>16 DEF FlushReset
    <3>2. CASE user.by = copy[r].by
      <4>1. user'.by = user.by /\ user'.token = "none" /\ ~user'.tokenLive
        BY <2>16, <3>2 DEF FlushReset, AfterReset
      <4>2. \A q \in Requests : pc'[q] = "done" /\ Is(q, "reset") =>
               user'.token # copy'[q].token \/ user'.by # copy'[q].by
        <5>1. TAKE q \in Requests
        <5>2. CASE q = r
          BY <3>1, <4>1, <5>2
        <5>3. CASE q # r /\ copy[q].token # "none"
          BY <3>1, <4>1, <5>3
        <5>4. CASE q # r /\ copy[q].token = "none"
          BY <3>1, <3>2, <4>1, <5>4
        <5>5. QED
          BY <5>2, <5>3, <5>4
      <4>3. QED
        BY <3>1, <4>1, <4>2
    <3>3. CASE user.by # copy[r].by
      <4>1. UNCHANGED user
        BY <2>16, <3>3 DEF FlushReset
      <4>2. QED
        BY <3>1, <3>3, <4>1
    <3>4. QED
      BY <3>2, <3>3
  <2>17. ASSUME NEW r \in Requests, BeginChange(r) PROVE Tokens'
    BY <2>17 DEF BeginChange, Begins, OfUser
  <2>18. ASSUME NEW r \in Requests, FlushChange(r) PROVE Tokens'
    BY <2>18 DEF FlushChange, Begins, OfUser
  <2>19. ASSUME NEW r \in Requests, CreateProfile(r) PROVE Tokens'
    <3>1. PICK a \in Asked :
             /\ a.role # "none" /\ a.given
             /\ IF Exists \/ (a.role = "USER" /\ a.permissions = {})
                   THEN Goto(r, "told") /\ UNCHANGED user
                   ELSE Goto(r, "done") /\ user' = NewProfile(r, a)
      BY <2>19 DEF CreateProfile
    <3>2. /\ pc[r] = "idle" /\ ~Is(r, "reset") /\ UNCHANGED copy
      BY <2>19 DEF CreateProfile, Begins
    <3>3. CASE Goto(r, "told") /\ UNCHANGED user
      BY <3>2, <3>3
    <3>4. CASE Goto(r, "done") /\ user' = NewProfile(r, a)
      <4>1. user'.by = r /\ user'.token = "none" /\ ~user'.tokenLive
        BY <3>1, <3>4, InsertingAsked
      <4>2. \A q \in Requests : copy[q].by # r /\ copy[q].token # r
        BY <3>2
      <4>3. QED
        BY <3>2, <3>4, <4>1, <4>2
    <3>5. QED
      BY <3>1, <3>3, <3>4
  <2>20. ASSUME NEW r \in Requests, BeginReview(r) PROVE Tokens'
    BY <2>20 DEF BeginReview, Begins, OfUser
  <2>21. ASSUME NEW r \in Requests, FlushReview(r) PROVE Tokens'
    BY <2>21 DEF FlushReview, Begins, OfUser
  <2>22. ASSUME NEW r \in Requests, BeginMember(r) PROVE Tokens'
    BY <2>22 DEF BeginMember, Begins, OfUser
  <2>23. ASSUME NEW r \in Requests, FlushMember(r) PROVE Tokens'
    <3>1. /\ pc[r] = "flush" /\ UNCHANGED copy
          /\ \E label \in {"done", "told"} : pc' = [pc EXCEPT ![r] = label]
      BY <2>23, Flushing
    <3>2. user'.by = user.by /\ user'.token = user.token /\ user'.tokenLive = user.tokenLive
      BY <2>23, EditedType, Flushing
    <3>3. QED
      BY <3>1, <3>2
  <2>32. ASSUME NEW r \in Requests, BeginDelete(r) PROVE Tokens'
    BY <2>32 DEF BeginDelete, Begins, OfUser
  <2>33. ASSUME NEW r \in Requests, EndDelete(r) PROVE Tokens'
    BY <2>33 DEF EndDelete, Begins, OfUser
  <2>24. ASSUME NEW r \in Requests, BeginRemove(r) PROVE Tokens'
    BY <2>24 DEF BeginRemove, Begins, OfUser
  <2>25. ASSUME NEW r \in Requests, FlushRemove(r) PROVE Tokens'
    <3>1. /\ pc' = [pc EXCEPT ![r] = "done"] /\ UNCHANGED copy /\ pc[r] = "remove"
      BY <2>25 DEF FlushRemove
    <3>2. CASE user' = user
      BY <3>1, <3>2
    <3>3. CASE user' = NoUser
      <4>1. user'.by = "none" /\ user'.token = "none" /\ ~user'.tokenLive
        BY <3>3, InsertingNobody
      <4>2. QED
        BY <3>1, <4>1
    <3>4. QED
      BY <2>25, <3>2, <3>3 DEF FlushRemove
  <2>26. ASSUME NEW r \in Requests, Refuse(r) PROVE Tokens'
    BY <2>26 DEF Refuse, Begins, OfUser
  <2>27. ASSUME NEW r \in Requests, Interrupt(r) PROVE Tokens'
    BY <2>27 DEF Interrupt, Begins, OfUser
  <2>28. ASSUME NEW o \in codes, CodeAges(o) PROVE Tokens'
    BY <2>28 DEF CodeAges, Begins, OfUser
  <2>29. ASSUME TokenExpires PROVE Tokens'
    BY <2>29 DEF TokenExpires, Begins, OfUser
  <2>30. CASE UNCHANGED vars
    BY <2>30 DEF vars
  <2> HIDE DEF TypeOK, Tokens, Named, SpentTokenIsGone, Places, Labels, Goto, Is, UserRow,
              Writer
  <2>31. QED
    BY <2>1, <2>2, <2>3, <2>4, <2>5, <2>6, <2>7, <2>8, <2>9, <2>10, <2>11, <2>12,
       <2>13, <2>14, <2>15, <2>16, <2>17, <2>18, <2>19, <2>20, <2>21, <2>22, <2>23,
       <2>24, <2>25, <2>26, <2>27, <2>28, <2>29, <2>30, <2>32, <2>33 DEF Next
<1>3. QED
  BY <1>1, <1>2, TypeCorrect, PlacesHold, PTL DEF Spec

\* Guesses are counted by handlers that found the code open.
LEMMA GuessesHold == Spec => []Guesses
<1> USE AccountsAssumption
<1>1. Init => Guesses
  BY DEF Init, Guesses, GuessesAreCounted
<1>2. TypeOK /\ Guesses /\ [Next]_vars => Guesses'
  <2> SUFFICES ASSUME TypeOK, Guesses, [Next]_vars PROVE Guesses'
    OBVIOUS
  <2> USE DEF TypeOK, Guesses, GuessesAreCounted, Goto, CodeRow, Begins
  <2>1. ASSUME NEW r \in Requests, BeginSignup(r) PROVE Guesses'
    BY <2>1 DEF BeginSignup, OfCodes
  <2>2. ASSUME NEW r \in Requests, SquareAnswers(r) PROVE Guesses'
    BY <2>2 DEF SquareAnswers, OfCodes
  <2>3. ASSUME NEW r \in Requests, InsertUser(r) PROVE Guesses'
    BY <2>3 DEF InsertUser, OfCodes
  <2>4. ASSUME NEW r \in Requests, AwaitSquare(r) PROVE Guesses'
    BY <2>4 DEF AwaitSquare, OfCodes
  <2>5. ASSUME NEW r \in Requests, SaveCustomer(r) PROVE Guesses'
    BY <2>5 DEF SaveCustomer, OfCodes
  <2>6. ASSUME NEW r \in Requests, Cleanup(r) PROVE Guesses'
    BY <2>6 DEF Cleanup, OfCodes
  <2>7. ASSUME NEW r \in Requests, DropCustomer(r) PROVE Guesses'
    BY <2>7 DEF DropCustomer, OfCodes
  <2>8. ASSUME NEW r \in Requests, BeginCode(r) PROVE Guesses'
    BY <2>8 DEF BeginCode, OfCodes
  <2>9. ASSUME NEW r \in Requests, WipeCodes(r) PROVE Guesses'
    BY <2>9 DEF WipeCodes, OfCodes
  <2>10. ASSUME NEW r \in Requests, WriteCode(r) PROVE Guesses'
    BY <2>10 DEF WriteCode, NewCode
  <2>11. ASSUME NEW r \in Requests, BeginVerify(r) PROVE Guesses'
    BY <2>11 DEF BeginVerify, Begins
  <2>12. ASSUME NEW r \in Requests, FlushMiss(r) PROVE Guesses'
    <3>1. pc[r] = "miss" /\ ~code[r].blocked /\ UNCHANGED code
      BY Zenon, <2>12 DEF FlushMiss
    <3>2. codes' = {IF o.by # code[r].by \/ o.purpose # code[r].purpose THEN o
                    ELSE Counted(o, code[r]) : o \in codes}
      BY Zenon, <2>12 DEF FlushMiss, Counted
    <3>3. \A q \in Requests : pc'[q] = "miss" => ~code'[q].blocked
      <4>1. pc' = [pc EXCEPT ![r] = "told"] /\ UNCHANGED code
        BY Zenon, <2>12 DEF FlushMiss
      <4>2. QED
        BY <4>1
    <3> HIDE DEF CodeRow
    <3>4. ASSUME NEW o \in codes PROVE Sound(o) /\ Sound(Counted(o, code[r]))
      <4>1. o \in CodeRow /\ code[r] \in CodeRow /\ o.retries < MaxRetries
        OBVIOUS
      <4>2. Sound(o)
        BY DEF Sound
      <4>3. QED
        BY <3>1, <4>1, <4>2, CountedSound
    <3>5. ASSUME NEW o \in codes' PROVE Sound(o)
      <4>1. PICK c \in codes : o = c \/ o = Counted(c, code[r])
        BY <3>2
      <4>2. QED
        BY <3>4, <4>1
    <3>6. QED
      BY <3>3, <3>5 DEF Sound
  <2>13. ASSUME NEW r \in Requests, FlushUse(r) PROVE Guesses'
    <3>1. codes' = {IF o.by # code[r].by \/ o.purpose # code[r].purpose THEN o
                    ELSE [o EXCEPT !.used = TRUE] : o \in codes}
      BY <2>13 DEF FlushUse
    <3>2. \A q \in Requests : pc'[q] = "miss" => ~code'[q].blocked
      BY <2>13 DEF FlushUse
    <3> HIDE DEF CodeRow
    <3>3. ASSUME NEW o \in codes PROVE Sound(o) /\ Sound([o EXCEPT !.used = TRUE])
      <4>1. o \in CodeRow /\ Sound(o)
        BY DEF Sound
      <4>2. QED
        BY <4>1, KeptSound
    <3>4. ASSUME NEW o \in codes' PROVE Sound(o)
      <4>1. PICK c \in codes : o = c \/ o = [c EXCEPT !.used = TRUE]
        BY ONLY <3>1, o \in codes'
      <4>2. Sound(c) /\ Sound([c EXCEPT !.used = TRUE])
        BY <3>3
      <4>3. QED
        BY ONLY <4>1, <4>2
    <3>5. QED
      BY <3>2, <3>4 DEF Sound
  <2>14. ASSUME NEW r \in Requests, Grant(r) PROVE Guesses'
    BY <2>14 DEF Grant, OfCodes
  <2>15. ASSUME NEW r \in Requests, BeginReset(r) PROVE Guesses'
    BY <2>15 DEF BeginReset, OfCodes
  <2>16. ASSUME NEW r \in Requests, FlushReset(r) PROVE Guesses'
    BY <2>16 DEF FlushReset, OfCodes
  <2>17. ASSUME NEW r \in Requests, BeginChange(r) PROVE Guesses'
    BY <2>17 DEF BeginChange, OfCodes
  <2>18. ASSUME NEW r \in Requests, FlushChange(r) PROVE Guesses'
    BY <2>18 DEF FlushChange, OfCodes
  <2>19. ASSUME NEW r \in Requests, CreateProfile(r) PROVE Guesses'
    BY <2>19 DEF CreateProfile, OfCodes
  <2>20. ASSUME NEW r \in Requests, BeginReview(r) PROVE Guesses'
    BY <2>20 DEF BeginReview, OfCodes
  <2>21. ASSUME NEW r \in Requests, FlushReview(r) PROVE Guesses'
    BY <2>21 DEF FlushReview, OfCodes
  <2>22. ASSUME NEW r \in Requests, BeginMember(r) PROVE Guesses'
    BY <2>22 DEF BeginMember, OfCodes
  <2>23. ASSUME NEW r \in Requests, FlushMember(r) PROVE Guesses'
    BY <2>23 DEF FlushMember, OfCodes
  <2>32. ASSUME NEW r \in Requests, BeginDelete(r) PROVE Guesses'
    BY <2>32 DEF BeginDelete, OfCodes
  <2>33. ASSUME NEW r \in Requests, EndDelete(r) PROVE Guesses'
    BY <2>33 DEF EndDelete, OfCodes
  <2>24. ASSUME NEW r \in Requests, BeginRemove(r) PROVE Guesses'
    BY <2>24 DEF BeginRemove, OfCodes
  <2>25. ASSUME NEW r \in Requests, FlushRemove(r) PROVE Guesses'
    BY <2>25 DEF FlushRemove, OfCodes
  <2>26. ASSUME NEW r \in Requests, Refuse(r) PROVE Guesses'
    BY <2>26 DEF Refuse, OfCodes
  <2>27. ASSUME NEW r \in Requests, Interrupt(r) PROVE Guesses'
    BY <2>27 DEF Interrupt, OfCodes
  <2>28. ASSUME NEW o \in codes, CodeAges(o) PROVE Guesses'
    <3> DEFINE v == IF o.fresh THEN [o EXCEPT !.fresh = FALSE] ELSE [o EXCEPT !.expired = TRUE]
    <3>1. codes' = (codes \ {o}) \cup {v} /\ UNCHANGED <<pc, code>>
      BY <2>28 DEF CodeAges, OfCodes
    <3> HIDE DEF CodeRow
    <3>2. \A c \in codes : c \in CodeRow /\ Sound(c)
      BY DEF Sound
    <3>3. Sound(v)
      BY <3>2, KeptSound
    <3> HIDE DEF v
    <3>4. \A c \in codes' : Sound(c)
      BY <3>1, <3>2, <3>3
    <3>5. QED
      BY <3>1, <3>4 DEF Sound
  <2>29. ASSUME TokenExpires PROVE Guesses'
    BY <2>29 DEF TokenExpires, OfCodes
  <2>30. CASE UNCHANGED vars
    BY <2>30 DEF vars
  <2> HIDE DEF TypeOK, Guesses, GuessesAreCounted, Goto, CodeRow, Begins
  <2>31. QED
    BY <2>1, <2>2, <2>3, <2>4, <2>5, <2>6, <2>7, <2>8, <2>9, <2>10, <2>11, <2>12,
       <2>13, <2>14, <2>15, <2>16, <2>17, <2>18, <2>19, <2>20, <2>21, <2>22, <2>23,
       <2>24, <2>25, <2>26, <2>27, <2>28, <2>29, <2>30, <2>32, <2>33 DEF Next
<1>3. QED
  BY <1>1, <1>2, TypeCorrect, PTL DEF Spec

\* No sign-up that was refused leaves a customer at Square that it was told
\* of and that Square would delete, for any number of sign-ups that overlap,
\* whichever of the insert and the call to Square fails last (signup).
THEOREM NoCustomerStranded == Spec => []NoStrandedCustomer
<1>1. Customers => NoStrandedCustomer
  BY DEF Customers, NoStrandedCustomer
<1>2. QED
  BY <1>1, CustomersHold, PTL

\* A reset spends its token for good, whatever codes are verified and users
\* replaced meanwhile.
THEOREM TokenSpent == Spec => []SpentTokenIsGone
<1>1. Tokens => SpentTokenIsGone
  BY DEF Tokens
<1>2. QED
  BY <1>1, TokensHold, PTL

\* A code is blocked at the limit and counts what is below it, for every
\* limit, unless two guesses were counted from the same number.
THEOREM GuessesCounted == Spec => []GuessesAreCounted
<1>1. Guesses => GuessesAreCounted
  BY DEF Guesses
<1>2. QED
  BY <1>1, GuessesHold, PTL

----------------------------------------------------------------------------
(* Codes, when the requests that would race for one arrive in turn          *)

\* No request ends twice, or comes to write a code or to count a guess.
Apart ==
    \A r \in Requests :
        pc'[r] = pc[r] \/ (pc[r] # "done" /\ pc'[r] \notin {"write", "miss"})

\* A step that leaves the codes, and what is known of them, alone.
Elsewhere == UNCHANGED <<codes, code>> /\ Apart

\* The steps that do not are OtpService's, and time.
CodeStep ==
    \/ \E r \in Requests :
          WipeCodes(r) \/ WriteCode(r) \/ BeginVerify(r) \/ FlushMiss(r) \/ FlushUse(r)
    \/ \E o \in codes : CodeAges(o)

\* Every other step leaves them alone.
LEMMA CodeSteps == TypeOK /\ [Next]_vars => Elsewhere \/ CodeStep
<1> SUFFICES ASSUME TypeOK, [Next]_vars PROVE Elsewhere \/ CodeStep
  OBVIOUS
<1>1. pc \in [Requests -> Pc]
  BY DEF TypeOK
<1> USE DEF Elsewhere, Apart, Goto, Begins
<1>2. ASSUME NEW r \in Requests, BeginSignup(r) PROVE Elsewhere
  BY <1>1, <1>2 DEF BeginSignup, OfCodes
<1>3. ASSUME NEW r \in Requests, SquareAnswers(r) PROVE Elsewhere
  BY <1>1, <1>3 DEF SquareAnswers, OfCodes
<1>4. ASSUME NEW r \in Requests, InsertUser(r) PROVE Elsewhere
  BY <1>1, <1>4 DEF InsertUser, OfCodes
<1>5. ASSUME NEW r \in Requests, AwaitSquare(r) PROVE Elsewhere
  BY <1>1, <1>5 DEF AwaitSquare, OfCodes
<1>6. ASSUME NEW r \in Requests, SaveCustomer(r) PROVE Elsewhere
  BY <1>1, <1>6 DEF SaveCustomer, OfCodes
<1>7. ASSUME NEW r \in Requests, Cleanup(r) PROVE Elsewhere
  BY <1>1, <1>7 DEF Cleanup, OfCodes
<1>8. ASSUME NEW r \in Requests, DropCustomer(r) PROVE Elsewhere
  BY <1>1, <1>8 DEF DropCustomer, OfCodes
<1>9. ASSUME NEW r \in Requests, BeginCode(r) PROVE Elsewhere
  BY <1>1, <1>9 DEF BeginCode, OfCodes
<1>10. ASSUME NEW r \in Requests, Grant(r) PROVE Elsewhere
  BY <1>1, <1>10 DEF Grant, OfCodes
<1>11. ASSUME NEW r \in Requests, BeginReset(r) PROVE Elsewhere
  BY <1>1, <1>11 DEF BeginReset, OfCodes
<1>12. ASSUME NEW r \in Requests, FlushReset(r) PROVE Elsewhere
  BY <1>1, <1>12 DEF FlushReset, OfCodes
<1>13. ASSUME NEW r \in Requests, BeginChange(r) PROVE Elsewhere
  BY <1>1, <1>13 DEF BeginChange, OfCodes
<1>14. ASSUME NEW r \in Requests, FlushChange(r) PROVE Elsewhere
  BY <1>1, <1>14 DEF FlushChange, OfCodes
<1>15. ASSUME NEW r \in Requests, CreateProfile(r) PROVE Elsewhere
  BY <1>1, <1>15 DEF CreateProfile, OfCodes
<1>16. ASSUME NEW r \in Requests, BeginReview(r) PROVE Elsewhere
  BY <1>1, <1>16 DEF BeginReview, OfCodes
<1>17. ASSUME NEW r \in Requests, FlushReview(r) PROVE Elsewhere
  BY <1>1, <1>17 DEF FlushReview, OfCodes
<1>18. ASSUME NEW r \in Requests, BeginMember(r) PROVE Elsewhere
  BY <1>1, <1>18 DEF BeginMember, OfCodes
<1>19. ASSUME NEW r \in Requests, FlushMember(r) PROVE Elsewhere
  BY <1>1, <1>19, Flushing DEF OfCodes
<1>20. ASSUME NEW r \in Requests, BeginRemove(r) PROVE Elsewhere
  BY <1>1, <1>20 DEF BeginRemove, OfCodes
<1>21. ASSUME NEW r \in Requests, FlushRemove(r) PROVE Elsewhere
  BY <1>1, <1>21 DEF FlushRemove, OfCodes
<1>22. ASSUME NEW r \in Requests, Refuse(r) PROVE Elsewhere
  BY <1>1, <1>22 DEF Refuse, OfCodes
<1>23. ASSUME NEW r \in Requests, Interrupt(r) PROVE Elsewhere
  BY <1>1, <1>23 DEF Interrupt, OfCodes
<1>24. ASSUME TokenExpires PROVE Elsewhere
  BY <1>1, <1>24 DEF TokenExpires, OfCodes
<1>25. CASE UNCHANGED vars
  BY <1>1, <1>25 DEF vars
<1>27. ASSUME NEW r \in Requests, BeginDelete(r) PROVE Elsewhere
  BY <1>1, <1>27 DEF BeginDelete, OfCodes
<1>28. ASSUME NEW r \in Requests, EndDelete(r) PROVE Elsewhere
  BY <1>1, <1>28 DEF EndDelete, OfCodes
<1> HIDE DEF Elsewhere, Apart, Goto, Begins
<1>26. QED
  BY <1>2, <1>3, <1>4, <1>5, <1>6, <1>7, <1>8, <1>9, <1>10, <1>11, <1>12, <1>13,
     <1>14, <1>15, <1>16, <1>17, <1>18, <1>19, <1>20, <1>21, <1>22, <1>23,
     <1>24, <1>25, <1>27, <1>28 DEF Next, CodeStep

\* Row v is row o with columns written that do not tell which code it is.
SameCode(o, v) == v.by = o.by /\ v.purpose = o.purpose

\* A code stays the code it is when a guess, its use or its age is written.
LEMMA SameCodes ==
    ASSUME NEW o \in CodeRow, NEW c \in CodeRow
    PROVE  /\ SameCode(o, Counted(o, c))
           /\ SameCode(o, [o EXCEPT !.used = TRUE])
           /\ SameCode(o, [o EXCEPT !.fresh = FALSE])
           /\ SameCode(o, [o EXCEPT !.expired = TRUE])
<1>1. SameCode(o, Counted(o, c))
  <2> DEFINE retries == Missed(c).retries
             blocked == o.blocked \/ Missed(c).blocked
             misses == o.misses + 1
             raced == o.raced \/ o.retries # c.retries \/ o.blocked
  <2>1. Counted(o, c) = [o EXCEPT !.retries = retries, !.blocked = blocked,
                                  !.misses = misses, !.raced = raced]
    BY DEF Counted
  <2> HIDE DEF retries, blocked, misses, raced
  <2>2. QED
    BY <2>1 DEF SameCode, CodeRow
<1>2. QED
  BY <1>1 DEF SameCode, CodeRow

\* The code o once handler r has counted a wrong guess, or marked it as used.
AfterMiss(r, o) ==
    IF o.by # code[r].by \/ o.purpose # code[r].purpose THEN o ELSE Counted(o, code[r])

AfterUse(r, o) ==
    IF o.by # code[r].by \/ o.purpose # code[r].purpose THEN o ELSE [o EXCEPT !.used = TRUE]

\* The code o as time leaves it.
Aged(o) == IF o.fresh THEN [o EXCEPT !.fresh = FALSE] ELSE [o EXCEPT !.expired = TRUE]

\* A step that rewrites every code in place.
Rewritten ==
    /\ \E f \in [codes -> CodeRow] :
          /\ codes' = {f[o] : o \in codes}
          /\ \A o \in codes : SameCode(o, f[o])
    /\ UNCHANGED code
    /\ Apart

\* A wrong guess rewrites the code its handler has loaded, ...
LEMMA RewritesMiss ==
    ASSUME TypeOK, NEW r \in Requests, FlushMiss(r)
    PROVE  Rewritten /\ codes' = {AfterMiss(r, o) : o \in codes}
<1> DEFINE f == [o \in codes |-> AfterMiss(r, o)]
<1>1. codes' = {AfterMiss(r, o) : o \in codes} /\ UNCHANGED code
  BY Zenon DEF FlushMiss, Counted, AfterMiss
<1>2. pc[r] = "miss" /\ pc' = [pc EXCEPT ![r] = "told"]
  BY Zenon DEF FlushMiss, Goto
<1>3. ASSUME NEW o \in codes PROVE AfterMiss(r, o) \in CodeRow /\ SameCode(o, AfterMiss(r, o))
  <2>1. o \in CodeRow /\ code[r] \in CodeRow
    BY DEF TypeOK
  <2>2. Counted(o, code[r]) \in CodeRow /\ SameCode(o, Counted(o, code[r])) /\ SameCode(o, o)
    BY <2>1, Counting, SameCodes DEF SameCode
  <2>3. QED
    BY <2>1, <2>2 DEF AfterMiss
<1>4. /\ f \in [codes -> CodeRow]
      /\ codes' = {f[o] : o \in codes}
      /\ \A o \in codes : SameCode(o, f[o])
  BY <1>1, <1>3
<1> HIDE DEF f
<1>5. Apart
  BY <1>2 DEF TypeOK, Apart
<1>6. QED
  BY <1>1, <1>4, <1>5 DEF Rewritten

\* ... a right one does, ...
LEMMA RewritesUse ==
    ASSUME TypeOK, NEW r \in Requests, FlushUse(r)
    PROVE  Rewritten /\ codes' = {AfterUse(r, o) : o \in codes}
<1> DEFINE f == [o \in codes |-> AfterUse(r, o)]
<1>1. codes' = {AfterUse(r, o) : o \in codes} /\ UNCHANGED code
  BY Zenon DEF FlushUse, AfterUse
<1>2. pc[r] = "use" /\ pc' = [pc EXCEPT ![r] = "grant"]
  BY Zenon DEF FlushUse, Goto
<1>3. ASSUME NEW o \in codes PROVE AfterUse(r, o) \in CodeRow /\ SameCode(o, AfterUse(r, o))
  <2>1. o \in CodeRow
    BY DEF TypeOK
  <2>2. [o EXCEPT !.used = TRUE] \in CodeRow /\ SameCode(o, [o EXCEPT !.used = TRUE]) /\ SameCode(o, o)
    BY <2>1, Stamping, SameCodes DEF SameCode
  <2>3. QED
    BY <2>1, <2>2 DEF AfterUse
<1>4. /\ f \in [codes -> CodeRow]
      /\ codes' = {f[o] : o \in codes}
      /\ \A o \in codes : SameCode(o, f[o])
  BY <1>1, <1>3
<1> HIDE DEF f
<1>5. Apart
  BY <1>2 DEF TypeOK, Apart
<1>6. QED
  BY <1>1, <1>4, <1>5 DEF Rewritten

\* ... and so does time.
LEMMA RewritesAged ==
    ASSUME TypeOK, NEW o \in codes, CodeAges(o)
    PROVE  Rewritten /\ codes' = (codes \ {o}) \cup {Aged(o)}
<1> DEFINE f == [c \in codes |-> IF c = o THEN Aged(o) ELSE c]
<1>1. codes' = (codes \ {o}) \cup {Aged(o)} /\ UNCHANGED <<code, pc>>
  BY Zenon DEF CodeAges, Aged
<1>2. \A c \in codes : c \in CodeRow
  BY DEF TypeOK
<1>3. Aged(o) \in CodeRow /\ SameCode(o, Aged(o))
  BY <1>2, Stamping, SameCodes DEF Aged
<1> HIDE DEF CodeRow
<1>4. /\ f \in [codes -> CodeRow]
      /\ codes' = {f[c] : c \in codes}
      /\ \A c \in codes : SameCode(c, f[c])
  BY <1>1, <1>2, <1>3 DEF SameCode
<1> HIDE DEF f
<1>5. Apart
  BY <1>1 DEF Apart
<1>6. QED
  BY <1>1, <1>4, <1>5 DEF Rewritten

\* A code is known by the request that sent it, which is done, so that no
\* other code takes its place under a handler that has loaded it.
Sent ==
    /\ \A o \in codes : o.by \in Requests /\ pc[o.by] = "done"
    /\ \A o, c \in codes : o.by = c.by => o = c
    /\ \A r \in Requests : pc[r] = "miss" => code[r].by \in Requests /\ pc[code[r].by] = "done"

\* What a verification that goes on to count a wrong guess has found.
LEMMA Verifying ==
    ASSUME TypeOK, NEW r \in Requests, BeginVerify(r)
    PROVE  /\ pc[r] = "idle"
           /\ UNCHANGED codes
           /\ pc'[r] \in {"told", "use", "miss"}
           /\ \A q \in Requests : q # r => pc'[q] = pc[q] /\ code'[q] = code[q]
           /\ pc'[r] = "miss" => code'[r] \in codes /\ ~code'[r].blocked
<1> USE DEF BeginVerify, Begins, Goto, TypeOK
<1>1. pc[r] = "idle" /\ UNCHANGED codes
  OBVIOUS
<1> DEFINE unused == {o \in codes : o.purpose = PurposeOf[r] /\ ~o.used}
<1>2. \/ pc' = [pc EXCEPT ![r] = "told"] /\ UNCHANGED code
      \/ \E o \in unused, label \in {"use", "miss"} :
            ~o.blocked /\ pc' = [pc EXCEPT ![r] = label] /\ code' = [code EXCEPT ![r] = o]
  OBVIOUS
<1> HIDE DEF BeginVerify, Begins, Goto
<1>3. QED
  BY <1>1, <1>2

\* Codes come one from each request, and only requests that are done have
\* sent one.
LEMMA SentHolds == Spec => []Sent
<1> USE AccountsAssumption
<1>1. Init => Sent
  <2>1. Init => codes = {} /\ \A r \in Requests : pc[r] \in {"idle", "absent"}
    BY DEF Init
  <2>2. QED
    BY <2>1 DEF Sent
<1>2. TypeOK /\ Sent /\ [Next]_vars => Sent'
  <2> SUFFICES ASSUME TypeOK, Sent, [Next]_vars PROVE Sent'
    OBVIOUS
  <2>1. ASSUME Elsewhere PROVE Sent'
    BY <2>1 DEF Elsewhere, Apart, Sent
  <2>2. ASSUME Rewritten PROVE Sent'
    <3>1. PICK f \in [codes -> CodeRow] :
             /\ codes' = {f[o] : o \in codes}
             /\ \A o \in codes : f[o].by = o.by
      BY <2>2 DEF Rewritten, SameCode
    <3>2. UNCHANGED code /\ \A r \in Requests :
             /\ pc[r] = "done" => pc'[r] = "done"
             /\ pc'[r] = "miss" => pc[r] = "miss"
      BY <2>2 DEF Rewritten, Apart
    <3>3. \A v \in codes' : v.by \in Requests /\ pc'[v.by] = "done"
      BY <3>1, <3>2 DEF Sent
    <3>4. \A v, w \in codes' : v.by = w.by => v = w
      BY <3>1 DEF Sent
    <3>5. QED
      BY <3>2, <3>3, <3>4 DEF Sent
  <2>3. ASSUME NEW r \in Requests, WipeCodes(r) PROVE Sent'
    <3>1. codes' \subseteq codes /\ UNCHANGED code
          /\ pc[r] = "wipe" /\ pc' = [pc EXCEPT ![r] = "write"]
      BY <2>3 DEF WipeCodes, Goto
    <3>2. QED
      BY <3>1 DEF Sent, TypeOK
  <2>4. ASSUME NEW r \in Requests, WriteCode(r) PROVE Sent'
    <3>1. /\ codes' = codes \cup {NewCode(r, PurposeOf[r])} /\ UNCHANGED code
          /\ pc[r] = "write" /\ pc' = [pc EXCEPT ![r] = "done"]
      BY <2>4 DEF WriteCode, Goto
    <3> DEFINE new == NewCode(r, PurposeOf[r])
    <3>2. new.by = r
      BY DEF NewCode
    <3> HIDE DEF new
    <3>3. codes' = codes \cup {new}
      BY <3>1 DEF new
    <3>4. \A o \in codes : o.by # r
      BY <3>1 DEF Sent
    <3>5. QED
      BY <3>1, <3>2, <3>3, <3>4 DEF Sent, TypeOK
  <2>5. ASSUME NEW r \in Requests, BeginVerify(r) PROVE Sent'
    BY <2>5, Verifying DEF Sent
  <2>6. QED
    BY <2>1, <2>2, <2>3, <2>4, <2>5, CodeSteps, RewritesMiss, RewritesUse, RewritesAged
       DEF CodeStep
<1>3. QED
  BY <1>1, <1>2, TypeCorrect, PTL DEF Spec

----------------------------------------------------------------------------
\* Requests for a code of one purpose arrive in turn: the delete and the
\* insert of one are not cut in two by another (otp.service.ts, sendOtp).
CodesInTurn ==
    \A r, s \in Requests :
        /\ pc[r] \in {"wipe", "write"} /\ pc[s] \in {"wipe", "write"}
        /\ PurposeOf[r] = PurposeOf[s]
        => r = s

\* No two codes of one purpose exist.
OneCode == \A o, c \in codes : o.purpose = c.purpose => o = c

\* A request about to write a code has deleted the others.
OneCodeInv ==
    /\ OneCode
    /\ \A r \in Requests : pc[r] = "write" => \A o \in codes : o.purpose # PurposeOf[r]

\* When requests for codes do not overlap, an address has at most one code of
\* a purpose, whatever is guessed, used or expires meanwhile: the row that a
\* verification finds is the one that was sent last (OtpService).
THEOREM OneCodeAtATime == Spec /\ []CodesInTurn => []OneCode
<1>1. Init => OneCodeInv
  <2>1. Init => codes = {} /\ \A r \in Requests : pc[r] \in {"idle", "absent"}
    BY DEF Init
  <2>2. QED
    BY <2>1 DEF OneCodeInv, OneCode
<1>2. TypeOK /\ CodesInTurn /\ OneCodeInv /\ [Next]_vars => OneCodeInv'
  <2> SUFFICES ASSUME TypeOK, CodesInTurn, OneCodeInv, [Next]_vars PROVE OneCodeInv'
    OBVIOUS
  <2>1. ASSUME Elsewhere PROVE OneCodeInv'
    BY <2>1 DEF Elsewhere, Apart, OneCodeInv, OneCode
  <2>2. ASSUME Rewritten PROVE OneCodeInv'
    <3>1. PICK f \in [codes -> CodeRow] :
             /\ codes' = {f[o] : o \in codes}
             /\ \A o \in codes : f[o].purpose = o.purpose
      BY <2>2 DEF Rewritten, SameCode
    <3>2. \A r \in Requests : pc'[r] = "write" => pc[r] = "write"
      BY <2>2 DEF Rewritten, Apart
    <3>3. \A v, w \in codes' : v.purpose = w.purpose => v = w
      BY <3>1 DEF OneCodeInv, OneCode
    <3>4. \A r \in Requests : pc'[r] = "write" => \A v \in codes' : v.purpose # PurposeOf[r]
      BY <3>1, <3>2 DEF OneCodeInv
    <3>5. QED
      BY <3>3, <3>4 DEF OneCodeInv, OneCode
  <2>3. ASSUME NEW r \in Requests, WipeCodes(r) PROVE OneCodeInv'
    <3>1. /\ codes' = {o \in codes : o.purpose # PurposeOf[r]}
          /\ pc' = [pc EXCEPT ![r] = "write"]
      BY <2>3 DEF WipeCodes, Goto
    <3>2. QED
      BY <3>1 DEF OneCodeInv, OneCode, TypeOK
  <2>4. ASSUME NEW r \in Requests, WriteCode(r) PROVE OneCodeInv'
    <3> DEFINE new == NewCode(r, PurposeOf[r])
    <3>1. /\ codes' = codes \cup {new}
          /\ pc[r] = "write" /\ pc' = [pc EXCEPT ![r] = "done"]
      BY <2>4 DEF WriteCode, Goto
    <3>2. new.purpose = PurposeOf[r]
      BY DEF NewCode
    <3> HIDE DEF new
    <3>3. \A o \in codes : o.purpose # new.purpose
      BY <3>1, <3>2 DEF OneCodeInv
    <3>4. \A s \in Requests : pc'[s] = "write" => pc[s] = "write" /\ PurposeOf[s] # PurposeOf[r]
      BY <3>1 DEF CodesInTurn, TypeOK
    <3>5. QED
      BY <3>1, <3>2, <3>3, <3>4 DEF OneCodeInv, OneCode
  <2>5. ASSUME NEW r \in Requests, BeginVerify(r) PROVE OneCodeInv'
    BY <2>5, Verifying DEF OneCodeInv, OneCode
  <2>6. QED
    BY <2>1, <2>2, <2>3, <2>4, <2>5, CodeSteps, RewritesMiss, RewritesUse, RewritesAged
       DEF CodeStep
<1>3. OneCodeInv => OneCode
  BY DEF OneCodeInv
<1>4. QED
  BY <1>1, <1>2, <1>3, TypeCorrect, PTL DEF Spec

----------------------------------------------------------------------------
\* Wrong guesses at one code are counted in turn.
GuessesInTurn ==
    \A r, s \in Requests :
        pc[r] = "miss" /\ pc[s] = "miss" /\ code[r].by = code[s].by => r = s

\* What a handler about to count a guess has loaded is what the row says.
Current ==
    \A o \in codes :
        /\ ~o.raced
        /\ \A r \in Requests :
              pc[r] = "miss" /\ code[r].by = o.by => ~o.blocked /\ o.retries = code[r].retries

\* A code takes so many wrong guesses and no more, and is then blocked.
BlockedAtLimit ==
    \A o \in codes : o.misses <= MaxRetries /\ (o.blocked <=> o.misses = MaxRetries)

\* Guesses that are counted in turn never race.
LEMMA CurrentHolds == Spec /\ []GuessesInTurn => []Current
<1>1. Init => Current
  BY DEF Init, Current
<1>2. TypeOK /\ GuessesInTurn /\ Sent /\ Current /\ [Next]_vars => Current'
  <2> SUFFICES ASSUME TypeOK, GuessesInTurn, Sent, Current, [Next]_vars PROVE Current'
    OBVIOUS
  <2>1. ASSUME Elsewhere PROVE Current'
    BY <2>1 DEF Elsewhere, Apart, Current
  <2>2. ASSUME NEW r \in Requests, WipeCodes(r) PROVE Current'
    <3>1. codes' \subseteq codes /\ UNCHANGED code /\ pc' = [pc EXCEPT ![r] = "write"]
      BY <2>2 DEF WipeCodes, Goto
    <3>2. QED
      BY <3>1 DEF Current, TypeOK
  <2>3. ASSUME NEW r \in Requests, WriteCode(r) PROVE Current'
    <3> DEFINE new == NewCode(r, PurposeOf[r])
    <3>1. /\ codes' = codes \cup {new} /\ UNCHANGED code
          /\ pc[r] = "write" /\ pc' = [pc EXCEPT ![r] = "done"]
      BY <2>3 DEF WriteCode, Goto
    <3>2. new.by = r /\ ~new.raced
      BY DEF NewCode
    <3> HIDE DEF new
    <3>3. \A s \in Requests : pc'[s] = "miss" => pc[s] = "miss" /\ code[s].by # r
      BY <3>1 DEF Sent, TypeOK
    <3>4. QED
      BY <3>1, <3>2, <3>3 DEF Current
  <2>4. ASSUME NEW r \in Requests, BeginVerify(r) PROVE Current'
    <3>1. /\ UNCHANGED codes
          /\ \A q \in Requests : q # r => pc'[q] = pc[q] /\ code'[q] = code[q]
          /\ pc'[r] = "miss" => code'[r] \in codes /\ ~code'[r].blocked
      BY <2>4, Verifying
    <3>2. ASSUME NEW o \in codes, NEW q \in Requests, pc'[q] = "miss", code'[q].by = o.by
          PROVE  ~o.blocked /\ o.retries = code'[q].retries
      <4>1. CASE q # r
        BY <3>1, <3>2, <4>1 DEF Current
      <4>2. CASE q = r
        <5>1. code'[r] = o
          BY <3>1, <3>2, <4>2 DEF Sent
        <5>2. QED
          BY <3>1, <3>2, <4>2, <5>1
      <4>3. QED
        BY <4>1, <4>2
    <3>3. QED
      BY <3>1, <3>2 DEF Current
  <2>5. ASSUME NEW r \in Requests, FlushMiss(r) PROVE Current'
    <3>1. codes' = {AfterMiss(r, o) : o \in codes}
      BY <2>5, RewritesMiss
    <3>2. pc[r] = "miss" /\ pc' = [pc EXCEPT ![r] = "told"] /\ UNCHANGED code
      BY Zenon, <2>5 DEF FlushMiss, Goto
    <3>3. \A q \in Requests : pc'[q] = "miss" => pc[q] = "miss" /\ code[q].by # code[r].by
      BY <3>2 DEF GuessesInTurn, TypeOK
    <3>4. ASSUME NEW o \in codes, NEW v, v = AfterMiss(r, o)
          PROVE  /\ ~v.raced
                 /\ \A q \in Requests :
                       pc'[q] = "miss" /\ code'[q].by = v.by =>
                          ~v.blocked /\ v.retries = code'[q].retries
      <4>1. CASE v = o
        BY <3>2, <3>3, <4>1 DEF Current
      <4>2. CASE v = Counted(o, code[r]) /\ o.by = code[r].by
        <5>1. o \in CodeRow /\ code[r] \in CodeRow
          BY DEF TypeOK
        <5>2. ~o.raced /\ ~o.blocked /\ o.retries = code[r].retries
          BY <3>2, <4>2 DEF Current
        <5>3. v.raced = (o.raced \/ o.retries # code[r].retries \/ o.blocked) /\ v.by = o.by
          BY <4>2, <5>1, Counting, SameCodes DEF SameCode
        <5>4. QED
          BY <3>2, <3>3, <4>2, <5>2, <5>3
      <4>3. QED
        BY <3>4, <4>1, <4>2 DEF AfterMiss
    <3>5. QED
      BY <3>1, <3>4 DEF Current
  <2>6. ASSUME NEW f, codes' = {f[o] : o \in codes}, UNCHANGED code,
               \A r \in Requests : pc'[r] = "miss" => pc[r] = "miss",
               \A o \in codes : /\ f[o].by = o.by /\ f[o].raced = o.raced
                                /\ f[o].blocked = o.blocked /\ f[o].retries = o.retries
        PROVE  Current'
    BY <2>6 DEF Current
  <2>7. ASSUME NEW r \in Requests, FlushUse(r) PROVE Current'
    <3> DEFINE f == [o \in codes |-> AfterUse(r, o)]
    <3>1. codes' = {f[o] : o \in codes}
      BY <2>7, RewritesUse
    <3>2. UNCHANGED code /\ \A q \in Requests : pc'[q] = "miss" => pc[q] = "miss"
      BY <2>7, RewritesUse DEF Rewritten, Apart
    <3>3. ASSUME NEW o \in codes
          PROVE  /\ f[o].by = o.by /\ f[o].raced = o.raced
                 /\ f[o].blocked = o.blocked /\ f[o].retries = o.retries
      <4>1. o \in CodeRow /\ f[o] = AfterUse(r, o)
        BY DEF TypeOK
      <4> HIDE DEF f
      <4>2. QED
        BY <4>1, Keeping, SameCodes DEF AfterUse, SameCode
    <3> HIDE DEF f
    <3>4. QED
      BY <2>6, <3>1, <3>2, <3>3
  <2>8. ASSUME NEW c \in codes, CodeAges(c) PROVE Current'
    <3> DEFINE f == [o \in codes |-> IF o = c THEN Aged(c) ELSE o]
    <3>1. codes' = {f[o] : o \in codes}
      BY <2>8, RewritesAged
    <3>2. UNCHANGED code /\ \A q \in Requests : pc'[q] = "miss" => pc[q] = "miss"
      BY <2>8, RewritesAged DEF Rewritten, Apart
    <3>3. ASSUME NEW o \in codes
          PROVE  /\ f[o].by = o.by /\ f[o].raced = o.raced
                 /\ f[o].blocked = o.blocked /\ f[o].retries = o.retries
      <4>1. o \in CodeRow /\ f[o] = IF o = c THEN Aged(c) ELSE o
        BY DEF TypeOK
      <4> HIDE DEF f
      <4>2. QED
        BY <4>1, Keeping, SameCodes DEF Aged, SameCode
    <3> HIDE DEF f
    <3>4. QED
      BY <2>6, <3>1, <3>2, <3>3
  <2>9. QED
    BY <2>1, <2>2, <2>3, <2>4, <2>5, <2>7, <2>8, CodeSteps DEF CodeStep
<1>3. QED
  BY <1>1, <1>2, TypeCorrect, SentHolds, PTL DEF Spec

\* When the wrong guesses at a code do not overlap, the limit is the limit,
\* for every limit: no more than MaxRetries guesses are ever counted, and the
\* code is blocked exactly when they are used up (verifyOtp).
THEOREM GuessesAreLimited == Spec /\ []GuessesInTurn => []BlockedAtLimit
<1>1. TypeOK /\ Current /\ GuessesAreCounted => BlockedAtLimit
  <2> SUFFICES ASSUME TypeOK, Current, GuessesAreCounted, NEW o \in codes
               PROVE  o.misses <= MaxRetries /\ (o.blocked <=> o.misses = MaxRetries)
    BY DEF BlockedAtLimit
  <2>1. o.retries \in Nat /\ o.misses \in Nat /\ MaxRetries \in Nat /\ o.retries < MaxRetries
    BY AccountsAssumption DEF TypeOK, CodeRow
  <2>2. IF o.blocked THEN o.misses = MaxRetries ELSE o.retries = o.misses
    BY DEF Current, GuessesAreCounted
  <2>3. QED
    BY <2>1, <2>2
<1>2. QED
  BY <1>1, TypeCorrect, CurrentHolds, GuessesCounted, PTL

----------------------------------------------------------------------------
(* Permissions, when the updates that would race for them come in turn      *)

Updating == {"edit", "delete", "flush"}

\* Administrators change the member one after the other: the transaction of
\* one is over before the next loads the user (updateProfileByAdmin).
MembersInTurn ==
    \A r, s \in Requests : pc[r] \in Updating /\ pc[s] \in Updating => r = s

\* What an update asked for stands once it has replaced the permissions, and
\* the DELETE of one that is about to has found all the rows there are.
Grants ==
    /\ user.grantor # "none" => pc[user.grantor] = "done"
    /\ PermissionsWereAsked
    /\ \A r \in Requests :
          pc[r] \in {"delete", "flush"} /\ Replaces(asked[r], copy[r]) /\ user.by = copy[r].by =>
             user.permissions \subseteq swept[r]

\* A step that takes the user's permissions away or leaves them alone, brings
\* no update further, and undoes nothing that is done.
Quiet ==
    /\ \/ user'.by = user.by /\ user'.permissions = user.permissions /\ user'.grantor = user.grantor
       \/ user'.permissions = {} /\ user'.grantor = "none"
    /\ \A r \in Requests :
          /\ pc[r] = "done" => pc'[r] = "done" /\ asked'[r] = asked[r]
          /\ pc'[r] \in {"delete", "flush"} =>
                pc[r] = pc'[r] /\ asked'[r] = asked[r] /\ copy'[r] = copy[r] /\ swept'[r] = swept[r]

\* The steps that are not.
GrantStep ==
    \E r \in Requests :
        CreateProfile(r) \/ BeginMember(r) \/ BeginDelete(r) \/ EndDelete(r) \/ FlushMember(r)

\* Every other step is.
LEMMA QuietSteps == TypeOK /\ [Next]_vars => Quiet \/ GrantStep
<1> SUFFICES ASSUME TypeOK, [Next]_vars PROVE Quiet \/ GrantStep
  OBVIOUS
<1>1. pc \in [Requests -> Pc] /\ user \in UserRow /\ asked \in [Requests -> Asked]
      /\ copy \in [Requests -> UserRow]
  BY DEF TypeOK
<1> USE DEF Quiet, Goto, Begins, OfUser
<1>2. ASSUME NEW r \in Requests, BeginSignup(r) PROVE Quiet
  BY <1>1, <1>2 DEF BeginSignup
<1>3. ASSUME NEW r \in Requests, SquareAnswers(r) PROVE Quiet
  BY <1>1, <1>3 DEF SquareAnswers
<1>4. ASSUME NEW r \in Requests, InsertUser(r) PROVE Quiet
  <2>1. user' = user \/ (user'.permissions = {} /\ user'.grantor = "none")
    BY <1>4, Inserting DEF InsertUser, Writer
  <2>2. QED
    BY <1>1, <1>4, <2>1 DEF InsertUser
<1>5. ASSUME NEW r \in Requests, AwaitSquare(r) PROVE Quiet
  BY <1>1, <1>5 DEF AwaitSquare
<1>6. ASSUME NEW r \in Requests, SaveCustomer(r) PROVE Quiet
  <2>1. /\ user'.by = user.by /\ user'.permissions = user.permissions
        /\ user'.grantor = user.grantor
    BY <1>1, <1>6 DEF SaveCustomer, UserRow
  <2>2. QED
    BY <1>1, <1>6, <2>1 DEF SaveCustomer
<1>7. ASSUME NEW r \in Requests, Cleanup(r) PROVE Quiet
  BY <1>1, <1>7 DEF Cleanup
<1>8. ASSUME NEW r \in Requests, DropCustomer(r) PROVE Quiet
  BY <1>1, <1>8 DEF DropCustomer
<1>9. ASSUME NEW r \in Requests, BeginCode(r) PROVE Quiet
  BY <1>1, <1>9 DEF BeginCode
<1>10. ASSUME NEW r \in Requests, WipeCodes(r) PROVE Quiet
  BY <1>1, <1>10 DEF WipeCodes
<1>11. ASSUME NEW r \in Requests, WriteCode(r) PROVE Quiet
  BY <1>1, <1>11 DEF WriteCode
<1>12. ASSUME NEW r \in Requests, BeginVerify(r) PROVE Quiet
  <2>1. /\ pc[r] = "idle" /\ UNCHANGED <<user, copy, asked, swept>>
        /\ \E label \in {"told", "use", "miss"} : pc' = [pc EXCEPT ![r] = label]
    BY <1>12 DEF BeginVerify
  <2>2. QED
    BY <1>1, <2>1
<1>13. ASSUME NEW r \in Requests, FlushMiss(r) PROVE Quiet
  <2>1. /\ pc' = [pc EXCEPT ![r] = "told"] /\ pc[r] = "miss"
        /\ UNCHANGED <<user, copy, asked, swept>>
    BY Zenon, <1>13 DEF FlushMiss
  <2>2. QED
    BY <1>1, <2>1
<1>14. ASSUME NEW r \in Requests, FlushUse(r) PROVE Quiet
  BY <1>1, <1>14 DEF FlushUse
<1>15. ASSUME NEW r \in Requests, Grant(r) PROVE Quiet
  <2>1. /\ user'.by = user.by /\ user'.permissions = user.permissions
        /\ user'.grantor = user.grantor
    BY <1>1, <1>15 DEF Grant, UserRow
  <2>2. QED
    BY <1>1, <1>15, <2>1 DEF Grant
<1>16. ASSUME NEW r \in Requests, BeginReset(r) PROVE Quiet
  BY <1>1, <1>16 DEF BeginReset
<1>17. ASSUME NEW r \in Requests, FlushReset(r) PROVE Quiet
  <2>1. /\ user'.by = user.by /\ user'.permissions = user.permissions
        /\ user'.grantor = user.grantor
    BY <1>1, <1>17 DEF FlushReset, AfterReset, UserRow
  <2>2. QED
    BY <1>1, <1>17, <2>1 DEF FlushReset
<1>18. ASSUME NEW r \in Requests, BeginChange(r) PROVE Quiet
  BY <1>1, <1>18 DEF BeginChange
<1>19. ASSUME NEW r \in Requests, FlushChange(r) PROVE Quiet
  <2>1. /\ user'.by = user.by /\ user'.permissions = user.permissions
        /\ user'.grantor = user.grantor
    BY <1>1, <1>19 DEF FlushChange, UserRow
  <2>2. QED
    BY <1>1, <1>19, <2>1 DEF FlushChange
<1>20. ASSUME NEW r \in Requests, BeginReview(r) PROVE Quiet
  BY <1>1, <1>20 DEF BeginReview
<1>21. ASSUME NEW r \in Requests, FlushReview(r) PROVE Quiet
  <2>1. /\ user'.by = user.by /\ user'.permissions = user.permissions
        /\ user'.grantor = user.grantor
    BY <1>1, <1>21 DEF FlushReview, UserRow
  <2>2. QED
    BY <1>1, <1>21, <2>1 DEF FlushReview
<1>22. ASSUME NEW r \in Requests, BeginRemove(r) PROVE Quiet
  BY <1>1, <1>22 DEF BeginRemove
<1>23. ASSUME NEW r \in Requests, FlushRemove(r) PROVE Quiet
  <2>1. user' = user \/ (user'.permissions = {} /\ user'.grantor = "none")
    BY <1>23, Inserting DEF FlushRemove, NoUser, Writer
  <2>2. QED
    BY <1>1, <1>23, <2>1 DEF FlushRemove
<1>24. ASSUME NEW r \in Requests, Refuse(r) PROVE Quiet
  BY <1>1, <1>24 DEF Refuse
<1>25. ASSUME NEW r \in Requests, Interrupt(r) PROVE Quiet
  BY <1>1, <1>25 DEF Interrupt
<1>26. ASSUME NEW o \in codes, CodeAges(o) PROVE Quiet
  BY <1>1, <1>26 DEF CodeAges
<1>27. ASSUME TokenExpires PROVE Quiet
  BY <1>1, <1>27 DEF TokenExpires, UserRow
<1>28. CASE UNCHANGED vars
  BY <1>1, <1>28 DEF vars
<1> HIDE DEF Quiet, Goto, Begins, OfUser
<1>29. QED
  BY <1>2, <1>3, <1>4, <1>5, <1>6, <1>7, <1>8, <1>9, <1>10, <1>11,
     <1>12, <1>13, <1>14, <1>15, <1>16, <1>17, <1>18, <1>19, <1>20, <1>21,
     <1>22, <1>23, <1>24, <1>25, <1>26, <1>27, <1>28 DEF Next, GrantStep

\* When updates of a member do not overlap, the member never holds a
\* permission that the last update which replaced the permissions did not ask
\* for, whatever became of the user meanwhile (updateProfileByAdmin).
THEOREM PermissionsAsked == Spec /\ []MembersInTurn => []PermissionsWereAsked
<1> USE AccountsAssumption
<1>1. Init => Grants
  BY InsertingOriginal, InsertingNobody DEF Init, Grants, PermissionsWereAsked
<1>2. TypeOK /\ Tokens /\ MembersInTurn /\ Grants /\ [Next]_vars => Grants'
  <2> SUFFICES ASSUME TypeOK, Tokens, MembersInTurn, Grants, [Next]_vars PROVE Grants'
    OBVIOUS
  <2>1. ASSUME Quiet PROVE Grants'
    <3>1. CASE user'.permissions = {} /\ user'.grantor = "none"
      BY <2>1, <3>1 DEF Quiet, Grants, PermissionsWereAsked
    <3>2. CASE /\ user'.by = user.by /\ user'.permissions = user.permissions
               /\ user'.grantor = user.grantor
      <4>1. user.grantor \in Requests \cup {"none"}
        BY DEF TypeOK, UserRow
      <4>2. PermissionsWereAsked' /\ (user'.grantor # "none" => pc'[user'.grantor] = "done")
        BY <2>1, <3>2, <4>1 DEF Quiet, Grants, PermissionsWereAsked
      <4>3. ASSUME NEW r \in Requests, pc'[r] \in {"delete", "flush"},
                   Replaces(asked'[r], copy'[r]), user'.by = copy'[r].by
            PROVE  user'.permissions \subseteq swept'[r]
        <5>1. /\ pc[r] = pc'[r] /\ asked'[r] = asked[r] /\ copy'[r] = copy[r]
              /\ swept'[r] = swept[r]
          BY <2>1, <4>3 DEF Quiet
        <5>2. QED
          BY <3>2, <4>3, <5>1 DEF Grants
      <4>4. QED
        BY <4>2, <4>3 DEF Grants
    <3>3. QED
      BY <2>1, <3>1, <3>2 DEF Quiet
  <2>2. ASSUME NEW r \in Requests, CreateProfile(r) PROVE Grants'
    <3>1. PICK a \in Asked :
             /\ a.role # "none" /\ a.given
             /\ IF Exists \/ (a.role = "USER" /\ a.permissions = {})
                   THEN Goto(r, "told") /\ UNCHANGED user
                   ELSE Goto(r, "done") /\ user' = NewProfile(r, a)
      BY <2>2 DEF CreateProfile
    <3>2. pc[r] = "idle" /\ UNCHANGED <<copy, asked, swept>>
      BY <2>2 DEF CreateProfile, Begins
    <3>3. CASE Goto(r, "told") /\ UNCHANGED user
      BY <3>2, <3>3 DEF Goto, Grants, PermissionsWereAsked, TypeOK, UserRow
    <3>4. CASE Goto(r, "done") /\ user' = NewProfile(r, a)
      <4>1. user'.by = r /\ user'.grantor = "none"
        BY <3>1, <3>4, InsertingAsked
      <4>2. \A q \in Requests : copy[q].by # r
        BY <3>2 DEF Tokens, Named
      <4>3. QED
        BY <3>2, <4>1, <4>2 DEF Grants, PermissionsWereAsked
    <3>5. QED
      BY <3>1, <3>3, <3>4
  <2>3. ASSUME NEW r \in Requests, BeginMember(r) PROVE Grants'
    <3>1. /\ pc[r] = "idle" /\ UNCHANGED <<user, swept>> /\ copy' = [copy EXCEPT ![r] = user]
          /\ \E a \in Asked, label \in {"told", "edit", "flush"} :
                /\ asked' = [asked EXCEPT ![r] = a]
                /\ pc' = [pc EXCEPT ![r] = label]
                /\ label = "flush" => ~Replaces(a, user)
      BY <2>3 DEF BeginMember, Begins, Goto
    <3>2. PICK a \in Asked, label \in {"told", "edit", "flush"} :
             /\ asked' = [asked EXCEPT ![r] = a]
             /\ pc' = [pc EXCEPT ![r] = label]
             /\ label = "flush" => ~Replaces(a, user)
      BY <3>1
    <3>3. user.grantor \in Requests \cup {"none"}
      BY DEF TypeOK, UserRow
    <3>4. user'.grantor # "none" => pc'[user'.grantor] = "done" /\ user.grantor # r
      BY <3>1, <3>2, <3>3 DEF Grants, TypeOK
    <3>5. PermissionsWereAsked'
      BY <3>1, <3>2, <3>3, <3>4 DEF Grants, PermissionsWereAsked, TypeOK
    <3>6. ASSUME NEW q \in Requests, pc'[q] \in {"delete", "flush"},
                 Replaces(asked'[q], copy'[q]), user'.by = copy'[q].by
          PROVE  user'.permissions \subseteq swept'[q]
      <4>1. CASE q = r
        <5>1. asked'[r] = a /\ copy'[r] = user /\ pc'[r] = label
          BY <3>1, <3>2 DEF TypeOK
        <5>2. QED
          BY <3>2, <3>6, <4>1, <5>1
      <4>2. CASE q # r
        <5>1. asked'[q] = asked[q] /\ copy'[q] = copy[q] /\ pc'[q] = pc[q]
          BY <3>1, <3>2, <4>2 DEF TypeOK
        <5>2. QED
          BY <3>1, <3>6, <5>1 DEF Grants
      <4>3. QED
        BY <4>1, <4>2
    <3>7. QED
      BY <3>4, <3>5, <3>6 DEF Grants
  <2>4. ASSUME NEW r \in Requests, BeginDelete(r) PROVE Grants'
    <3>1. /\ pc[r] = "edit" /\ UNCHANGED <<user, copy, asked>>
          /\ pc' = [pc EXCEPT ![r] = "delete"]
          /\ swept' = [swept EXCEPT ![r] = IF user.by = copy[r].by THEN user.permissions ELSE {}]
      BY <2>4 DEF BeginDelete, Goto
    <3>2. user.grantor \in Requests \cup {"none"}
      BY DEF TypeOK, UserRow
    <3>3. QED
      BY <3>1, <3>2 DEF Grants, PermissionsWereAsked, TypeOK
  <2>5. ASSUME NEW r \in Requests, EndDelete(r) PROVE Grants'
    <3>1. /\ pc[r] = "delete" /\ UNCHANGED <<user, copy, asked>>
          /\ pc' = [pc EXCEPT ![r] = "flush"]
          /\ swept' = [swept EXCEPT ![r] = @ \cap user.permissions]
      BY <2>5 DEF EndDelete, Goto
    <3>2. user.grantor \in Requests \cup {"none"}
      BY DEF TypeOK, UserRow
    <3>3. QED
      BY <3>1, <3>2 DEF Grants, PermissionsWereAsked, TypeOK
  <2>6. ASSUME NEW r \in Requests, FlushMember(r) PROVE Grants'
    <3>1. pc[r] = "flush" /\ UNCHANGED <<copy, asked, swept>>
      BY <2>6, Flushing
    <3>2. user.grantor \in Requests \cup {"none"}
      BY DEF TypeOK, UserRow
    <3>3. CASE UNCHANGED user /\ \E label \in {"done", "told"} : Goto(r, label)
      BY <3>1, <3>2, <3>3 DEF Goto, Grants, PermissionsWereAsked, TypeOK
    <3>4. CASE user.by = copy[r].by /\ user' = Edited(r) /\ Goto(r, "done")
      <4>1. \A q \in Requests : pc'[q] \notin {"delete", "flush"}
        BY <3>1, <3>4 DEF MembersInTurn, Updating, Goto, TypeOK
      <4>2. /\ user'.permissions = Kept(r) \cup (Inserted(r) \X {r})
            /\ user'.grantor = IF Replaces(asked[r], copy[r]) THEN r ELSE user.grantor
        BY <3>4, EditedType
      <4>3. CASE Replaces(asked[r], copy[r])
        <5>1. Kept(r) = {}
          BY <3>1, <3>4, <4>3 DEF Kept, Left, Grants
        <5>2. Held(user'.permissions) \subseteq Inserted(r)
          BY <4>2, <5>1 DEF Held
        <5>3. Inserted(r) \subseteq asked[r].permissions
          BY DEF Inserted
        <5>4. user'.grantor = r /\ pc'[r] = "done"
          BY <3>4, <4>2, <4>3 DEF Goto, TypeOK
        <5>5. QED
          BY <3>1, <4>1, <5>2, <5>3, <5>4 DEF Grants, PermissionsWereAsked
      <4>4. CASE ~Replaces(asked[r], copy[r])
        <5>1. Inserted(r) = {} /\ Kept(r) \subseteq user.permissions
          BY <4>4 DEF Inserted, Assigns, Kept, Left
        <5>2. user'.permissions \subseteq user.permissions /\ user'.grantor = user.grantor
          BY <4>2, <4>4, <5>1
        <5>3. Held(user'.permissions) \subseteq Held(user.permissions)
          BY <5>2 DEF Held
        <5>4. user.grantor # "none" => pc'[user.grantor] = "done"
          BY <3>2, <3>4 DEF Goto, Grants, TypeOK
        <5>5. QED
          BY <3>1, <4>1, <5>2, <5>3, <5>4 DEF Grants, PermissionsWereAsked
      <4>5. QED
        BY <4>3, <4>4
    <3>5. QED
      BY <2>6, <3>3, <3>4, Flushing
  <2>7. QED
    BY <2>1, <2>2, <2>3, <2>4, <2>5, <2>6, QuietSteps DEF GrantStep
<1>3. Grants => PermissionsWereAsked
  BY DEF Grants
<1>4. QED
  BY <1>1, <1>2, <1>3, TypeCorrect, TokensHold, PTL DEF Spec
=============================================================================

------------------------------ MODULE Accounts ------------------------------
(***************************************************************************)
(* One email address: the sign-ups that compete for it, the codes sent to  *)
(* it, the password reset they lead to, and an administrator's changes to  *)
(* the user behind it.  AuthService, OtpService and UserService.           *)
(***************************************************************************)
EXTENDS Integers, FiniteSets

CONSTANTS
    Requests,
    RoleOf,         \* what each request asks for
    PurposeOf,      \* what the code is for that a request sends or verifies
    Permissions,
    MaxRetries,     \* wrong guesses after which a code is blocked
    Arriving,       \* bound: the sets of requests that arrive in one behaviour
    MaxFaults       \* bound on crashes and refused statements

Purpose == {"email_verification", "password_reset"}

Role == {"signup", "code", "verify", "reset", "change", "profile", "review", "member", "remove"}

ASSUME AccountsAssumption ==
    /\ RoleOf \in [Requests -> Role]
    /\ PurposeOf \in [Requests -> Purpose]
    /\ MaxRetries \in Nat \ {0}
    /\ Arriving \subseteq SUBSET Requests
    /\ "none" \notin Requests
    /\ "origin" \notin Requests
    /\ MaxFaults \in Nat

VARIABLES
    user,           \* the row of this email
    customers,      \* sign-ups whose customer exists at Square
    answer,         \* answer[r]: what Square has said to sign-up r
    codes,          \* the OTP rows of this email
    pc,             \* pc[r]: where the handler of r stands
    copy,           \* copy[r]: the user as r loaded it
    code,           \* code[r]: the OTP row as r loaded it
    asked,          \* asked[r]: what an administrator asks for
    swept,          \* swept[r]: the permissions that update r's DELETE has found
    faults          \* bound: faults left

vars == <<user, customers, answer, codes, pc, copy, code, asked, swept, faults>>

Writer == Requests \cup {"none", "origin"}

\* A row of user_permissions: the permission, and the request that inserted it.
Rows == Permissions \X Writer

Held(rows) == {row[1] : row \in rows}

\* by stands for the id; token: the verification that issued the reset token;
\* grantor is history: the last update that replaced the permissions
UserRow == [by : Writer, customer : Writer, verified : BOOLEAN, password : Writer,
            token : Writer, tokenLive : BOOLEAN, approved : BOOLEAN, approver : Writer,
            role : {"ADMIN", "USER"}, permissions : SUBSET Rows, grantor : Requests \cup {"none"}]

NewUser(r) ==
    [by |-> r, customer |-> "none", verified |-> FALSE, password |-> r,
     token |-> "none", tokenLive |-> FALSE, approved |-> FALSE, approver |-> "none",
     role |-> "ADMIN", permissions |-> {}, grantor |-> "none"]

NoUser == NewUser("none")

Exists == user.by # "none"

\* misses and raced are history: guesses counted, and whether two overlapped
CodeRow == [by : Writer, purpose : Purpose, used : BOOLEAN, retries : Nat,
            blocked : BOOLEAN, expired : BOOLEAN, fresh : BOOLEAN,
            misses : Nat, raced : BOOLEAN]

NewCode(r, purpose) ==
    [by |-> r, purpose |-> purpose, used |-> FALSE, retries |-> 0, blocked |-> FALSE,
     expired |-> FALSE, fresh |-> TRUE, misses |-> 0, raced |-> FALSE]

\* UpdateProfileByAdminDTO: role "none" and given FALSE stand for undefined.
Asked == [role : {"ADMIN", "USER", "none"}, given : BOOLEAN, permissions : SUBSET Permissions]

Pc == {"absent", "idle", "insert", "await", "save", "cleanup", "drop",
       "wipe", "write", "miss", "use", "grant", "reset", "change",
       "review", "edit", "delete", "flush", "remove", "told", "done", "interrupted"}

TypeOK ==
    /\ user \in UserRow
    /\ customers \subseteq Requests
    /\ answer \in [Requests -> {"none", "pending", "made", "refused", "lost", "kept"}]
    /\ codes \subseteq CodeRow
    /\ \A o \in codes : o.retries < MaxRetries
    /\ pc \in [Requests -> Pc]
    /\ copy \in [Requests -> UserRow]
    /\ code \in [Requests -> CodeRow]
    /\ asked \in [Requests -> Asked]
    /\ swept \in [Requests -> SUBSET Rows]
    /\ faults \in Nat

\* A user that an administrator has created, with every permission.
Original ==
    [NewUser("origin") EXCEPT !.verified = TRUE, !.approved = TRUE, !.role = "USER",
                              !.permissions = Permissions \X {"origin"}]

Init ==
    /\ \/ user = NoUser
       \/ user = Original
    /\ customers = {}
    /\ answer = [r \in Requests |-> "none"]
    /\ codes = {}
    /\ \E here \in Arriving : pc = [r \in Requests |-> IF r \in here THEN "idle" ELSE "absent"]
    /\ copy = [r \in Requests |-> NoUser]
    /\ code = [r \in Requests |-> NewCode("none", "email_verification")]
    /\ asked = [r \in Requests |-> [role |-> "none", given |-> FALSE, permissions |-> {}]]
    /\ swept = [r \in Requests |-> {}]
    /\ faults = MaxFaults

Goto(r, label) == pc' = [pc EXCEPT ![r] = label]

Is(r, role) == RoleOf[r] = role

Begins(r, role) == Is(r, role) /\ pc[r] = "idle"

OfUser == <<user, copy, asked, swept>>
OfSquare == <<customers, answer>>
OfCodes == <<codes, code>>

----------------------------------------------------------------------------
(* AuthService.signup                                                      *)

\* Square is asked while the rows are written.
BeginSignup(r) ==
    /\ Begins(r, "signup")
    /\ IF Exists
          THEN Goto(r, "told") /\ UNCHANGED answer
          ELSE Goto(r, "insert") /\ answer' = [answer EXCEPT ![r] = "pending"]
    /\ UNCHANGED <<OfUser, customers, OfCodes, faults>>

\* Every error is caught as "no customer": also one that comes after the
\* customer was made, whose id is then lost.
SquareAnswers(r) ==
    /\ answer[r] = "pending"
    /\ \/ /\ \E said \in {"made", "lost"} : answer' = [answer EXCEPT ![r] = said]
          /\ customers' = customers \cup {r}
       \/ answer' = [answer EXCEPT ![r] = "refused"] /\ UNCHANGED customers
    /\ UNCHANGED <<OfUser, OfCodes, pc, faults>>

\* The email is unique.
InsertUser(r) ==
    /\ pc[r] = "insert"
    /\ IF Exists
          THEN Goto(r, "cleanup") /\ UNCHANGED user
          ELSE Goto(r, "await") /\ user' = NewUser(r)
    /\ UNCHANGED <<copy, asked, swept, OfSquare, OfCodes, faults>>

\* Without a customer the sign-up is refused, but the user stays.
AwaitSquare(r) ==
    /\ pc[r] = "await"
    /\ answer[r] # "pending"
    /\ Goto(r, IF answer[r] = "made" THEN "save" ELSE "told")
    /\ UNCHANGED <<OfUser, OfSquare, OfCodes, faults>>

\* A code is then sent by a call that nobody waits for: a "code" request.
SaveCustomer(r) ==
    /\ pc[r] = "save"
    /\ user' = IF user.by = r THEN [user EXCEPT !.customer = r] ELSE user
    /\ Goto(r, "done")
    /\ UNCHANGED <<copy, asked, swept, OfSquare, OfCodes, faults>>

\* A bug that gives up on a customer that is not there yet.
SettledMutant(r) == TRUE

\* The catch block waits for Square's answer.
Settled(r) == answer[r] # "pending"

Cleanup(r) ==
    /\ pc[r] = "cleanup"
    /\ Settled(r)
    /\ Goto(r, IF answer[r] = "made" THEN "drop" ELSE "told")
    /\ UNCHANGED <<OfUser, OfSquare, OfCodes, faults>>

\* A deletion that fails is passed over.
DropCustomer(r) ==
    /\ pc[r] = "drop"
    /\ \/ customers' = customers \ {r} /\ UNCHANGED <<answer, faults>>
       \/ /\ faults > 0
          /\ faults' = faults - 1
          /\ answer' = [answer EXCEPT ![r] = "kept"]
          /\ UNCHANGED customers
    /\ Goto(r, "told")
    /\ UNCHANGED <<OfUser, OfCodes>>

----------------------------------------------------------------------------
(* OtpService                                                              *)

BeginCode(r) ==
    /\ Begins(r, "code")
    /\ Goto(r, IF Exists /\ ~\E o \in codes : o.purpose = PurposeOf[r] /\ o.fresh
               THEN "wipe" ELSE "told")
    /\ UNCHANGED <<OfUser, OfSquare, OfCodes, faults>>

\* nativeDelete of every code of the purpose, in a transaction of its own.
WipeCodes(r) ==
    /\ pc[r] = "wipe"
    /\ codes' = {o \in codes : o.purpose # PurposeOf[r]}
    /\ Goto(r, "write")
    /\ UNCHANGED <<OfUser, OfSquare, code, faults>>

WriteCode(r) ==
    /\ pc[r] = "write"
    /\ codes' = codes \cup {NewCode(r, PurposeOf[r])}
    /\ Goto(r, "done")
    /\ UNCHANGED <<OfUser, OfSquare, code, faults>>

\* Half a minute, or ten, have passed since a code was written.  A block
\* lasts longer than the code.
CodeAges(o) ==
    /\ o \in codes
    /\ ~o.expired
    /\ codes' = (codes \ {o}) \cup {IF o.fresh THEN [o EXCEPT !.fresh = FALSE]
                                             ELSE [o EXCEPT !.expired = TRUE]}
    /\ UNCHANGED <<OfUser, OfSquare, code, pc, faults>>

\* The code given is the one of the row found, or it is not.
BeginVerify(r) ==
    /\ Begins(r, "verify")
    /\ LET unused == {o \in codes : o.purpose = PurposeOf[r] /\ ~o.used} IN
          IF unused = {}
          THEN Goto(r, "told") /\ UNCHANGED code
          ELSE \E o \in unused :
                  IF o.blocked \/ o.expired
                  THEN Goto(r, "told") /\ UNCHANGED code
                  ELSE /\ \E right \in BOOLEAN : Goto(r, IF right THEN "use" ELSE "miss")
                       /\ code' = [code EXCEPT ![r] = o]
    /\ UNCHANGED <<OfUser, OfSquare, codes, faults>>

\* A bug that lets one more guess through.
MissedMutant(o) ==
    IF o.retries + 1 > MaxRetries
    THEN [o EXCEPT !.blocked = TRUE, !.retries = 0]
    ELSE [o EXCEPT !.retries = @ + 1]

\* The row as a handler that has loaded o counts a wrong guess.
Missed(o) ==
    IF o.retries + 1 >= MaxRetries
    THEN [o EXCEPT !.blocked = TRUE, !.retries = 0]
    ELSE [o EXCEPT !.retries = @ + 1]

\* Only what has changed since the row was loaded is written.
FlushMiss(r) ==
    /\ pc[r] = "miss"
    /\ LET new == Missed(code[r]) IN
          codes' = {IF o.by # code[r].by \/ o.purpose # code[r].purpose THEN o
                    ELSE [o EXCEPT !.retries = new.retries,
                                   !.blocked = @ \/ new.blocked,
                                   !.misses = @ + 1,
                                   !.raced = @ \/ o.retries # code[r].retries \/ o.blocked]
                    : o \in codes}
    /\ Goto(r, "told")
    /\ UNCHANGED <<OfUser, OfSquare, code, faults>>

FlushUse(r) ==
    /\ pc[r] = "use"
    /\ codes' = {IF o.by # code[r].by \/ o.purpose # code[r].purpose THEN o
                 ELSE [o EXCEPT !.used = TRUE] : o \in codes}
    /\ Goto(r, "grant")
    /\ UNCHANGED <<OfUser, OfSquare, code, faults>>

\* nativeUpdate of whoever has the email by now.
Grant(r) ==
    /\ pc[r] = "grant"
    /\ user' = IF ~Exists THEN user
               ELSE IF PurposeOf[r] = "email_verification" THEN [user EXCEPT !.verified = TRUE]
               ELSE [user EXCEPT !.token = r, !.tokenLive = TRUE]
    /\ Goto(r, "done")
    /\ UNCHANGED <<copy, asked, swept, OfSquare, OfCodes, faults>>

----------------------------------------------------------------------------
(* Passwords                                                               *)

TokenExpires ==
    /\ user.tokenLive
    /\ user' = [user EXCEPT !.tokenLive = FALSE]
    /\ UNCHANGED <<copy, asked, swept, OfSquare, OfCodes, pc, faults>>

\* AuthService.resetPassword with a token that verification v issued.
BeginReset(r) ==
    /\ Begins(r, "reset")
    /\ copy' = [copy EXCEPT ![r] = user]
    /\ \E v \in Writer :
          Goto(r, IF Exists /\ user.token = v /\ user.tokenLive THEN "reset" ELSE "told")
    /\ UNCHANGED <<user, asked, swept, OfSquare, OfCodes, faults>>

\* A bug that leaves the token for another time.
AfterResetMutant(r) == [user EXCEPT !.password = r]

AfterReset(r) == [user EXCEPT !.password = r, !.token = "none", !.tokenLive = FALSE]

\* nativeUpdate by id.
FlushReset(r) ==
    /\ pc[r] = "reset"
    /\ user' = IF user.by = copy[r].by THEN AfterReset(r) ELSE user
    /\ Goto(r, "done")
    /\ UNCHANGED <<copy, asked, swept, OfSquare, OfCodes, faults>>

\* UserService.updatePassword with a password that w has set.
BeginChange(r) ==
    /\ Begins(r, "change")
    /\ copy' = [copy EXCEPT ![r] = user]
    /\ \E w \in Writer : Goto(r, IF Exists /\ user.password = w THEN "change" ELSE "told")
    /\ UNCHANGED <<user, asked, swept, OfSquare, OfCodes, faults>>

FlushChange(r) ==
    /\ pc[r] = "change"
    /\ user' = IF user.by = copy[r].by THEN [user EXCEPT !.password = r] ELSE user
    /\ Goto(r, "done")
    /\ UNCHANGED <<copy, asked, swept, OfSquare, OfCodes, faults>>

----------------------------------------------------------------------------
(* UserService.createProfile, reviewAccount                                *)

\* An administrator has every permission, a user those asked for.
NewProfile(r, a) ==
    LET granted == IF a.role = "ADMIN" THEN Permissions ELSE a.permissions IN
    [NewUser(r) EXCEPT !.verified = TRUE, !.approved = TRUE, !.role = a.role,
                       !.permissions = granted \X {r}]

\* One transaction, whose reads are of other rows; the email is unique.
CreateProfile(r) ==
    /\ Begins(r, "profile")
    /\ \E a \in Asked :
          /\ a.role # "none" /\ a.given
          /\ IF Exists \/ (a.role = "USER" /\ a.permissions = {})
                THEN Goto(r, "told") /\ UNCHANGED user
                ELSE Goto(r, "done") /\ user' = NewProfile(r, a)
    /\ UNCHANGED <<copy, asked, swept, OfSquare, OfCodes, faults>>

\* given stands for APPROVE, which an approved account is refused.
BeginReview(r) ==
    /\ Begins(r, "review")
    /\ copy' = [copy EXCEPT ![r] = user]
    /\ \E approve \in BOOLEAN :
          /\ asked' = [asked EXCEPT ![r].given = approve]
          /\ Goto(r, IF ~Exists \/ (approve /\ user.approved) THEN "told" ELSE "review")
    /\ UNCHANGED <<user, swept, OfSquare, OfCodes, faults>>

\* Of the two columns those are written in which the copy has changed.
FlushReview(r) ==
    /\ pc[r] = "review"
    /\ user' = IF user.by # copy[r].by THEN user
               ELSE IF asked[r].given THEN [user EXCEPT !.approved = TRUE, !.approver = r]
               ELSE [user EXCEPT !.approved = @ /\ ~copy[r].approved,
                                 !.approver = IF copy[r].approver = "none" THEN @ ELSE "none"]
    /\ Goto(r, "done")
    /\ UNCHANGED <<copy, asked, swept, OfSquare, OfCodes, faults>>

----------------------------------------------------------------------------
(* UserService.updateProfileByAdmin: one transaction, READ COMMITTED        *)

\* What is refused: permissions for an admin, a new user without any.
Refused(r, a) ==
    \/ ~Exists
    \/ a.role = "none" /\ a.given /\ user.role # "USER"
    \/ a.role = "USER" /\ user.role = "ADMIN" /\ a.permissions = {}

\* The permissions of the user u are deleted, and those asked for then added.
Replaces(a, u) ==
    CASE a.role = "none" -> TRUE
      [] a.role # u.role -> TRUE
      [] OTHER -> a.role = "USER" /\ a.given

BeginMember(r) ==
    /\ Begins(r, "member")
    /\ \E a \in Asked :
          /\ a.role # "none" \/ a.given
          /\ ~a.given => a.permissions = {}
          /\ asked' = [asked EXCEPT ![r] = a]
          /\ Goto(r, IF Refused(r, a) THEN "told"
                     ELSE IF Replaces(a, user) THEN "edit" ELSE "flush")
    /\ copy' = [copy EXCEPT ![r] = user]
    /\ UNCHANGED <<user, swept, OfSquare, OfCodes, faults>>

\* No other open transaction has deleted one of the rows.
Free(r, rows) == \A q \in Requests \ {r} : pc[q] = "flush" => rows \cap swept[q] = {}

\* nativeDelete finds the rows committed by now ...
BeginDelete(r) ==
    /\ pc[r] = "edit"
    /\ swept' = [swept EXCEPT ![r] = IF user.by = copy[r].by THEN user.permissions ELSE {}]
    /\ Goto(r, "delete")
    /\ UNCHANGED <<user, copy, asked, OfSquare, OfCodes, faults>>

\* ... waits for whoever is deleting them, and deletes those that are left.
EndDelete(r) ==
    /\ pc[r] = "delete"
    /\ Free(r, swept[r])
    /\ swept' = [swept EXCEPT ![r] = @ \cap user.permissions]
    /\ Goto(r, "flush")
    /\ UNCHANGED <<user, copy, asked, OfSquare, OfCodes, faults>>

\* The collection was loaded before its rows were deleted under it: only
\* what is not in the copy is inserted, so that a permission kept is lost.
Assigns(r) == asked[r].role # "ADMIN" /\ Replaces(asked[r], copy[r])

Inserted(r) ==
    IF Assigns(r) THEN asked[r].permissions \ Held(copy[r].permissions) ELSE {}

Dropped(r) ==
    IF Assigns(r) THEN Held(copy[r].permissions) \ asked[r].permissions ELSE {}

\* The rows of r's user that its own DELETE has not taken.
Left(r) == IF user.by = copy[r].by THEN user.permissions \ swept[r] ELSE {}

RowsOf(r, permissions) == {row \in Left(r) : row[1] \in permissions}

\* Role and permissions as the commit leaves them.  Of the role only a change
\* of the copy is written.
Edited(r) ==
    [user EXCEPT !.role = IF asked[r].role \in {"none", copy[r].role} THEN @ ELSE asked[r].role,
                 !.permissions = (Left(r) \ RowsOf(r, Dropped(r))) \cup (Inserted(r) \X {r}),
                 !.grantor = IF Replaces(asked[r], copy[r]) THEN r ELSE @]

\* The flush, which undoes the deletion too when a row is there already or the
\* user is not, and the commit.
FlushMember(r) ==
    /\ pc[r] = "flush"
    /\ Free(r, RowsOf(r, Inserted(r) \cup Dropped(r)))
    /\ IF IF user.by = copy[r].by THEN RowsOf(r, Inserted(r)) = {} ELSE Inserted(r) = {}
          THEN Goto(r, "done") /\ user' = IF user.by = copy[r].by THEN Edited(r) ELSE user
          ELSE Goto(r, "told") /\ UNCHANGED user
    /\ UNCHANGED <<copy, asked, swept, OfSquare, OfCodes, faults>>

\* UserService.deleteProfile.
BeginRemove(r) ==
    /\ Begins(r, "remove")
    /\ copy' = [copy EXCEPT ![r] = user]
    /\ Goto(r, IF Exists THEN "remove" ELSE "told")
    /\ UNCHANGED <<user, asked, swept, OfSquare, OfCodes, faults>>

\* The permissions go with the user, once nobody else is deleting them.
FlushRemove(r) ==
    /\ pc[r] = "remove"
    /\ user.by = copy[r].by => Free(r, user.permissions)
    /\ user' = IF user.by = copy[r].by THEN NoUser ELSE user
    /\ Goto(r, "done")
    /\ UNCHANGED <<copy, asked, swept, OfSquare, OfCodes, faults>>

----------------------------------------------------------------------------
\* A statement is refused: a sign-up still cleans up after itself.
Refuse(r) ==
    /\ pc[r] \in {"insert", "save"}
    /\ faults > 0
    /\ faults' = faults - 1
    /\ Goto(r, "cleanup")
    /\ UNCHANGED <<OfUser, OfSquare, OfCodes>>

\* The process dies, or Square or the database refuses.
Interrupt(r) ==
    /\ pc[r] \notin {"absent", "idle", "told", "done", "interrupted"}
    /\ faults > 0
    /\ faults' = faults - 1
    /\ Goto(r, "interrupted")
    /\ UNCHANGED <<OfUser, OfSquare, OfCodes>>

Next ==
    \/ \E r \in Requests :
        \/ BeginSignup(r) \/ SquareAnswers(r) \/ InsertUser(r) \/ AwaitSquare(r)
        \/ SaveCustomer(r) \/ Cleanup(r) \/ DropCustomer(r)
        \/ BeginCode(r) \/ WipeCodes(r) \/ WriteCode(r)
        \/ BeginVerify(r) \/ FlushMiss(r) \/ FlushUse(r) \/ Grant(r)
        \/ BeginReset(r) \/ FlushReset(r) \/ BeginChange(r) \/ FlushChange(r)
        \/ CreateProfile(r) \/ BeginReview(r) \/ FlushReview(r)
        \/ BeginMember(r) \/ BeginDelete(r) \/ EndDelete(r) \/ FlushMember(r)
        \/ BeginRemove(r) \/ FlushRemove(r)
        \/ Refuse(r) \/ Interrupt(r)
    \/ \E o \in codes : CodeAges(o)
    \/ TokenExpires

Spec == Init /\ [][Next]_vars

----------------------------------------------------------------------------
(* Properties                                                              *)

\* A sign-up that was refused leaves at Square no customer that it was told
\* of, whichever of the two calls that run side by side fails and answers
\* last, unless Square would not delete it.  A customer whose answer was lost
\* stays: no handler has an id to delete it by.
NoStrandedCustomer ==
    \A r \in Requests : pc[r] = "told" /\ r \in customers => answer[r] \in {"kept", "lost"}

\* A code counts its wrong guesses and is blocked at the limit, unless two
\* guesses were counted from the same number.
GuessesAreCounted ==
    \A o \in codes : ~o.raced =>
        IF o.blocked THEN o.misses = MaxRetries ELSE o.retries = o.misses

\* The token a reset was made with is worth nothing afterwards, however many
\* tokens were issued and resets begun meanwhile.
SpentTokenIsGone ==
    \A r \in Requests :
        pc[r] = "done" /\ Is(r, "reset") => user.token # copy[r].token \/ user.by # copy[r].by

\* A user's permissions were asked for by the last update that replaced them,
\* even when it had loaded others.  True of updates that come in turn; of two
\* that overlap, the second does not find the rows that the first inserts.
PermissionsWereAsked ==
    user.grantor # "none" => Held(user.permissions) \subseteq asked[user.grantor].permissions
=============================================================================

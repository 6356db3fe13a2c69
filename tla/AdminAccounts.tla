--------------------------- MODULE AdminAccounts ----------------------------
(***************************************************************************)
(* AdminService (app/services/admin_service.py) and AdminRepository over   *)
(* the database, each call in a session of its own.                        *)
(*                                                                         *)
(* A call is a sequence of statements; every action is one of them.  What  *)
(* a call writes is seen by others once it is committed, and the first     *)
(* UPDATE of a row makes the next one wait until its transaction is over.  *)
(* Who commits depends on the caller (Unit): the request session of the    *)
(* endpoints (database.get_session) never does, TransactionContext does    *)
(* when the call returns; both roll back when it raises.                   *)
(*                                                                         *)
(* The methods are modelled for the caller they are written for, an        *)
(* authenticated one.  Passwords are right or wrong, strong or weak, by    *)
(* choice; a password or set of backup codes is named after its maker.     *)
(***************************************************************************)
EXTENDS Naturals, FiniteSets

CONSTANTS
    Admin,       \* accounts, existing and to be created
    Call,        \* calls of the service
    Jobs,        \* what calls may be asked to do: a method, who calls, which account
    Unit,        \* Unit[c]: "request" or "transaction"
    Absent,      \* an account that does not exist
    Nobody,      \* nobody holds a row lock, no work is pending
    Initial,     \* the password and backup codes of an account at the start
    FirstRows,   \* the accounts at the start
    MaxFailed,   \* ADMIN_MAX_FAILED_ATTEMPTS
    MaxFaults    \* bound on statements and COMMITs that fail

Role   == {"superadmin", "admin", "auditor", "viewer"}
Column == {"active", "role", "pass", "failed", "locked", "tfa", "codes"}
Method == {"login", "verify2fa", "enable2fa", "confirm2fa", "disable2fa", "regenerate", "password",
           "create", "update", "deactivate", "logout"}

\* The columns that each method writes when it succeeds.
Touches == [op \in Method |->
    CASE op = "login"      -> {"failed", "locked"}
      [] op = "disable2fa" -> {"tfa", "codes"}
      [] op = "regenerate" -> {"codes"}
      [] op = "password"   -> {"pass"}
      [] op = "create"     -> Column
      [] op = "update"     -> {"role", "active"}
      [] op = "deactivate" -> {"active"}
      [] OTHER             -> {}]

Maker == Call \cup {Initial, Absent}
Row == [active : BOOLEAN, role : Role, pass : Maker, failed : Nat,
        locked : BOOLEAN, tfa : BOOLEAN, codes : Maker]

Job == [op : Method, by : Admin, target : Admin]

\* An entry of the audit log.
Entry == Call \X Method \X Admin

ASSUME CallAssumption == /\ Jobs \subseteq Job /\ Nobody \notin Job
                         /\ Unit \in [Call -> {"request", "transaction"}]
ASSUME RowAssumption == /\ FirstRows \in [Admin -> Row \cup {Absent}] /\ Absent \notin Row
                        /\ Nobody \notin Call /\ Nobody \notin Row
ASSUME LimitAssumption == MaxFailed \in Nat \ {0} /\ MaxFaults \in Nat

VARIABLES
    accounts,  \* committed rows of admin_users
    entries,   \* committed rows of audit_logs: calls, method, account
    sessions,  \* logins whose session is in Redis
    job,       \* job[c]: what c was asked to do
    pc,        \* pc[c]: the next statement of c
    change,    \* change[c]: the columns that c is going to set
    work,      \* work[c]: the row as c has changed it, not committed yet
    holder,    \* holder[a]: the call that holds the lock of a's row
    verdict,   \* verdict[c]: how c ends after it has written to the audit log
    faults,    \* statements and COMMITs that failed
    \* history
    barred     \* calls that were not entitled at any moment of theirs so far

vars == <<accounts, entries, sessions, job, pc, change, work, holder, verdict, faults, barred>>

PC == {"idle", "read", "target", "count", "write", "session", "audit", "return", "raise",
       "returned", "raised"}
Waiting == {"read", "target", "count", "write", "session", "audit"}
None == [col \in {} |-> 0]

\* AdminUser.has_permission(AdminRole.ADMIN): the role counts, is_active does not.
HasPermission(row) == row # Absent /\ row.role \in {"superadmin", "admin"}

\* A superadmin is changed by superadmins only.
MayChange(by, row) == row.role = "superadmin" => by.role = "superadmin"

MayLogin(row) == row # Absent /\ row.active /\ ~row.locked

Managing == {"create", "update", "deactivate"}

Entitled(j, rows) == /\ j.op = "login" => MayLogin(rows[j.target])
                     /\ j.op \in Managing => HasPermission(rows[j.by])

\* Calls under way become entitled by what others commit meanwhile.
Reconsider(rows) ==
    barred' = {c \in barred : pc[c] \in {"returned", "raised"} \/ ~Entitled(job[c], rows)}

-----------------------------------------------------------------------------
Init ==
    /\ accounts = FirstRows
    /\ entries = {} /\ sessions = {}
    /\ job = [c \in Call |-> Nobody]
    /\ pc = [c \in Call |-> "idle"]
    /\ change = [c \in Call |-> None]
    /\ work = [c \in Call |-> Nobody]
    /\ holder = [a \in Admin |-> Nobody]
    /\ verdict = [c \in Call |-> "return"]
    /\ faults = 0
    /\ barred = {}

Goto(c, label) == pc' = [pc EXCEPT ![c] = label]

Sets(c, columns) == change' = [change EXCEPT ![c] = columns]

\* Goes on without setting anything or deciding how the call ends.
Just(c, label) == Goto(c, label) /\ UNCHANGED <<change, verdict>>

\* An audit entry, and then the exception.
Refuse(c) == /\ Goto(c, "audit")
             /\ verdict' = [verdict EXCEPT ![c] = "raise"]
             /\ UNCHANGED change

Plan(c, label, columns) == Goto(c, label) /\ Sets(c, columns) /\ UNCHANGED verdict

Begin(c) ==
    /\ pc[c] = "idle"
    /\ \E j \in Jobs :
          /\ job' = [job EXCEPT ![c] = j]
          /\ CASE j.op = "logout"    -> Just(c, "session")
               [] OTHER              -> Just(c, "read")
          /\ barred' = IF Entitled(j, accounts) THEN barred ELSE barred \cup {c}
    /\ UNCHANGED <<accounts, entries, sessions, work, holder, faults>>

-----------------------------------------------------------------------------
LoggedIn == [failed |-> 0, locked |-> FALSE]

\* Faulty variant of ReadLogin: is_active and is_locked are not looked at.
ReadLoginTrusting(c) ==
    /\ pc[c] = "read" /\ job[c].op = "login"
    /\ accounts[job[c].target] # Absent
    /\ Plan(c, "write", LoggedIn)
    /\ UNCHANGED <<accounts, entries, sessions, job, work, holder, faults, barred>>

\* The account is read; the password that came with the call is right or not.
\* For a locked account is_locked() raises: it compares a stamp with a time zone
\* and one without.
\* With two-factor enabled, login calls cache_service.set without its value: it raises.
ReadLogin(c) ==
    /\ pc[c] = "read" /\ job[c].op = "login"
    /\ LET row == accounts[job[c].target] IN
       \/ ~MayLogin(row) /\ IF row # Absent /\ row.active THEN Just(c, "raise") ELSE Refuse(c)
       \/ MayLogin(row) /\ Just(c, "count")
       \/ MayLogin(row) /\ row.tfa /\ Just(c, "raise")
       \/ MayLogin(row) /\ ~row.tfa /\ Plan(c, "write", LoggedIn)
    /\ UNCHANGED <<accounts, entries, sessions, job, work, holder, faults, barred>>

\* record_login_failure: the count is read, increased and written back.
ReadCount(c) ==
    /\ pc[c] = "count"
    /\ LET failed == accounts[job[c].target].failed + 1
       IN  Sets(c, IF failed >= MaxFailed THEN [failed |-> failed, locked |-> TRUE]
                                          ELSE [failed |-> failed])
    /\ verdict' = [verdict EXCEPT ![c] = "raise"]
    /\ Goto(c, "write")
    /\ UNCHANGED <<accounts, entries, sessions, job, work, holder, faults, barred>>

\* No two-factor session is ever stored (see ReadLogin), so none is found.
Verify2FA(c) ==
    /\ pc[c] = "read" /\ job[c].op = "verify2fa"
    /\ Refuse(c)
    /\ UNCHANGED <<accounts, entries, sessions, job, work, holder, faults, barred>>

\* The same call of cache_service.set ends enable_2fa, whatever was checked before.
Enable2FA(c) ==
    /\ pc[c] = "read" /\ job[c].op = "enable2fa"
    /\ Just(c, "raise")
    /\ UNCHANGED <<accounts, entries, sessions, job, work, holder, faults, barred>>

\* And so confirmation finds no setup.
Confirm2FA(c) ==
    /\ pc[c] = "read" /\ job[c].op = "confirm2fa"
    /\ Just(c, "raise")
    /\ UNCHANGED <<accounts, entries, sessions, job, work, holder, faults, barred>>

\* Methods about the caller's own account: they raise if the account is not found
\* or the password, the code or the new password will not do.
Own(c, op, columns) ==
    /\ pc[c] = "read" /\ job[c].op = op
    /\ \/ Just(c, "raise")
       \/ accounts[job[c].target] # Absent /\ Plan(c, "write", columns)
    /\ UNCHANGED <<accounts, entries, sessions, job, work, holder, faults, barred>>

Disarmed       == [tfa |-> FALSE, codes |-> Absent]
Recoded(c)     == [codes |-> c]
NewPassword(c) == [pass |-> c]

Disable2FA(c)            == Own(c, "disable2fa", Disarmed)
RegenerateBackupCodes(c) == Own(c, "regenerate", Recoded(c))
ChangePassword(c)        == Own(c, "password", NewPassword(c))

\* Methods about another account: may the caller do this at all?  update_admin
\* asks only once it has the target.
ReadCaller(c) ==
    /\ pc[c] = "read" /\ job[c].op \in Managing
    /\ LET by == accounts[job[c].by]
           refused == \/ by = Absent
                      \/ job[c].op # "update" /\ ~HasPermission(by)
                      \/ job[c].op = "deactivate" /\ job[c].by = job[c].target
       IN  \/ Just(c, "raise") /\ (refused \/ job[c].op = "create")   \* malformed address
           \/ ~refused /\ Plan(c, "target", [by |-> by])
    /\ UNCHANGED <<accounts, entries, sessions, job, work, holder, faults, barred>>

\* Faulty variant of NewAccount: failed_attempts without its default.
NewAccountBare(c, role) == [active |-> TRUE, role |-> role, pass |-> c, failed |-> Absent,
                            locked |-> FALSE, tfa |-> FALSE, codes |-> Absent]

NewAccount(c, role) == [active |-> TRUE, role |-> role, pass |-> c, failed |-> 0,
                        locked |-> FALSE, tfa |-> FALSE, codes |-> Absent]

\* The address is taken, or the password is weak; or it is a new account.
CreateAdmin(c) ==
    /\ pc[c] = "target" /\ job[c].op = "create"
    /\ \/ Just(c, "raise")
       \/ /\ accounts[job[c].target] = Absent
          /\ \E role \in Role : Plan(c, "write", NewAccount(c, role))
    /\ UNCHANGED <<accounts, entries, sessions, job, work, holder, faults, barred>>

\* Any of role and is_active may be set; setting neither changes the name, or nothing.
UpdateAdmin(c) ==
    /\ pc[c] = "target" /\ job[c].op = "update"
    /\ LET by  == change[c].by
           row == accounts[job[c].target]
       IN  IF row = Absent \/ ~HasPermission(by) THEN Just(c, "raise")
           ELSE IF ~MayChange(by, row) THEN Just(c, "raise")
           ELSE \/ Just(c, "return")
                \/ \E set \in SUBSET {"role", "active"}, role \in Role, active \in BOOLEAN :
                     IF "role" \in set /\ role = "superadmin" /\ by.role # role
                       THEN Just(c, "raise")
                       ELSE Plan(c, "write", [col \in set |-> IF col = "role" THEN role ELSE active])
    /\ UNCHANGED <<accounts, entries, sessions, job, work, holder, faults, barred>>

Deactivated == [active |-> FALSE]

DeactivateAdmin(c) ==
    /\ pc[c] = "target" /\ job[c].op = "deactivate"
    /\ LET row == accounts[job[c].target] IN
       IF row = Absent THEN Plan(c, "write", Deactivated)
       ELSE IF MayChange(change[c].by, row) THEN Plan(c, "write", Deactivated)
       ELSE Just(c, "raise")
    /\ UNCHANGED <<accounts, entries, sessions, job, work, holder, faults, barred>>

-----------------------------------------------------------------------------
Overlay(columns, row) ==
    [col \in Column |-> IF col \in DOMAIN columns THEN columns[col] ELSE row[col]]

\* _complete_login stores a session before it writes to the audit log.
AfterWrite(c) == IF job[c].op = "login" /\ verdict[c] = "return" THEN "session" ELSE "audit"

\* Faulty variant of Write: the row lock is not waited for.
WriteUnlocked(c) ==
    /\ pc[c] = "write" /\ accounts[job[c].target] # Absent
    /\ work' = [work EXCEPT ![c] = Overlay(change[c], accounts[job[c].target])]
    /\ holder' = [holder EXCEPT ![job[c].target] = c]
    /\ Goto(c, AfterWrite(c))
    /\ UNCHANGED <<accounts, entries, sessions, job, change, verdict, faults, barred>>

\* One UPDATE, of the row as it is when its lock is obtained, or the INSERT of a
\* new one, which a unique index makes wait for a rival and then fail.
Write(c) ==
    /\ pc[c] = "write"
    /\ LET a == job[c].target IN
       /\ holder[a] = Nobody
       /\ IF accounts[a] = Absent /\ job[c].op # "create"
            THEN Goto(c, "return") /\ UNCHANGED <<work, holder>>     \* no row matched
          ELSE IF accounts[a] # Absent /\ job[c].op = "create"
            THEN Goto(c, "raise") /\ UNCHANGED <<work, holder>>      \* duplicate address
          ELSE /\ work' = [work EXCEPT ![c] = Overlay(change[c], accounts[a])]
               /\ holder' = [holder EXCEPT ![a] = c]
               /\ Goto(c, AfterWrite(c))
    /\ UNCHANGED <<accounts, entries, sessions, job, change, verdict, faults, barred>>

\* The session of a login is put into Redis, that of a logout deleted; a cache that
\* is down is not noticed.
StoreSession(c) ==
    /\ pc[c] = "session" /\ job[c].op = "login"
    /\ sessions' \in {sessions, sessions \cup {c}}
    /\ Goto(c, "audit")
    /\ UNCHANGED <<accounts, entries, job, change, work, holder, verdict, faults, barred>>

DropSession(c) ==
    /\ pc[c] = "session" /\ job[c].op = "logout"
    /\ sessions' \in {sessions} \cup {sessions \ {s} : s \in sessions}
    /\ Goto(c, "audit")
    /\ UNCHANGED <<accounts, entries, job, change, work, holder, verdict, faults, barred>>

SessionExpires(c) ==
    /\ c \in sessions
    /\ sessions' = sessions \ {c}
    /\ UNCHANGED <<accounts, entries, job, pc, change, work, holder, verdict, faults, barred>>

Audit(c) ==
    /\ pc[c] = "audit"
    /\ Goto(c, verdict[c])
    /\ UNCHANGED <<accounts, entries, sessions, job, change, work, holder, verdict, faults, barred>>

-----------------------------------------------------------------------------
Release(c) == holder' = [a \in Admin |-> IF holder[a] = c THEN Nobody ELSE holder[a]]

\* Is there anything in the transaction of c?  Reads and an update that found
\* nothing to do leave no entry.
HasEntry(c) == work[c] # Nobody \/ job[c].op = "logout"

\* c is answered, and its transaction is over.
Finish(c, label) ==
    /\ Goto(c, label) /\ Release(c)
    /\ work' = [work EXCEPT ![c] = Nobody]
    /\ UNCHANGED <<sessions, job, change, verdict>>

Commit(c) ==
    IF HasEntry(c)
    THEN /\ entries' = entries \cup {<<c, job[c].op, job[c].target>>}
         /\ accounts' = IF work[c] = Nobody THEN accounts
                        ELSE [accounts EXCEPT ![job[c].target] = work[c]]
         /\ Reconsider(accounts')
    ELSE UNCHANGED <<accounts, entries, barred>>

Return(c) ==
    /\ pc[c] = "return"
    /\ Finish(c, "returned")
    /\ IF Unit[c] = "transaction" THEN Commit(c) ELSE UNCHANGED <<accounts, entries, barred>>
    /\ UNCHANGED faults

\* The COMMIT fails, or it is carried out and its answer is lost: the call raises.
CommitFails(c) ==
    /\ pc[c] = "return" /\ Unit[c] = "transaction"
    /\ faults < MaxFaults /\ faults' = faults + 1
    /\ Finish(c, "raised")
    /\ Commit(c) \/ UNCHANGED <<accounts, entries, barred>>

\* Faulty variant of Raise: the transaction is left open.
RaiseAndLeave(c) ==
    /\ pc[c] = "raise"
    /\ Goto(c, "raised")
    /\ UNCHANGED <<accounts, entries, sessions, job, change, work, holder, verdict, faults, barred>>

Raise(c) ==
    /\ pc[c] = "raise"
    /\ Finish(c, "raised")
    /\ UNCHANGED <<accounts, entries, faults, barred>>

\* A statement fails: the connection is lost, or it has waited for 30 seconds.
StatementFails(c) ==
    /\ pc[c] \in Waiting
    /\ faults < MaxFaults
    /\ faults' = faults + 1
    /\ verdict' = [verdict EXCEPT ![c] = "return"]
    /\ Goto(c, "raise")
    /\ UNCHANGED <<accounts, entries, sessions, job, change, work, holder, barred>>

Advance(c) ==
    \/ ReadLogin(c) \/ ReadCount(c) \/ Verify2FA(c) \/ Enable2FA(c) \/ Confirm2FA(c)
    \/ Disable2FA(c) \/ RegenerateBackupCodes(c) \/ ChangePassword(c)
    \/ ReadCaller(c) \/ CreateAdmin(c) \/ UpdateAdmin(c) \/ DeactivateAdmin(c)
    \/ Write(c) \/ StoreSession(c) \/ DropSession(c) \/ Audit(c) \/ Return(c) \/ Raise(c)

Next == \E c \in Call : Begin(c) \/ Advance(c) \/ SessionExpires(c) \/ StatementFails(c) \/ CommitFails(c)

Spec == Init /\ [][Next]_vars

\* A call that is under way goes on.
FairSpec == Spec /\ \A c \in Call : WF_vars(Advance(c))

-----------------------------------------------------------------------------
TypeOK ==
    /\ accounts \in [Admin -> Row \cup {Absent}]
    /\ entries \subseteq Entry
    /\ job \in [Call -> Job \cup {Nobody}]
    /\ sessions \subseteq Call
    /\ pc \in [Call -> PC]
    /\ work \in [Call -> Row \cup {Nobody}]
    /\ holder \in [Admin -> Call \cup {Nobody}]
    /\ verdict \in [Call -> {"return", "raise"}]
    /\ barred \subseteq Call /\ faults \in 0 .. MaxFaults

Ledger == INSTANCE AdminLedger WITH accounts <- accounts, entries <- entries

\* Calls that run at the same time change an account as if one after the other,
\* each its own columns and with its entry in the audit log, or leave neither
\* (AdminRepository's UPDATEs of single columns under the lock of the row; the
\* session that ends the transaction).
KeepsTheLedger == Ledger!Spec

\* A session is given out, and an account changed on behalf of somebody, only if
\* the account could log in, or that somebody held the role, at some moment of
\* the call (login, create_admin, update_admin and deactivate_admin check a row
\* that may be old by the time they write).
OnlyTheEntitled == /\ sessions \cap barred = {}
                   /\ \A e \in entries : e[2] \in Managing => e[1] \notin barred

\* Whatever fails, every call is answered and its locks are given back: no call
\* waits for a row for ever.
EveryCallEnds == \A c \in Call : pc[c] # "idle" ~> pc[c] \in {"returned", "raised"}
=============================================================================

------------------------ MODULE AdminAccountsProofs -------------------------
(***************************************************************************)
(* Theorems about AdminAccounts for any accounts, jobs and number of       *)
(* calls, whoever commits; and that it implements AdminLedger.             *)
(***************************************************************************)
EXTENDS AdminAccounts, TLAPS

-----------------------------------------------------------------------------
(* Columns and rows. *)

ColumnType == [active |-> BOOLEAN, role |-> Role, pass |-> Maker, failed |-> Nat,
               locked |-> BOOLEAN, tfa |-> BOOLEAN, codes |-> Maker]

Fits(columns, op) == /\ DOMAIN columns \subseteq Touches[op]
                     /\ \A col \in DOMAIN columns : columns[col] \in ColumnType[col]

LEMMA ColumnTypes ==
    /\ ColumnType["active"] = BOOLEAN /\ ColumnType["role"] = Role /\ ColumnType["pass"] = Maker
    /\ ColumnType["failed"] = Nat /\ ColumnType["locked"] = BOOLEAN /\ ColumnType["tfa"] = BOOLEAN
    /\ ColumnType["codes"] = Maker
BY DEF ColumnType

LEMMA TouchesNames ==
    /\ Touches["login"] = {"failed", "locked"} /\ Touches["disable2fa"] = {"tfa", "codes"}
    /\ Touches["regenerate"] = {"codes"} /\ Touches["password"] = {"pass"}
    /\ Touches["create"] = Column /\ Touches["update"] = {"role", "active"}
    /\ Touches["deactivate"] = {"active"}
    /\ \A op \in Method : Touches[op] \subseteq Column
BY DEF Touches, Method, Column

\* A function that gives each column a value of its type is a row.
LEMMA RowIsFunction ==
    ASSUME NEW row, row = [col \in Column |-> row[col]],
           \A col \in Column : row[col] \in ColumnType[col]
    PROVE  row \in Row
<1>1. /\ row["active"] \in BOOLEAN /\ row["role"] \in Role /\ row["pass"] \in Maker /\ row["failed"] \in Nat
      /\ row["locked"] \in BOOLEAN /\ row["tfa"] \in BOOLEAN /\ row["codes"] \in Maker
    BY ColumnTypes DEF Column
<1> QED
    BY <1>1 DEF Row, Column

LEMMA RowColumns ==
    ASSUME NEW row \in Row, NEW col \in Column
    PROVE  row[col] \in ColumnType[col]
BY ColumnTypes DEF Row, Column

\* A row overlaid with columns of a method differs in these only.
LEMMA OverlayEffect ==
    ASSUME NEW columns, NEW op \in Method, NEW row, Fits(columns, op),
           row \in Row \/ DOMAIN columns = Column
    PROVE  /\ Overlay(columns, row) \in Row
           /\ row \in Row => \A col \in Column \ Touches[op] : Overlay(columns, row)[col] = row[col]
<1> DEFINE new == Overlay(columns, row)
<1>1. new = [col \in Column |-> new[col]] /\ \A col \in Column : new[col] = IF col \in DOMAIN columns THEN columns[col] ELSE row[col]
    BY DEF Overlay
<1>2. \A col \in Column : new[col] \in ColumnType[col]
    BY <1>1, RowColumns DEF Fits
<1>3. new \in Row
    BY <1>1, <1>2, RowIsFunction
<1> QED
    BY <1>1, <1>3 DEF Fits

-----------------------------------------------------------------------------
(* The invariant, one call at a time. *)

Ended == {"returned", "raised"}
Working == {"session", "audit", "return", "raise"}

\* What a call is about to do fits its method, and who got that far was entitled.
Planned(c) ==
    /\ pc[c] = "count" => job[c].op = "login" /\ accounts[job[c].target] \in Row /\ c \notin barred
    /\ pc[c] = "target" => /\ job[c].op \in Managing /\ change[c].by \in Row
                           /\ HasPermission(change[c].by) => c \notin barred
                           /\ job[c].op # "update" => HasPermission(change[c].by)
    /\ pc[c] = "write" => /\ Fits(change[c], job[c].op)
                          /\ job[c].op = "create" => DOMAIN change[c] = Column
                          /\ job[c].op \in Managing \cup {"login"} => c \notin barred
    /\ pc[c] = "session" => job[c].op \in {"login", "logout"} /\ (job[c].op = "login" => c \notin barred)

\* What a call has written is under its lock, and in its own columns.
Worked(c) ==
    work[c] # Nobody =>
        /\ pc[c] \in Working /\ holder[job[c].target] = c
        /\ job[c].op \in Managing => c \notin barred
        /\ IF accounts[job[c].target] = Absent THEN job[c].op = "create"
           ELSE \A col \in Column \ Touches[job[c].op] : work[c][col] = accounts[job[c].target][col]

Standing(c) ==
    /\ pc[c] # "idle" => job[c] \in Job
    /\ c \in sessions => pc[c] # "idle" /\ c \notin barred
    /\ c \in barred => pc[c] # "idle" /\ (pc[c] \in Ended \/ ~Entitled(job[c], accounts))

Logged == \A e \in entries : pc[e[1]] \in Ended /\ (e[2] \in Managing => e[1] \notin barred)

IInv == /\ TypeOK /\ change = [c \in Call |-> change[c]] /\ Logged
        /\ \A c \in Call : Planned(c) /\ Worked(c) /\ Standing(c)

LEMMA IInvInit == Init => IInv
<1> SUFFICES ASSUME Init
             PROVE  IInv
    OBVIOUS
<1>1. TypeOK
    BY RowAssumption, LimitAssumption DEF Init, TypeOK, PC
<1>2. \A c \in Call : pc[c] = "idle" /\ work[c] = Nobody /\ c \notin sessions /\ c \notin barred
    BY DEF Init
<1> QED
    BY <1>1, <1>2 DEF Init, IInv, Logged, Planned, Worked, Standing

\* A step of c that writes nothing leaves the others where they are.
LEMMA LocalStep ==
    ASSUME IInv, NEW c \in Call, TypeOK', UNCHANGED <<accounts, entries, work, holder>>,
           change' = [d \in Call |-> change'[d]],
           \A d \in Call \ {c} : pc'[d] = pc[d] /\ job'[d] = job[d] /\ change'[d] = change[d],
           barred' \ {c} = barred \ {c}, sessions' \subseteq sessions \cup {c},
           pc[c] \notin Ended, Planned(c)', Worked(c)', Standing(c)'
    PROVE  IInv'
<1>1. ASSUME NEW d \in Call
      PROVE  Planned(d)' /\ Worked(d)' /\ Standing(d)'
    <2>1. CASE d = c
        BY <2>1
    <2>2. CASE d # c
        <3>1. /\ pc'[d] = pc[d] /\ job'[d] = job[d] /\ change'[d] = change[d] /\ (d \in barred' <=> d \in barred)
              /\ d \in sessions' => d \in sessions
            BY <2>2
        <3>2. Planned(d) /\ Worked(d) /\ Standing(d)
            BY DEF IInv
        <3> QED
            BY <3>1, <3>2 DEF Planned, Worked, Standing
    <2> QED
        BY <2>1, <2>2
<1>2. Logged'
    BY DEF IInv, TypeOK, Entry, Logged
<1> QED
    BY <1>1, <1>2 DEF IInv

LEMMA BeginStep ==
    ASSUME IInv, NEW c \in Call, Begin(c)
    PROVE  IInv'
<1>1. PICK j \in Jobs : /\ job' = [job EXCEPT ![c] = j]
                        /\ pc' = [pc EXCEPT ![c] = IF j.op = "logout" THEN "session" ELSE "read"]
                        /\ UNCHANGED <<change, verdict>>
                        /\ barred' = IF Entitled(j, accounts) THEN barred ELSE barred \cup {c}
    BY DEF Begin, Just, Goto
<1>2. j \in Job /\ pc[c] = "idle"
    BY CallAssumption DEF Begin
<1>3. /\ pc'[c] = (IF j.op = "logout" THEN "session" ELSE "read") /\ job'[c] = j
      /\ \A d \in Call \ {c} : pc'[d] = pc[d] /\ job'[d] = job[d]
    BY <1>1 DEF IInv, TypeOK
<1>4. UNCHANGED <<accounts, entries, sessions, work, holder, faults>>
    BY DEF Begin
<1>5. TypeOK'
    BY <1>1, <1>2, <1>4 DEF IInv, TypeOK, PC
<1>6. Planned(c)'
    BY <1>3 DEF Planned
<1>7. Worked(c)' /\ Standing(c)'
    <2>1. work[c] = Nobody /\ c \notin sessions /\ c \notin barred
        BY <1>2 DEF IInv, Worked, Standing, Working
    <2> QED
        BY <1>1, <1>2, <1>3, <1>4, <2>1 DEF Worked, Standing
<1> QED
    BY <1>1, <1>2, <1>3, <1>4, <1>5, <1>6, <1>7, LocalStep DEF IInv, Ended

-----------------------------------------------------------------------------
(* The steps that read and decide. *)

Reading == {"read", "count", "target"}
Decided == {"raise", "return", "audit"}

LEMMA PlanStep ==
    ASSUME IInv, NEW c \in Call, pc[c] \in Reading,
           UNCHANGED <<accounts, entries, sessions, job, work, holder, faults, barred>>,
           NEW label \in PC \ (Ended \cup {"idle"}), Goto(c, label),
           change' = change \/ \E columns : Sets(c, columns),
           verdict' \in [Call -> {"return", "raise"}],
           Planned(c)'
    PROVE  IInv'
<1>1. pc'[c] = label /\ (\A d \in Call \ {c} : pc'[d] = pc[d]) /\ pc' \in [Call -> PC]
    BY DEF Goto, IInv, TypeOK
<1>2. /\ change' = [d \in Call |-> change'[d]]
      /\ \A d \in Call \ {c} : change'[d] = change[d]
    BY DEF Sets, IInv
<1>3. TypeOK'
    BY <1>1 DEF IInv, TypeOK
<1>4. Worked(c)' /\ Standing(c)'
    <2>1. /\ work[c] = Nobody /\ pc[c] # "idle" /\ pc[c] \notin Ended
          /\ pc'[c] # "idle" /\ job[c] \in Job
        BY <1>1 DEF IInv, Worked, Working, Reading, Ended, Standing
    <2> QED
        BY <2>1 DEF IInv, Worked, Standing
<1>5. pc[c] \notin Ended
    BY DEF Reading, Ended
<1> QED
    BY <1>1, <1>2, <1>3, <1>4, <1>5, LocalStep

\* Deciding how to end plans nothing.
LEMMA DecideStep ==
    ASSUME IInv, NEW c \in Call, pc[c] \in Reading,
           UNCHANGED <<accounts, entries, sessions, job, work, holder, faults, barred>>,
           (\E label \in Decided : Just(c, label)) \/ Refuse(c)
    PROVE  IInv'
<1>1. PICK label \in Decided : Goto(c, label) /\ change' = change
    BY DEF Just, Refuse, Decided
<1>2. label \in PC \ (Ended \cup {"idle"})
    BY DEF Decided, PC, Ended
<1>3. verdict' \in [Call -> {"return", "raise"}]
    BY DEF Just, Refuse, IInv, TypeOK
<1>4. Planned(c)'
    BY <1>1 DEF Planned, Goto, Decided, IInv, TypeOK
<1> QED
    BY <1>1, <1>2, <1>3, <1>4, PlanStep

\* Planning to write the columns of the method, once entitled.
LEMMA WritePlanStep ==
    ASSUME IInv, NEW c \in Call, pc[c] \in Reading,
           UNCHANGED <<accounts, entries, sessions, job, work, holder, faults, barred>>,
           NEW columns, Goto(c, "write"), Sets(c, columns), Fits(columns, job[c].op),
           verdict' \in [Call -> {"return", "raise"}],
           job[c].op = "create" => DOMAIN columns = Column,
           job[c].op \in Managing \cup {"login"} => c \notin barred
    PROVE  IInv'
<1>1. "write" \in PC \ (Ended \cup {"idle"})
    BY DEF PC, Ended
<1>2. pc'[c] = "write" /\ change'[c] = columns
    BY DEF Goto, Sets, IInv, TypeOK
<1>3. Planned(c)'
    BY <1>2 DEF Planned, Fits
<1> QED
    BY <1>1, <1>3, PlanStep

\* A call that is not entitled is barred for as long as it is under way.
LEMMA EntitledNow ==
    ASSUME IInv, NEW c \in Call, pc[c] \in Reading, Entitled(job[c], accounts)
    PROVE  c \notin barred
BY DEF IInv, Standing, Reading, Ended

LEMMA JobKnown ==
    ASSUME IInv, NEW c \in Call, pc[c] \in Reading
    PROVE  /\ job[c].op \in Method /\ job[c].target \in Admin /\ job[c].by \in Admin
           /\ accounts[job[c].target] \in Row \cup {Absent} /\ accounts[job[c].by] \in Row \cup {Absent}
<1>1. job[c] \in Job
    BY DEF IInv, Standing, Reading
<1> QED
    BY <1>1 DEF Job, IInv, TypeOK

\* The columns that the methods about one's own account set.
LEMMA LoginFits ==
    /\ Fits(LoggedIn, "login")
    /\ \A n \in Nat : Fits([failed |-> n], "login") /\ Fits([failed |-> n, locked |-> TRUE], "login")
<1>1. DOMAIN LoggedIn = {"failed", "locked"} /\ LoggedIn["failed"] \in Nat
    BY DEF LoggedIn
<1>2. LoggedIn["locked"] \in BOOLEAN
    BY DEF LoggedIn
<1>3. ASSUME NEW n \in Nat
      PROVE  Fits([failed |-> n], "login") /\ Fits([failed |-> n, locked |-> TRUE], "login")
    <2> DEFINE two == [failed |-> n, locked |-> TRUE]
    <2>1. DOMAIN two = {"failed", "locked"} /\ two["failed"] \in Nat
        OBVIOUS
    <2>2. two["locked"] \in BOOLEAN
        OBVIOUS
    <2>3. Fits(two, "login")
        <3> HIDE DEF two
        <3> QED
            BY <2>1, <2>2, TouchesNames, ColumnTypes DEF Fits
    <2>4. Fits([failed |-> n], "login")
        BY TouchesNames, ColumnTypes DEF Fits
    <2> QED
        BY <2>3, <2>4
<1> QED
    BY <1>1, <1>2, <1>3, TouchesNames, ColumnTypes DEF Fits

LEMMA DisarmedFits == Fits(Disarmed, "disable2fa")
<1>1. DOMAIN Disarmed = {"tfa", "codes"} /\ Disarmed["codes"] \in Maker
    BY DEF Disarmed, Maker
<1>2. Disarmed["tfa"] \in BOOLEAN
    BY DEF Disarmed
<1> QED
    BY <1>1, <1>2, TouchesNames, ColumnTypes DEF Fits

LEMMA LoginStep ==
    ASSUME IInv, NEW c \in Call, ReadLogin(c)
    PROVE  IInv'
<1>1. /\ pc[c] \in Reading /\ job[c].op = "login"
      /\ UNCHANGED <<accounts, entries, sessions, job, work, holder, faults, barred>>
    BY DEF ReadLogin, Reading
<1> DEFINE row == accounts[job[c].target]
<1>2. CASE Refuse(c) \/ Just(c, "raise")
    BY <1>1, <1>2, DecideStep DEF Decided
<1>3. ASSUME MayLogin(row)
      PROVE  c \notin barred /\ row \in Row
    <2>1. Entitled(job[c], accounts)
        BY <1>1, <1>3 DEF Entitled, Managing
    <2> QED
        BY <1>1, <1>3, <2>1, EntitledNow, JobKnown DEF MayLogin
<1>4. CASE MayLogin(row) /\ Just(c, "count")
    <2>1. pc'[c] = "count" /\ verdict' = verdict /\ change' = change
        BY <1>4 DEF Just, Goto, IInv, TypeOK
    <2>2. Planned(c)'
        BY <1>1, <1>3, <1>4, <2>1 DEF Planned
    <2>3. "count" \in PC \ (Ended \cup {"idle"}) /\ Goto(c, "count")
        BY <1>4 DEF PC, Ended, Just
    <2>4. verdict' \in [Call -> {"return", "raise"}]
        BY <2>1 DEF IInv, TypeOK
    <2> QED
        BY <1>1, <2>1, <2>2, <2>3, <2>4, PlanStep
<1>5. CASE MayLogin(row) /\ Plan(c, "write", LoggedIn)
    <2>1. Fits(LoggedIn, job[c].op)
        BY <1>1, LoginFits
    <2>2. Goto(c, "write") /\ Sets(c, LoggedIn) /\ verdict' \in [Call -> {"return", "raise"}]
        BY <1>5 DEF Plan, IInv, TypeOK
    <2> QED
        BY <1>1, <1>3, <1>5, <2>1, <2>2, WritePlanStep
<1> QED
    BY <1>2, <1>4, <1>5 DEF ReadLogin

LEMMA CountStep ==
    ASSUME IInv, NEW c \in Call, ReadCount(c)
    PROVE  IInv'
<1>1. /\ pc[c] = "count" /\ pc[c] \in Reading /\ Goto(c, "write")
      /\ UNCHANGED <<accounts, entries, sessions, job, work, holder, faults, barred>>
      /\ verdict' \in [Call -> {"return", "raise"}]
    BY DEF ReadCount, Reading, IInv, TypeOK
<1>2. job[c].op = "login" /\ accounts[job[c].target] \in Row /\ c \notin barred
    BY <1>1 DEF IInv, Planned
<1> DEFINE failed == accounts[job[c].target].failed + 1
           columns == IF failed >= MaxFailed THEN [failed |-> failed, locked |-> TRUE] ELSE [failed |-> failed]
<1>3. failed \in Nat
    BY <1>2 DEF Row
<1>4. Fits(columns, job[c].op)
    <2> HIDE DEF failed
    <2>1. Fits([failed |-> failed], "login") /\ Fits([failed |-> failed, locked |-> TRUE], "login")
        BY <1>3, LoginFits
    <2> QED
        BY <1>2, <2>1
<1>5. Sets(c, columns)
    BY DEF ReadCount
<1> HIDE DEF columns
<1> QED
    BY <1>1, <1>2, <1>4, <1>5, WritePlanStep

\* Methods about the caller's own account.
LEMMA OwnStep ==
    ASSUME IInv, NEW c \in Call, NEW op \in Method \ (Managing \cup {"login"}), NEW columns,
           Fits(columns, op), Own(c, op, columns)
    PROVE  IInv'
<1>1. /\ pc[c] \in Reading /\ job[c].op = op
      /\ UNCHANGED <<accounts, entries, sessions, job, work, holder, faults, barred>>
    BY DEF Own, Reading
<1>2. CASE Just(c, "raise")
    BY <1>1, <1>2, DecideStep DEF Decided
<1>3. CASE Plan(c, "write", columns)
    <2>1. Goto(c, "write") /\ Sets(c, columns) /\ verdict' \in [Call -> {"return", "raise"}]
        BY <1>3 DEF Plan, IInv, TypeOK
    <2> QED
        BY <1>1, <2>1, WritePlanStep DEF Managing
<1> QED
    BY <1>2, <1>3 DEF Own

LEMMA TwoFactorStep ==
    ASSUME IInv, NEW c \in Call,
           \/ Verify2FA(c) \/ Enable2FA(c) \/ Confirm2FA(c)
           \/ Disable2FA(c) \/ RegenerateBackupCodes(c) \/ ChangePassword(c)
    PROVE  IInv'
<1>1. CASE Verify2FA(c) \/ Enable2FA(c) \/ Confirm2FA(c)
    <2>1. /\ pc[c] \in Reading
          /\ UNCHANGED <<accounts, entries, sessions, job, work, holder, faults, barred>>
          /\ Refuse(c) \/ Just(c, "raise")
        BY <1>1 DEF Verify2FA, Enable2FA, Confirm2FA, Reading
    <2> QED
        BY <2>1, DecideStep DEF Decided
<1>2. CASE Disable2FA(c)
    <2>1. Fits(Disarmed, "disable2fa") /\ "disable2fa" \in Method \ (Managing \cup {"login"})
        BY DisarmedFits DEF Method, Managing
    <2> QED
        BY <1>2, <2>1, OwnStep DEF Disable2FA
<1>3. CASE RegenerateBackupCodes(c)
    <2>1. Fits(Recoded(c), "regenerate") /\ "regenerate" \in Method \ (Managing \cup {"login"})
        BY TouchesNames, ColumnTypes DEF Fits, Recoded, Maker, Method, Managing
    <2> QED
        BY <1>3, <2>1, OwnStep DEF RegenerateBackupCodes
<1>4. CASE ChangePassword(c)
    <2>1. Fits(NewPassword(c), "password") /\ "password" \in Method \ (Managing \cup {"login"})
        BY TouchesNames, ColumnTypes DEF Fits, NewPassword, Maker, Method, Managing
    <2> QED
        BY <1>4, <2>1, OwnStep DEF ChangePassword
<1> QED
    BY <1>1, <1>2, <1>3, <1>4

\* Methods about another account.
LEMMA CallerStep ==
    ASSUME IInv, NEW c \in Call, ReadCaller(c)
    PROVE  IInv'
<1>1. /\ pc[c] \in Reading /\ job[c].op \in Managing
      /\ UNCHANGED <<accounts, entries, sessions, job, work, holder, faults, barred>>
    BY DEF ReadCaller, Reading
<1> DEFINE by == accounts[job[c].by]
<1>2. CASE Just(c, "raise")
    BY <1>1, <1>2, DecideStep DEF Decided
<1>3. CASE by # Absent /\ (job[c].op # "update" => HasPermission(by)) /\ Plan(c, "target", [by |-> by])
    <2>1. /\ Goto(c, "target") /\ Sets(c, [by |-> by]) /\ verdict' \in [Call -> {"return", "raise"}]
          /\ "target" \in PC \ (Ended \cup {"idle"})
        BY <1>3 DEF Plan, IInv, TypeOK, PC, Ended
    <2>2. pc'[c] = "target" /\ change'[c].by = by
        BY <2>1 DEF Goto, Sets, IInv, TypeOK
    <2>3. by \in Row
        BY <1>1, <1>3, JobKnown
    <2>4. HasPermission(by) => c \notin barred
        <3>1. HasPermission(by) => Entitled(job[c], accounts)
            BY <1>1 DEF Entitled, Managing
        <3> QED
            BY <1>1, <3>1, EntitledNow
    <2>5. Planned(c)'
        BY <1>1, <1>3, <2>2, <2>3, <2>4 DEF Planned, HasPermission
    <2> QED
        BY <1>1, <2>1, <2>5, PlanStep
<1> QED
    BY <1>2, <1>3 DEF ReadCaller

\* Who has read the caller's row and found it good enough goes on.
LEMMA TargetStep ==
    ASSUME IInv, NEW c \in Call, pc[c] = "target", HasPermission(change[c].by),
           UNCHANGED <<accounts, entries, sessions, job, work, holder, faults, barred>>,
           NEW columns, Fits(columns, job[c].op), Plan(c, "write", columns),
           job[c].op = "create" => DOMAIN columns = Column
    PROVE  IInv'
<1>1. /\ pc[c] \in Reading /\ c \notin barred /\ Goto(c, "write") /\ Sets(c, columns)
      /\ verdict' \in [Call -> {"return", "raise"}]
    BY DEF Reading, IInv, Planned, Plan, TypeOK
<1> QED
    BY <1>1, WritePlanStep

LEMMA NewAccountFits ==
    ASSUME NEW c \in Call, NEW role \in Role
    PROVE  Fits(NewAccount(c, role), "create") /\ DOMAIN NewAccount(c, role) = Column
<1> DEFINE row == NewAccount(c, role)
<1>1. DOMAIN row = Column
    BY DEF NewAccount, Column
<1>2. row["role"] \in Role /\ row["pass"] \in Maker /\ row["codes"] \in Maker /\ row["failed"] \in Nat
    BY DEF NewAccount, Maker
<1>3. row["active"] \in BOOLEAN
    BY DEF NewAccount
<1>4. row["locked"] \in BOOLEAN
    BY DEF NewAccount
<1>5. row["tfa"] \in BOOLEAN
    BY DEF NewAccount
<1>6. \A col \in Column : row[col] \in ColumnType[col]
    <2> HIDE DEF row
    <2> QED
        BY <1>2, <1>3, <1>4, <1>5, ColumnTypes DEF Column
<1> QED
    BY <1>1, <1>6, TouchesNames DEF Fits

LEMMA UpdateFits ==
    ASSUME NEW set \in SUBSET {"role", "active"}, NEW role \in Role, NEW active \in BOOLEAN
    PROVE  Fits([col \in set |-> IF col = "role" THEN role ELSE active], "update")
<1> DEFINE columns == [col \in set |-> IF col = "role" THEN role ELSE active]
<1>1. "role" \in set => columns["role"] \in ColumnType["role"]
    BY ColumnTypes
<1>2. "active" \in set => columns["active"] \in ColumnType["active"]
    <2>1. "active" \in set => columns["active"] = active
        OBVIOUS
    <2>2. active \in ColumnType["active"]
        BY ColumnTypes
    <2> QED
        BY <2>1, <2>2
<1>3. DOMAIN columns = set
    OBVIOUS
<1>4. Fits(columns, "update")
    <2> HIDE DEF columns
    <2>1. \A col \in DOMAIN columns : columns[col] \in ColumnType[col]
        BY <1>1, <1>2, <1>3
    <2>2. DOMAIN columns \subseteq Touches["update"]
        BY <1>3, TouchesNames
    <2> QED
        BY <2>1, <2>2 DEF Fits
<1> QED
    BY <1>4

LEMMA DeactivatedFits == Fits(Deactivated, "deactivate")
<1>1. DOMAIN Deactivated = {"active"}
    BY DEF Deactivated
<1>2. Deactivated["active"] \in BOOLEAN
    BY DEF Deactivated
<1> QED
    BY <1>1, <1>2, TouchesNames, ColumnTypes DEF Fits

LEMMA ManageStep ==
    ASSUME IInv, NEW c \in Call, CreateAdmin(c) \/ UpdateAdmin(c) \/ DeactivateAdmin(c)
    PROVE  IInv'
<1>1. /\ pc[c] = "target" /\ pc[c] \in Reading
      /\ UNCHANGED <<accounts, entries, sessions, job, work, holder, faults, barred>>
    BY DEF CreateAdmin, UpdateAdmin, DeactivateAdmin, Reading
<1>2. CASE Just(c, "raise") \/ Just(c, "return")
    BY <1>1, <1>2, DecideStep DEF Decided
<1>3. job[c].op # "update" => HasPermission(change[c].by)
    BY <1>1 DEF IInv, Planned
<1>4. ASSUME job[c].op = "create", NEW role \in Role, Plan(c, "write", NewAccount(c, role))
      PROVE  IInv'
    BY <1>1, <1>3, <1>4, NewAccountFits, TargetStep
<1>5. ASSUME job[c].op = "update", HasPermission(change[c].by),
             NEW set \in SUBSET {"role", "active"}, NEW role \in Role, NEW active \in BOOLEAN,
             Plan(c, "write", [col \in set |-> IF col = "role" THEN role ELSE active])
      PROVE  IInv'
    BY <1>1, <1>5, UpdateFits, TargetStep
<1>6. CASE job[c].op = "deactivate" /\ Plan(c, "write", Deactivated)
    BY <1>1, <1>3, <1>6, DeactivatedFits, TargetStep
<1>7. CASE CreateAdmin(c)
    BY <1>2, <1>4, <1>7 DEF CreateAdmin
<1>8. CASE UpdateAdmin(c)
    BY <1>2, <1>5, <1>8 DEF UpdateAdmin
<1>9. CASE DeactivateAdmin(c)
    BY <1>2, <1>6, <1>9 DEF DeactivateAdmin
<1> QED
    BY <1>7, <1>8, <1>9

-----------------------------------------------------------------------------
(* The steps that write, and the end of a call. *)

LEMMA WriteStep ==
    ASSUME IInv, NEW c \in Call, Write(c)
    PROVE  IInv'
<1> DEFINE a == job[c].target
           op == job[c].op
           new == Overlay(change[c], accounts[a])
<1>1. /\ pc[c] = "write" /\ holder[a] = Nobody
      /\ UNCHANGED <<accounts, entries, sessions, job, change, verdict, faults, barred>>
    BY DEF Write
<1>2. /\ Planned(c) /\ Worked(c) /\ Standing(c) /\ TypeOK /\ work[c] = Nobody
      /\ change' = [d \in Call |-> change'[d]]
    BY <1>1 DEF IInv, Worked, Working
<1>3. job[c] \in Job /\ a \in Admin /\ op \in Method /\ accounts[a] \in Row \cup {Absent}
    BY <1>1, <1>2 DEF Standing, Job, TypeOK
<1>4. /\ Fits(change[c], op) /\ (op = "create" => DOMAIN change[c] = Column)
      /\ op \in Managing \cup {"login"} => c \notin barred
    BY <1>1, <1>2 DEF Planned
<1>5. CASE UNCHANGED <<work, holder>> /\ (Goto(c, "return") \/ Goto(c, "raise"))
    <2>1. /\ pc' \in [Call -> PC] /\ pc'[c] \in {"return", "raise"}
          /\ \A d \in Call \ {c} : pc'[d] = pc[d]
        BY <1>2, <1>5 DEF Goto, TypeOK, PC
    <2>2. TypeOK'
        BY <1>1, <1>2, <1>5, <2>1 DEF TypeOK
    <2>3. Planned(c)' /\ Worked(c)' /\ Standing(c)'
        BY <1>1, <1>2, <1>5, <2>1 DEF Planned, Worked, Standing, Ended
    <2> QED
        BY <1>1, <1>2, <1>5, <2>1, <2>2, <2>3, LocalStep DEF Ended
<1>6. CASE /\ work' = [work EXCEPT ![c] = new] /\ holder' = [holder EXCEPT ![a] = c] /\ Goto(c, AfterWrite(c))
           /\ accounts[a] = Absent <=> op = "create"
    <2>1. /\ new \in Row
          /\ accounts[a] \in Row => \A col \in Column \ Touches[op] : new[col] = accounts[a][col]
        BY <1>3, <1>4, <1>6, OverlayEffect
    <2>2. AfterWrite(c) \in {"session", "audit"} /\ (AfterWrite(c) = "session" => op = "login")
        BY DEF AfterWrite
    <2>3. /\ pc' \in [Call -> PC] /\ pc'[c] = AfterWrite(c)
          /\ \A d \in Call \ {c} : pc'[d] = pc[d]
        BY <1>2, <1>6, <2>2 DEF Goto, TypeOK, PC
    <2> HIDE DEF new
    <2>4. work'[c] = new /\ holder'[a] = c /\ work' \in [Call -> Row \cup {Nobody}] /\ holder' \in [Admin -> Call \cup {Nobody}]
          /\ (\A d \in Call \ {c} : work'[d] = work[d]) /\ \A b \in Admin \ {a} : holder'[b] = holder[b]
        BY <1>2, <1>3, <1>6, <2>1 DEF TypeOK
    <2>5. TypeOK'
        BY <1>1, <1>2, <2>3, <2>4 DEF TypeOK
    <2>6. Planned(c)'
        BY <1>1, <1>4, <2>2, <2>3 DEF Planned, Managing
    <2>7. Worked(c)'
        BY <1>1, <1>3, <1>4, <1>6, <2>1, <2>2, <2>3, <2>4 DEF Worked, Working
    <2>8. Standing(c)'
        BY <1>1, <1>2, <2>2, <2>3 DEF Standing, Ended
    <2>9. ASSUME NEW d \in Call \ {c}
          PROVE  Planned(d)' /\ Worked(d)' /\ Standing(d)'
        <3>1. Planned(d) /\ Worked(d) /\ Standing(d)
            BY DEF IInv
        <3>2. Planned(d)' /\ Standing(d)'
            BY <1>1, <2>3, <3>1 DEF Planned, Standing
        <3>3. Worked(d)'
            <4>1. work[d] # Nobody => pc[d] # "idle"
                BY <3>1 DEF Worked, Working
            <4>2. work[d] # Nobody => job[d].target \in Admin /\ job[d].target # a
                BY <1>1, <3>1, <4>1, RowAssumption DEF Worked, Standing, Job
            <4> QED
                BY <1>1, <2>3, <2>4, <3>1, <4>2 DEF Worked
        <3> QED
            BY <3>2, <3>3
    <2>10. Logged'
        <3>1. \A e \in entries : e[1] # c /\ e[1] \in Call
            BY <1>1, <1>2 DEF IInv, Logged, TypeOK, Entry, Ended
        <3> QED
            BY <1>1, <2>3, <3>1 DEF IInv, Logged
    <2> QED
        BY <1>2, <2>5, <2>6, <2>7, <2>8, <2>9, <2>10 DEF IInv
<1> QED
    BY <1>5, <1>6 DEF Write

\* Sessions and the audit log.
LEMMA SessionStep ==
    ASSUME IInv, NEW c \in Call, StoreSession(c) \/ DropSession(c) \/ Audit(c)
    PROVE  IInv'
<1>1. /\ pc[c] \in {"session", "audit"} /\ sessions' \subseteq sessions \cup {c}
      /\ UNCHANGED <<accounts, entries, job, change, work, holder, verdict, faults, barred>>
      /\ \E label \in {"audit", "return", "raise"} : Goto(c, label)
      /\ c \in sessions' => c \in sessions \/ StoreSession(c)
    BY DEF StoreSession, DropSession, Audit, IInv, TypeOK
<1>2. /\ pc' \in [Call -> PC] /\ pc'[c] \in {"audit", "return", "raise"}
      /\ \A d \in Call \ {c} : pc'[d] = pc[d]
    BY <1>1 DEF Goto, IInv, TypeOK, PC
<1>3. TypeOK'
    BY <1>1, <1>2 DEF IInv, TypeOK
<1>4. StoreSession(c) => c \notin barred
    BY DEF StoreSession, IInv, Planned
<1>5. Planned(c)' /\ Worked(c)' /\ Standing(c)'
    <2>1. Planned(c) /\ Worked(c) /\ Standing(c)
        BY DEF IInv
    <2> QED
        BY <1>1, <1>2, <1>4, <2>1 DEF Planned, Worked, Working, Standing, Ended
<1> QED
    BY <1>1, <1>2, <1>3, <1>5, LocalStep DEF IInv, Ended

LEMMA SessionExpiresStep ==
    ASSUME IInv, NEW c \in Call, SessionExpires(c)
    PROVE  IInv'
<1>1. /\ sessions' = sessions \ {c}
      /\ UNCHANGED <<accounts, entries, job, pc, change, work, holder, verdict, faults, barred>>
    BY DEF SessionExpires
<1> QED
    BY <1>1 DEF IInv, TypeOK, Logged, Planned, Worked, Standing

LEMMA StatementFailsStep ==
    ASSUME IInv, NEW c \in Call, StatementFails(c)
    PROVE  IInv'
<1>1. /\ pc[c] \in Waiting /\ pc' = [pc EXCEPT ![c] = "raise"] /\ verdict' = [verdict EXCEPT ![c] = "return"]
      /\ faults < MaxFaults /\ faults' = faults + 1
      /\ UNCHANGED <<accounts, entries, sessions, job, change, work, holder, barred>>
    BY DEF StatementFails, Goto
<1>2. /\ pc' \in [Call -> PC] /\ pc'[c] = "raise" /\ \A d \in Call \ {c} : pc'[d] = pc[d]
    BY <1>1 DEF IInv, TypeOK, PC
<1>3. faults' \in 0..MaxFaults /\ verdict' \in [Call -> {"return", "raise"}]
    BY <1>1, LimitAssumption DEF IInv, TypeOK
<1>4. TypeOK'
    BY <1>1, <1>2, <1>3 DEF IInv, TypeOK
<1>5. Planned(c)' /\ Worked(c)' /\ Standing(c)'
    <2>1. Planned(c) /\ Worked(c) /\ Standing(c)
        BY DEF IInv
    <2> QED
        BY <1>1, <1>2, <2>1 DEF Planned, Worked, Working, Standing, Ended, Waiting
<1> QED
    BY <1>1, <1>2, <1>4, <1>5, LocalStep DEF IInv, Waiting, Ended

\* The end of a call gives its locks back; a call that holds one keeps it.
LEMMA ReleaseEffect ==
    ASSUME IInv, NEW c \in Call, Release(c)
    PROVE  /\ holder' \in [Admin -> Call \cup {Nobody}]
           /\ \A d \in Call \ {c} : \A b \in Admin : holder[b] = d => holder'[b] = d
BY RowAssumption DEF Release, IInv, TypeOK

\* Two calls do not hold one row.
LEMMA OneWriter ==
    ASSUME IInv, NEW c \in Call, NEW d \in Call \ {c}, work[c] # Nobody, work[d] # Nobody
    PROVE  job[c].target # job[d].target
BY DEF IInv, Worked

LEMMA RaiseStep ==
    ASSUME IInv, NEW c \in Call, Raise(c)
    PROVE  IInv'
<1>1. /\ pc[c] = "raise" /\ pc' = [pc EXCEPT ![c] = "raised"] /\ Release(c)
      /\ work' = [work EXCEPT ![c] = Nobody]
      /\ UNCHANGED <<accounts, entries, sessions, job, change, verdict, faults, barred>>
    BY DEF Raise, Finish, Goto
<1>2. /\ pc' \in [Call -> PC] /\ pc'[c] = "raised" /\ (\A d \in Call \ {c} : pc'[d] = pc[d])
      /\ work' \in [Call -> Row \cup {Nobody}] /\ work'[c] = Nobody
      /\ \A d \in Call \ {c} : work'[d] = work[d]
    BY <1>1 DEF IInv, TypeOK, PC
<1>3. TypeOK'
    BY <1>1, <1>2, ReleaseEffect DEF IInv, TypeOK
<1>4. ASSUME NEW d \in Call
      PROVE  Planned(d)' /\ Worked(d)' /\ Standing(d)'
    <2>1. Planned(d) /\ Worked(d) /\ Standing(d)
        BY DEF IInv
    <2>2. CASE d = c
        BY <1>1, <1>2, <2>1, <2>2 DEF Planned, Worked, Standing, Ended
    <2>3. CASE d # c
        <3>1. Planned(d)' /\ Standing(d)'
            BY <1>1, <1>2, <2>1, <2>3 DEF Planned, Standing
        <3>2. Worked(d)'
            <4>1. work[d] # Nobody => job[d].target \in Admin
                BY <2>1 DEF Worked, Working, Standing, Job
            <4> QED
                BY <1>1, <1>2, <2>1, <2>3, <4>1, ReleaseEffect DEF Worked
        <3> QED
            BY <3>1, <3>2
    <2> QED
        BY <2>2, <2>3
<1>5. Logged'
    BY <1>1, <1>2 DEF IInv, Logged, TypeOK, Ended
<1> QED
    BY <1>1, <1>3, <1>4, <1>5 DEF IInv

\* What the end of a transaction commits: nothing, or the row it worked on and an entry.
LEMMA ReturnEffect ==
    ASSUME IInv, NEW c \in Call, Return(c) \/ CommitFails(c)
    PROVE  /\ accounts' \in [Admin -> Row \cup {Absent}]
           /\ \/ UNCHANGED <<accounts, entries, barred>>
              \/ /\ HasEntry(c) /\ Reconsider(accounts') /\ job[c] \in Job
                 /\ entries' = entries \cup {<<c, job[c].op, job[c].target>>}
                 /\ \A b \in Admin \ {job[c].target} : accounts'[b] = accounts[b]
                 /\ \/ accounts'[job[c].target] = accounts[job[c].target]
                    \/ work[c] # Nobody /\ accounts'[job[c].target] = work[c]
<1>1. job[c] \in Job /\ job[c].target \in Admin
    BY DEF Return, CommitFails, IInv, Standing, Job
<1>2. CASE UNCHANGED <<accounts, entries, barred>>
    BY <1>2 DEF IInv, TypeOK
<1>3. CASE /\ HasEntry(c)
           /\ entries' = entries \cup {<<c, job[c].op, job[c].target>>}
           /\ accounts' = (IF work[c] = Nobody THEN accounts ELSE [accounts EXCEPT ![job[c].target] = work[c]])
           /\ Reconsider(accounts')
    <2>1. work[c] # Nobody => work[c] \in Row
        BY DEF IInv, TypeOK
    <2>2. CASE work[c] = Nobody
        BY <1>1, <1>3, <2>2 DEF IInv, TypeOK
    <2>3. CASE work[c] # Nobody
        BY <1>1, <1>3, <2>1, <2>3 DEF IInv, TypeOK
    <2> QED
        BY <2>2, <2>3
<1> QED
    BY <1>2, <1>3 DEF Return, CommitFails, Commit

LEMMA ReturnStep ==
    ASSUME IInv, NEW c \in Call, Return(c) \/ CommitFails(c)
    PROVE  IInv'
<1>1. /\ pc[c] = "return" /\ Release(c)
      /\ \E label \in Ended : pc' = [pc EXCEPT ![c] = label]
      /\ work' = [work EXCEPT ![c] = Nobody]
      /\ UNCHANGED <<sessions, job, change, verdict>>
    BY DEF Return, CommitFails, Finish, Goto, Ended
<1>10. faults' \in 0..MaxFaults
    BY LimitAssumption DEF Return, CommitFails, IInv, TypeOK
<1>2. /\ pc' \in [Call -> PC] /\ pc'[c] \in Ended /\ (\A d \in Call \ {c} : pc'[d] = pc[d])
      /\ work' \in [Call -> Row \cup {Nobody}] /\ work'[c] = Nobody
      /\ \A d \in Call \ {c} : work'[d] = work[d]
    BY <1>1 DEF IInv, TypeOK, PC, Ended
<1>3. job[c] \in Job /\ job[c].target \in Admin /\ job[c].op \in Method
    BY <1>1 DEF IInv, Standing, Job
<1>4. accounts' \in [Admin -> Row \cup {Absent}] /\ barred' \subseteq barred
    BY ReturnEffect DEF Reconsider
<1>5. entries' \subseteq Entry
    BY <1>3, ReturnEffect DEF IInv, TypeOK, Entry
<1>6. TypeOK'
    BY <1>1, <1>2, <1>4, <1>5, <1>10, ReleaseEffect DEF IInv, TypeOK
<1>7. \A a \in Admin : accounts[a] \in Row => accounts'[a] \in Row
    BY ReturnEffect, <1>3 DEF IInv, TypeOK
<1>8. ASSUME NEW d \in Call
      PROVE  Planned(d)' /\ Worked(d)' /\ Standing(d)'
    <2>1. Planned(d) /\ Worked(d) /\ Standing(d)
        BY DEF IInv
    <2>2. CASE d = c
        BY <1>1, <1>2, <1>3, <1>4, <2>1, <2>2 DEF Planned, Worked, Standing, Ended
    <2>3. CASE d # c
        <3>1. pc[d] # "idle" => job[d] \in Job /\ job[d].target \in Admin
            BY <2>1 DEF Standing, Job
        <3>2. Planned(d)'
            BY <1>1, <1>2, <1>4, <1>7, <2>1, <2>3, <3>1 DEF Planned
        <3>3. d \in barred' => pc[d] \in Ended \/ ~Entitled(job[d], accounts')
            BY <2>1, ReturnEffect DEF Reconsider, Standing, Ended
        <3>4. Standing(d)'
            BY <1>1, <1>2, <1>4, <2>1, <2>3, <3>3 DEF Standing
        <3>5. work[d] # Nobody => pc[d] # "idle" /\ accounts'[job[d].target] = accounts[job[d].target]
            BY <2>1, <2>3, <3>1, ReturnEffect, OneWriter DEF Worked, Working
        <3>6. Worked(d)'
            BY <1>1, <1>2, <1>4, <2>1, <2>3, <3>1, <3>5, ReleaseEffect DEF Worked
        <3> QED
            BY <3>2, <3>4, <3>6
    <2> QED
        BY <2>2, <2>3
<1>9. Logged'
    <2>1. ASSUME NEW e \in entries'
          PROVE  pc'[e[1]] \in Ended /\ (e[2] \in Managing => e[1] \notin barred')
        <3>1. CASE e \in entries
            BY <1>1, <1>2, <1>4, <3>1 DEF IInv, Logged, TypeOK, Ended
        <3>2. CASE e = <<c, job[c].op, job[c].target>> /\ HasEntry(c)
            <4>1. job[c].op \in Managing => c \notin barred
                BY <3>2 DEF HasEntry, Managing, IInv, Worked
            <4> QED
                BY <1>2, <1>4, <3>2, <4>1
        <3> QED
            BY <3>1, <3>2, ReturnEffect
    <2> QED
        BY <2>1 DEF Logged
<1> QED
    BY <1>1, <1>6, <1>8, <1>9 DEF IInv

LEMMA IInvStep == IInv /\ [Next]_vars => IInv'
<1> SUFFICES ASSUME IInv, [Next]_vars
             PROVE  IInv'
    OBVIOUS
<1>1. ASSUME NEW c \in Call, Begin(c) \/ SessionExpires(c) \/ StatementFails(c)
      PROVE  IInv'
    BY <1>1, BeginStep, SessionExpiresStep, StatementFailsStep
<1>2. ASSUME NEW c \in Call, ReadLogin(c) \/ ReadCount(c)
      PROVE  IInv'
    BY <1>2, LoginStep, CountStep
<1>3. ASSUME NEW c \in Call,
             \/ Verify2FA(c) \/ Enable2FA(c) \/ Confirm2FA(c)
             \/ Disable2FA(c) \/ RegenerateBackupCodes(c) \/ ChangePassword(c)
      PROVE  IInv'
    BY <1>3, TwoFactorStep
<1>4. ASSUME NEW c \in Call, ReadCaller(c)
      PROVE  IInv'
    BY <1>4, CallerStep
<1>5. ASSUME NEW c \in Call, CreateAdmin(c) \/ UpdateAdmin(c) \/ DeactivateAdmin(c)
      PROVE  IInv'
    BY <1>5, ManageStep
<1>6. ASSUME NEW c \in Call, Write(c)
      PROVE  IInv'
    BY <1>6, WriteStep
<1>7. ASSUME NEW c \in Call, StoreSession(c) \/ DropSession(c) \/ Audit(c)
      PROVE  IInv'
    BY <1>7, SessionStep
<1>8. ASSUME NEW c \in Call, Return(c) \/ CommitFails(c) \/ Raise(c)
      PROVE  IInv'
    BY <1>8, ReturnStep, RaiseStep
<1>9. CASE UNCHANGED vars
    BY <1>9 DEF vars, IInv, TypeOK, Logged, Planned, Worked, Standing
<1> QED
    BY <1>1, <1>2, <1>3, <1>4, <1>5, <1>6, <1>7, <1>8, <1>9 DEF Next, Advance

LEMMA IInvHolds == Spec => []IInv
BY IInvInit, IInvStep, PTL DEF Spec

-----------------------------------------------------------------------------
(* The theorems. *)

\* Types, for any accounts, calls and jobs, and whoever commits.
THEOREM TypeCorrect == Spec => []TypeOK
<1>1. IInv => TypeOK
    BY DEF IInv
<1> QED
    BY <1>1, IInvHolds, PTL

\* However calls interleave, a session is given out, and an account changed, only
\* for somebody who was entitled at some moment of the call.
\* (admin_service.py:166-193, 841-1099)
THEOREM EntitledOnly == Spec => []OnlyTheEntitled
<1>1. ASSUME IInv
      PROVE  OnlyTheEntitled
    <2>1. sessions \cap barred = {}
        BY <1>1 DEF IInv, Standing, TypeOK
    <2> QED
        BY <1>1, <2>1 DEF OnlyTheEntitled, IInv, Logged
<1> QED
    BY <1>1, IInvHolds, PTL

\* A COMMIT is one record of the ledger, and no other step writes.
LEMMA LedgerStep == IInv /\ [Next]_vars => [Ledger!Next]_<<accounts, entries>>
<1> SUFFICES ASSUME IInv, [Next]_vars, ~UNCHANGED <<accounts, entries>>
             PROVE  Ledger!Next
    OBVIOUS
<1>1. PICK c \in Call : Return(c) \/ CommitFails(c)
    BY DEF Next, Advance, Begin, ReadLogin, ReadCount, Verify2FA, Enable2FA, Confirm2FA, Disable2FA,
           RegenerateBackupCodes, ChangePassword, Own, ReadCaller, CreateAdmin, UpdateAdmin, DeactivateAdmin,
           Write, StoreSession, DropSession, SessionExpires, Audit, Raise, Finish, StatementFails, vars
<1> DEFINE a == job[c].target
           op == job[c].op
<1>2. /\ job[c] \in Job /\ accounts' \in [Admin -> Row \cup {Absent}]
      /\ entries' = entries \cup {<<c, op, a>>}
      /\ \A b \in Admin \ {a} : accounts'[b] = accounts[b]
      /\ \/ accounts'[a] = accounts[a]
         \/ work[c] # Nobody /\ accounts'[a] = work[c]
    BY <1>1, ReturnEffect
<1>3. \A e \in entries : e[1] # c
    BY <1>1 DEF IInv, Logged, Return, CommitFails, Ended
<1>4. IF accounts[a] = Absent
        THEN accounts'[a] = Absent \/ op = "create"
        ELSE \A col \in Column \ Touches[op] : accounts'[a][col] = accounts[a][col]
    <2>1. Worked(c)
        BY DEF IInv
    <2>2. CASE accounts'[a] = accounts[a]
        BY <2>2
    <2>3. CASE work[c] # Nobody /\ accounts'[a] = work[c]
        BY <2>1, <2>3 DEF Worked
    <2> QED
        BY <1>2, <2>2, <2>3
<1>5. op \in Method /\ a \in Admin
    BY <1>2 DEF Job
<1>6. Ledger!Record(c, op, a)
    BY <1>2, <1>3, <1>4 DEF Ledger!Record
<1> QED
    BY <1>5, <1>6 DEF Ledger!Next

\* Concurrent calls change the accounts as if one after the other: each in its own
\* columns, in one go, together with its entry in the audit log, or not at all;
\* for any number of calls and whatever fails.
\* (admin_repository.py:88-149, 255-345; database.py:210-246)
THEOREM LedgerKept == Spec => KeepsTheLedger
<1>1. Init => Ledger!Init
    BY DEF Init, Ledger!Init
<1>2. Spec => Ledger!Init /\ [][Ledger!Next]_<<accounts, entries>>
    BY <1>1, LedgerStep, IInvHolds, PTL DEF Spec
<1> QED
    BY <1>2 DEF KeepsTheLedger, Ledger!Spec
=============================================================================

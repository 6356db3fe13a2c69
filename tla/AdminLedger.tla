---------------------------- MODULE AdminLedger -----------------------------
(***************************************************************************)
(* What the administration of accounts promises: a call changes the        *)
(* columns its method is about, of the account it is about, in one go, at  *)
(* most once, and together with its entry in the audit log; or it changes  *)
(* nothing.  AdminAccounts is shown to implement this.                     *)
(***************************************************************************)
CONSTANTS Admin, Call, Method, Column, Absent, Touches

VARIABLES accounts,   \* accounts[a]: the row of a, or Absent
          entries     \* the audit log: calls with their method and account

Init == entries = {}

\* Rows are never deleted; one is new by a "create" only.
Record(c, op, a) ==
    /\ \A e \in entries : e[1] # c
    /\ entries' = entries \cup {<<c, op, a>>}
    /\ \A b \in Admin \ {a} : accounts'[b] = accounts[b]
    /\ IF accounts[a] = Absent
         THEN accounts'[a] = Absent \/ op = "create"
         ELSE \A col \in Column \ Touches[op] : accounts'[a][col] = accounts[a][col]

Next == \E c \in Call, op \in Method, a \in Admin : Record(c, op, a)

Spec == Init /\ [][Next]_<<accounts, entries>>
=============================================================================

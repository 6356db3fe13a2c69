--------------------------- MODULE MCAdminAccounts --------------------------
(***************************************************************************)
(* Instances of AdminAccounts.                                             *)
(***************************************************************************)
EXTENDS AdminAccounts, TLC

CONSTANTS root, ana, newcomer,      \* accounts
          c1, c2                    \* calls

Person == {root, ana, newcomer}
Account(role, tfa) == [active |-> TRUE, role |-> role, pass |-> Initial, failed |-> 0,
                       locked |-> FALSE, tfa |-> tfa,
                       codes |-> IF tfa THEN Initial ELSE Absent]
Rows == root :> Account("superadmin", TRUE) @@ ana :> Account("admin", FALSE)
        @@ newcomer :> Absent
TwoCalls == {c1, c2}

\* Two calls of any kind, each committed when it returns, if COMMIT does not fail.
On(ops, by, target) == [op : ops, by : by, target : target]
AnyJob == UNION {On({"login", "verify2fa"}, {ana}, {ana, newcomer}), On({"login"}, {root}, {root}),
                 On({"enable2fa", "confirm2fa", "disable2fa", "regenerate", "password", "logout"}, {ana}, {ana}),
                 On({"create"}, {root, ana}, {newcomer}),
                 On({"update", "deactivate"}, {root, ana}, {root, ana, newcomer})}
Committing == [c \in TwoCalls |-> "transaction"]
=============================================================================

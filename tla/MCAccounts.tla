---------------------------- MODULE MCAccounts -----------------------------
(***************************************************************************)
(* Accounts on their own: an administrator, a teacher and a third account, *)
(* with two requests in flight.                                            *)
(***************************************************************************)
EXTENDS Accounts

CONSTANTS Admin, Teacher

Rows ==
    [u \in Users |->
        IF u = Admin THEN [role |-> "ADMIN", active |-> TRUE, tv |-> 0]
        ELSE IF u = Teacher THEN [role |-> "TEACHER", active |-> TRUE, tv |-> 0]
        ELSE Absent]

Spec == InitAccounts(Rows) /\ [][AccountNext]_accountVars
=============================================================================

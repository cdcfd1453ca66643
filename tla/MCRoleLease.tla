---- MODULE MCRoleLease ----
(* Instances of RoleLease for TLC: processes that run two singleton roles, *)
(* as a deployment with --roles dispatch,scheduler on each node.           *)
EXTENDS RoleLease

CONSTANTS n1, n2, dispatch, scheduler

TwoNodes == {n1, n2}
TwoRoles == {dispatch, scheduler}
TwoKeys == {1, 2}
RoleKey == [r \in Roles |-> IF r = dispatch THEN 1 ELSE 2]

====

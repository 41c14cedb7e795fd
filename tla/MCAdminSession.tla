---------------------------- MODULE MCAdminSession ----------------------------
(* AdminSession for TLC: an administrator and an auditor. *)
EXTENDS AdminSession

Roles ==
  [admin |-> UNION {NavPermission[r] : r \in NavRoute},
   auditor |-> {"audit_logs.view", "dashboard.view"}]
Accounts == DOMAIN Roles
==============================================================================

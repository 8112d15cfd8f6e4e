---------------------------- MODULE AccessControl ----------------------------
(***************************************************************************)
(* The role and permission tables of backend/internal/constants/roles.go,  *)
(* consulted by middleware.RequirePermission on every route.  The role is  *)
(* the one written into the JWT at login.                                  *)
(***************************************************************************)

Roles == {"admin", "process_engineer", "safety_reviewer", "auditor"}

Permissions == {"read", "node:write", "scenario:write", "scenario:review",
                "safeguard:write", "evaluation:run", "evaluation:confirm"}

RolePermissions ==
  [role \in Roles |->
     CASE role = "admin" -> Permissions
       [] role = "process_engineer" ->
            {"read", "node:write", "scenario:write", "safeguard:write", "evaluation:run"}
       [] role = "safety_reviewer" ->
            {"read", "scenario:review", "safeguard:write", "evaluation:run",
             "evaluation:confirm"}
       [] role = "auditor" -> {"read"}]

HasPermission(role, permission) == permission \in RolePermissions[role]
=============================================================================

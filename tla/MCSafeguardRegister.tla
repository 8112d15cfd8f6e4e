------------------------- MODULE MCSafeguardRegister -------------------------
(***************************************************************************)
(* Small instances of SafeguardRegister: a process engineer, a safety      *)
(* reviewer and an auditor.                                                *)
(***************************************************************************)
EXTENDS SafeguardRegister, TLC

CONSTANTS eve, rio, aud

MCUsers == {eve, rio, aud}
MCRoleOf == (eve :> "process_engineer") @@ (rio :> "safety_reviewer") @@ (aud :> "auditor")

CreateBy(u, interval, t) ==
  [kind |-> "create", actor |-> u, scenarioExists |-> TRUE, interval |-> interval,
   verifiedAt |-> t]
UpdateBy(u, interval, note) ==
  [kind |-> "update", actor |-> u, interval |-> interval, note |-> note]
VerifyBy(u, t) == [kind |-> "verify", actor |-> u, verifiedAt |-> t]
ActionBy(u, kind) == [kind |-> kind, actor |-> u]

\* Registrations with and without a date, in the future, of a scenario that is missing,
\* and by a user who may not; then every other call.
MCTraffic ==
  {CreateBy(eve, 1, t) : t \in {None, 0, 1}} \cup
  {[CreateBy(eve, 1, 0) EXCEPT !.scenarioExists = FALSE], ActionBy(aud, "invalidate")} \cup
  {UpdateBy(eve, 1, FALSE), UpdateBy(eve, None, TRUE)} \cup
  {VerifyBy(rio, t) : t \in {0, 2}} \cup
  {ActionBy(rio, kind) : kind \in {"invalidate", "restore"}}

RequestSymmetry == Permutations(Requests)
=============================================================================

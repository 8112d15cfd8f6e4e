-------------------------- MODULE SafeguardLifecycle --------------------------
(***************************************************************************)
(* What the register promises about one safeguard: it counts as active     *)
(* only with evidence of a verification, an invalidated safeguard comes    *)
(* back only by a verification or a restoration, and edits touch neither   *)
(* its state nor its evidence.                                             *)
(*                                                                         *)
(* SafeguardRegister implements this specification.                        *)
(***************************************************************************)
CONSTANTS
  Intervals,  \* test intervals
  Times,      \* instants
  Users,
  Notes,      \* contents of evidence_note
  Persisted,  \* the rows the safeguard may start from
  None        \* no row, no verification

VARIABLE row

Evidenced(verifiedAt, u) == verifiedAt \in Times /\ u \in Users

Init == row \in {None} \cup Persisted

\* A safeguard registered with the date of a verification is active or expired.
Register ==
  /\ row = None
  /\ \E i \in Intervals, note \in Notes :
       \/ row' = [state |-> "pending", interval |-> i, verifiedAt |-> None,
                  verifiedBy |-> None, note |-> note]
       \/ \E t \in Times, u \in Users, s \in {"active", "expired"} :
            row' = [state |-> s, interval |-> i, verifiedAt |-> t, verifiedBy |-> u,
                    note |-> note]

Rewritten(state, verifiedAt, u, i, note) ==
  row' = [state |-> state, interval |-> i, verifiedAt |-> verifiedAt, verifiedBy |-> u,
          note |-> note]

Edit ==
  /\ row # None
  /\ \E i \in Intervals, note \in Notes :
       Rewritten(row.state, row.verifiedAt, row.verifiedBy, i, note)

Expire ==
  /\ row # None
  /\ row.state = "active"
  /\ Rewritten("expired", row.verifiedAt, row.verifiedBy, row.interval, row.note)

Verify ==
  /\ row # None
  /\ \E t \in Times, u \in Users, note \in Notes :
       Rewritten("active", t, u, row.interval, note)

Invalidate ==
  /\ row # None
  /\ row.state # "invalid"
  /\ \E note \in Notes :
       Rewritten("invalid", row.verifiedAt, row.verifiedBy, row.interval, note)

\* A restored safeguard is pending, or active if it has evidence.
Restore ==
  /\ row # None
  /\ row.state = "invalid"
  /\ \E note \in Notes, s \in {"pending", "active"} :
       /\ s = "active" => Evidenced(row.verifiedAt, row.verifiedBy)
       /\ Rewritten(s, row.verifiedAt, row.verifiedBy, row.interval, note)

Next == Register \/ Edit \/ Expire \/ Verify \/ Invalidate \/ Restore

Spec == Init /\ [][Next]_row
=============================================================================

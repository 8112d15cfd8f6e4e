-------------------------- MODULE ScenarioLifecycle --------------------------
(***************************************************************************)
(* What the review of a deviation scenario promises: its row changes in    *)
(* atomic steps, each of which increments the version and dates the row;   *)
(* the text is edited only in draft and rework; the state follows draft -> *)
(* analyzed -> verified -> accepted with rework as the way back; and       *)
(* whoever verifies or accepts is a reviewer other than the author.        *)
(*                                                                         *)
(* ScenarioReview implements this specification with handlers that read    *)
(* the row in one statement and write it in another.                       *)
(***************************************************************************)
EXTENDS Naturals

CONSTANTS
  Fields,     \* the columns Update may write
  Writers,    \* the requests, which name the values clients write and the times of changes
  Reviewers,  \* users that may verify and accept scenarios of other authors
  Author,     \* the creator of the scenario
  Persisted   \* the rows the scenario may start from

VARIABLE row

Flow == { <<"draft", "analyzed">>, <<"analyzed", "verified">>, <<"verified", "accepted">>,
          <<"analyzed", "rework">>, <<"verified", "rework">>, <<"rework", "analyzed">> }

Init == row \in Persisted

\* The time of the change w makes.
Dated(w) == [request |-> w, found |-> "table"]

\* Writer w sets the columns in F; no other column changes.
Edit(w, F) ==
  /\ row.state \in {"draft", "rework"}
  /\ row' = [state |-> row.state, version |-> row.version + 1,
             content |-> [f \in Fields |-> IF f \in F THEN w ELSE row.content[f]],
             reviewedBy |-> row.reviewedBy, updatedAt |-> Dated(w)]

Move(w, to, reviewer) ==
  /\ <<row.state, to>> \in Flow
  /\ row' = [state |-> to, version |-> row.version + 1, content |-> row.content,
             reviewedBy |-> reviewer, updatedAt |-> Dated(w)]

\* Analysis and rework keep the last reviewer.
Resubmit(w, to) == to \in {"analyzed", "rework"} /\ Move(w, to, row.reviewedBy)

Review(w, to) ==
  /\ to \in {"verified", "accepted"}
  /\ \E u \in Reviewers : u # Author /\ Move(w, to, u)

Next ==
  \E w \in Writers :
    \/ \E F \in SUBSET Fields : Edit(w, F)
    \/ \E to \in {"analyzed", "rework"} : Resubmit(w, to)
    \/ \E to \in {"verified", "accepted"} : Review(w, to)

Spec == Init /\ [][Next]_row
=============================================================================

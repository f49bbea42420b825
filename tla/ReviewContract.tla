--------------------------- MODULE ReviewContract ---------------------------
(***************************************************************************)
(* What the approval gate of the agent promises about one reviewed query,  *)
(* whatever kernel produced it and whatever store keeps it: a review is     *)
(* submitted once, leaves the pending state once, and runs at most once,    *)
(* and only after it was claimed.  README.md calls this "take-once".        *)
(*                                                                          *)
(* status[v] is the life cycle of review v:                                 *)
(*                                                                          *)
(*     unsubmitted --> pending --> claimed --> executed                     *)
(*                        |                                                 *)
(*                        +-----> dropped                                   *)
(***************************************************************************)
CONSTANT Review

VARIABLE status

Status == {"unsubmitted", "pending", "claimed", "executed", "dropped"}

TypeOK == status \in [Review -> Status]

Init == status = [v \in Review |-> "unsubmitted"]

(* A query that needs a human is put up for review.  A session has a single *)
(* slot, so the review may push out the one that was pending there.          *)
Submit(v) ==
    /\ status[v] = "unsubmitted"
    /\ status' = [status EXCEPT ![v] = "pending"]

Supersede(v, old) ==
    /\ status[v] = "unsubmitted"
    /\ status[old] = "pending"
    /\ status' = [status EXCEPT ![v] = "pending", ![old] = "dropped"]

Claim(v) ==
    /\ status[v] = "pending"
    /\ status' = [status EXCEPT ![v] = "claimed"]

Execute(v) ==
    /\ status[v] = "claimed"
    /\ status' = [status EXCEPT ![v] = "executed"]

(* A decision drops one review, a sweep those of all sessions it finds old.  *)
Drop(old) ==
    /\ \A v \in old : status[v] = "pending"
    /\ status' = [v \in Review |-> IF v \in old THEN "dropped" ELSE status[v]]

Next ==
    \/ \E v \in Review :
         \/ Submit(v)
         \/ \E old \in Review : Supersede(v, old)
         \/ Claim(v)
         \/ Execute(v)
    \/ \E old \in SUBSET Review : Drop(old)

Spec == Init /\ [][Next]_status
=============================================================================

----------------------------- MODULE MCAskFlow -----------------------------
(* The messages and the symmetry of the small instances of AskFlow. *)
EXTENDS AskFlow, TLC

Said(decision) ==
    [decision |-> decision, sql |-> FALSE, approves |-> FALSE,
     rejects |-> FALSE, recalls |-> FALSE, database |-> FALSE]

Question == Said("none")
Approve == Said("approve")
Reject_ == Said("reject")
PastedSql == [Said("none") EXCEPT !.sql = TRUE, !.approves = TRUE]
DoNotExecute == [Said("none") EXCEPT !.approves = TRUE, !.rejects = TRUE]
DatabaseName == [Said("none") EXCEPT !.database = TRUE]
ApproveWhatIAsked == [Said("none") EXCEPT !.approves = TRUE, !.recalls = TRUE]

Decisions == {Question, Approve, Reject_}
Texts == {PastedSql, DoNotExecute, DatabaseName, ApproveWhatIAsked}

(* A question, for one, is a database name that nothing waits for. *)
Distinct == {Approve} \cup Texts

Symmetry == Permutations(Request) \cup Permutations(Program)
                \cup Permutations(Session)
=============================================================================

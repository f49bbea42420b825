-------------------------- MODULE QueryGraphProofs --------------------------
(***************************************************************************)
(* The safety of QueryGraph for any number of runs that share a            *)
(* checkpoint, any questions and programs: an inductive invariant.         *)
(*                                                                         *)
(* Every step but the caller's moves one run, in one of three ways: a node *)
(* returns, a request goes out, or the run raises.  The invariant says of  *)
(* each run what its node, its state and its request owe to the review it  *)
(* was invoked with, whatever the checkpoint has left in its state.        *)
(***************************************************************************)
EXTENDS QueryGraph, TLAPS

Pasted(question) == question.rule \in {"native_sql_query", "sql_explanation"}

(* The nodes where a run may wait for the reply to a request. *)
Place(path) ==
    IF path = "search" THEN {"search"}
    ELSE IF path = "entity" THEN {"inspect"}
    ELSE IF path \in Reads THEN {"database_metadata"}
    ELSE {"native_sql", "bigquery_sql", "database_metadata", "execute"}

(* A review shows its program, or warns that it is a preview of one that is *)
(* not SQL.                                                                 *)
Honest(review) ==
    IF review.previewOnly THEN review.program \notin Sql
    ELSE review.program = review.shown

(* The approval keys of the state are those of this run, and the review it  *)
(* has claimed is honest.                                                   *)
BoundInv(r) ==
    node[r] \in Node =>
        /\ asked[r] \in Prepared
        /\ state[r].sqlApproved = (asked[r].approved # None)
        /\ state[r].hash = IF asked[r].approved = None THEN None
                           ELSE asked[r].approved.program
        /\ asked[r].approved # None =>
              /\ asked[r].approved.program \in Program
              /\ Honest(asked[r].approved)

WaitInv(r) ==
    http[r] # None =>
        /\ node[r] \in Place(http[r].path)
        /\ http[r].path \in Queries =>
              /\ asked[r].approved # None
              /\ ~asked[r].dryRun
              /\ http[r].program = asked[r].approved.program

(* A query is answered at the end of the path of a run. *)
RanInv(r) ==
    executed[r] # <<>> =>
        /\ node[r] \in {"answer", "end", "done"}
        /\ asked[r].approved # None
        /\ ~asked[r].dryRun
        /\ Honest(asked[r].approved)
        /\ executed[r] = <<asked[r].approved.program>>

(* Pasted SQL goes through its own nodes only. *)
RouteInv(r) ==
    node[r] \in Node /\ Pasted(Asks(r)) =>
        node[r] \in {"parse", "sql_explanation", "native_sql", "end"}

AllowedInv(r) ==
    node[r] = "execute" /\ state[r].allowed => state[r].program \in Program \ Sql

(* What a run that answers "requires_approval" puts up for review. *)
Reviewable(question, s) ==
    /\ s.program \in Program
    /\ Honest(s)
    /\ Pasted(question) =>
          s.shown = question.sql /\ ~s.previewOnly /\ s.shown \notin Unsafe

EndInv(r) ==
    node[r] \in {"answer", "end"} /\ state[r].status = "requires_approval" =>
        Reviewable(Asks(r), state[r])

PendingInv == pending # None => Reviewable(pending.question, pending)

RunInv(r) ==
    BoundInv(r) /\ WaitInv(r) /\ RanInv(r) /\ RouteInv(r) /\ AllowedInv(r) /\ EndInv(r)

Inv == TypeOK /\ PendingInv /\ \A r \in Run : RunInv(r)

USE GraphParameters, ClientParameters

-----------------------------------------------------------------------------
(* The kinds of step. *)

(* Metabase executes the query that the run waits for, or nothing. *)
Effect(r) ==
    /\ executed' \in [Run -> Seq(Program)]
    /\ \A q \in Run \ {r} : executed'[q] = executed[q]
    /\ \/ executed'[r] = executed[r]
       \/ http[r] # None /\ http[r].path \in Queries /\ executed'[r] = <<http[r].program>>

(* Where requests wait, nothing has run for the question yet. *)
LEMMA WaitsBeforeItRuns ==
    ASSUME Inv, NEW r \in Run, http[r] # None
    PROVE  /\ node[r] \in Node
           /\ executed[r] = <<>>
           /\ http[r] \in Request
  <1>1. node[r] \in Place(http[r].path)
    BY DEF Inv, RunInv, WaitInv
  <1>2. node[r] \in Node \ {"answer", "end"}
    BY <1>1 DEF Place, Node
  <1>3. http[r] \in Request
    BY DEF Inv, TypeOK, ClientTypeOK
  <1> QED BY <1>2, <1>3 DEF Inv, RunInv, RanInv, Node

LEMMA ReplyEffect ==
    ASSUME Inv, NEW r \in Run, NEW reply, Answers(r, reply)
    PROVE  /\ Effect(r)
           /\ http[r].path \notin Queries \/ FallsBack(reply) => executed' = executed
  <1>1. http[r] # None /\ MetabaseActs(r, reply)
    BY DEF Answers
  <1>2. executed[r] = <<>>
    BY <1>1, WaitsBeforeItRuns
  <1>3. executed \in [Run -> Seq(Program)]
    BY DEF Inv, TypeOK, ClientTypeOK
  <1>4. http[r].path \in Queries => http[r].program \in Program
    BY <1>1, WaitsBeforeItRuns DEF Inv, RunInv, WaitInv, BoundInv
  <1> DEFINE ran == [executed EXCEPT ![r] = Append(@, http[r].program)]
  <1>5. executed' = executed \/ (http[r].path \in Queries /\ executed' = ran)
    BY <1>1 DEF MetabaseActs
  <1>6. http[r].path \notin Queries \/ FallsBack(reply) => executed' = executed
    BY <1>1 DEF MetabaseActs, FallsBack
  <1>7. CASE executed' = executed
    BY <1>3, <1>6, <1>7 DEF Effect
  <1>8. CASE http[r].path \in Queries /\ executed' = ran
    <2>1. Append(executed[r], http[r].program) = <<http[r].program>>
      BY <1>2
    <2>2. <<http[r].program>> \in Seq(Program)
      BY <1>4, <1>8
    <2>3. executed' = [executed EXCEPT ![r] = <<http[r].program>>]
      BY <1>8, <2>1
    <2>4. executed' \in [Run -> Seq(Program)] /\ executed'[r] = <<http[r].program>>
      BY <1>3, <2>2, <2>3
    <2>5. \A q \in Run \ {r} : executed'[q] = executed[q]
      BY <1>3, <2>3
    <2> QED BY <1>1, <1>6, <1>8, <2>4, <2>5 DEF Effect
  <1> QED BY <1>5, <1>7, <1>8

LEMMA NoEffect ==
    ASSUME Inv, NEW r \in Run, UNCHANGED executed
    PROVE  Effect(r)
  BY DEF Inv, TypeOK, ClientTypeOK, Effect

(* A step of one run leaves the others as they are. *)
LEMMA OthersKept ==
    ASSUME Inv, NEW q \in Run,
           node'[q] = node[q], state'[q] = state[q], http'[q] = http[q],
           executed'[q] = executed[q], asked'[q] = asked[q]
    PROVE  RunInv(q)'
  <1>1. RunInv(q)
    BY DEF Inv
  <1>2. BoundInv(q)'
    BY <1>1 DEF RunInv, BoundInv
  <1>3. WaitInv(q)'
    BY <1>1 DEF RunInv, WaitInv, Place
  <1>4. RanInv(q)'
    BY <1>1 DEF RunInv, RanInv
  <1>5. RouteInv(q)'
    BY <1>1 DEF RunInv, RouteInv, Asks, Pasted
  <1>6. AllowedInv(q)'
    BY <1>1 DEF RunInv, AllowedInv
  <1>7. EndInv(q)'
    BY <1>1 DEF RunInv, EndInv, Reviewable, Asks, Pasted
  <1> QED BY <1>2, <1>3, <1>4, <1>5, <1>6, <1>7 DEF RunInv

(* What a node hands on keeps the approval keys. *)
Carries(r, s) ==
    /\ s \in AgentState
    /\ s.sqlApproved = state[r].sqlApproved
    /\ s.hash = state[r].hash

LEMMA LeavesInv ==
    ASSUME Inv, NEW r \in Run, node[r] \in Node, Effect(r),
           NEW next \in Node, NEW s, Carries(r, s), Leaves(r, next, s),
           executed'[r] # <<>> => next \in {"answer", "end"},
           Pasted(Asks(r)) => next \in {"parse", "sql_explanation", "native_sql", "end"},
           next = "execute" /\ s.allowed => s.program \in Program \ Sql,
           next \in {"answer", "end"} /\ s.status = "requires_approval" =>
               Reviewable(Asks(r), s)
    PROVE  Inv'
  <1> USE DEF Leaves
  <1>1. s \in AgentState /\ s.sqlApproved = state[r].sqlApproved /\ s.hash = state[r].hash
    BY DEF Carries
  <1>2. RunInv(r) /\ TypeOK
    BY DEF Inv
  <1>3. TypeOK'
    <2>1. ClientTypeOK'
      BY <1>2 DEF TypeOK, ClientTypeOK, Effect
    <2>2. checkpoint' \in AgentState
      BY <1>1, <1>2 DEF TypeOK, Saved
    <2>3. node' \in [Run -> Node \cup {"idle", "done"}]
      BY <1>2 DEF TypeOK
    <2>4. state' \in [Run -> AgentState]
      BY <1>1, <1>2 DEF TypeOK
    <2> QED BY <1>2, <2>1, <2>2, <2>3, <2>4 DEF TypeOK
  <1>4. node'[r] = next /\ state'[r] = s /\ http'[r] = None /\ asked' = asked /\ pending' = pending
    BY <1>2 DEF TypeOK, ClientTypeOK
  <1>5. BoundInv(r)'
    BY <1>1, <1>2, <1>4 DEF RunInv, BoundInv
  <1>6. WaitInv(r)'
    BY <1>4 DEF WaitInv
  <1>7. RanInv(r)'
    BY <1>2, <1>4 DEF RunInv, RanInv, Effect, WaitInv, BoundInv
  <1>8. RouteInv(r)'
    BY <1>4 DEF RouteInv, Asks, Pasted
  <1>9. AllowedInv(r)'
    BY <1>4 DEF AllowedInv
  <1>10. EndInv(r)'
    BY <1>4 DEF EndInv, Reviewable, Asks, Pasted
  <1>11. \A q \in Run : RunInv(q)'
    <2> SUFFICES ASSUME NEW q \in Run, q # r PROVE RunInv(q)'
      BY <1>5, <1>6, <1>7, <1>8, <1>9, <1>10 DEF RunInv
    <2>1. node'[q] = node[q] /\ state'[q] = state[q] /\ http'[q] = http[q]
      BY <1>2 DEF TypeOK, ClientTypeOK
    <2>2. executed'[q] = executed[q]
      BY DEF Effect
    <2> QED BY <1>4, <2>1, <2>2, OthersKept
  <1>12. PendingInv'
    BY <1>4 DEF Inv, PendingInv, Reviewable, Pasted
  <1> QED BY <1>3, <1>11, <1>12 DEF Inv

(* A node that answers. *)
LEMMA EndsInv ==
    ASSUME Inv, NEW r \in Run, node[r] \in Node, Effect(r),
           NEW s, Carries(r, s), Leaves(r, "end", s),
           s.status # "requires_approval" \/ Reviewable(Asks(r), s)
    PROVE  Inv'
  <1>1. "end" \in Node
    BY DEF Node
  <1> QED BY <1>1, LeavesInv

LEMMA SendsInv ==
    ASSUME Inv, NEW r \in Run, node[r] \in Node, UNCHANGED executed,
           NEW request \in Request, Sends(r, request),
           node[r] \in Place(request.path),
           request.path \in Queries =>
               /\ asked[r].approved # None
               /\ ~asked[r].dryRun
               /\ request.program = asked[r].approved.program
    PROVE  Inv'
  <1> USE DEF Sends
  <1>1. RunInv(r) /\ TypeOK
    BY DEF Inv
  <1>2. TypeOK'
    BY <1>1 DEF TypeOK, ClientTypeOK
  <1>3. http'[r] = request
    BY <1>1 DEF TypeOK, ClientTypeOK
  <1>4. WaitInv(r)'
    BY <1>3 DEF WaitInv, Place
  <1>5. BoundInv(r)' /\ RanInv(r)'
    BY <1>1 DEF RunInv, BoundInv, RanInv
  <1>6. RouteInv(r)' /\ AllowedInv(r)'
    BY <1>1 DEF RunInv, RouteInv, AllowedInv, Asks, Pasted
  <1>7. EndInv(r)'
    BY <1>1 DEF RunInv, EndInv, Reviewable, Asks, Pasted
  <1>8. \A q \in Run : RunInv(q)'
    <2> SUFFICES ASSUME NEW q \in Run, q # r PROVE RunInv(q)'
      BY <1>4, <1>5, <1>6, <1>7 DEF RunInv
    <2>1. http'[q] = http[q]
      BY <1>1 DEF TypeOK, ClientTypeOK
    <2> QED BY <2>1, OthersKept
  <1>9. PendingInv'
    BY DEF Inv, PendingInv, Reviewable, Pasted
  <1> QED BY <1>2, <1>8, <1>9 DEF Inv

(* Nothing is left of a run but what it was asked, and its ledger. *)
LEMMA OverInv ==
    ASSUME Inv, NEW r \in Run, node[r] \in Node, Effect(r), Over(r),
           checkpoint' = checkpoint, asked' = asked,
           pending' \in Review \cup {None}, PendingInv'
    PROVE  Inv'
  <1> USE DEF Over
  <1>1. RunInv(r) /\ TypeOK
    BY DEF Inv
  <1>2. NoState \in AgentState
    BY DEF NoState, AgentState, Intent, Status, Shown
  <1>3. TypeOK'
    <2>1. ClientTypeOK'
      BY <1>1 DEF TypeOK, ClientTypeOK, Effect
    <2>2. node' \in [Run -> Node \cup {"idle", "done"}] /\ state' \in [Run -> AgentState]
      BY <1>1, <1>2 DEF TypeOK
    <2> QED BY <1>1, <2>1, <2>2 DEF TypeOK
  <1>4. node'[r] = "done" /\ http'[r] = None
    BY <1>1 DEF TypeOK, ClientTypeOK
  <1>5. BoundInv(r)' /\ WaitInv(r)' /\ RouteInv(r)' /\ AllowedInv(r)' /\ EndInv(r)'
    BY <1>4 DEF BoundInv, WaitInv, RouteInv, AllowedInv, EndInv, Node
  <1>6. RanInv(r)'
    BY <1>1, <1>4 DEF RunInv, RanInv, Effect, WaitInv, BoundInv
  <1>7. \A q \in Run : RunInv(q)'
    <2> SUFFICES ASSUME NEW q \in Run, q # r PROVE RunInv(q)'
      BY <1>5, <1>6 DEF RunInv
    <2>1. node'[q] = node[q] /\ state'[q] = state[q] /\ http'[q] = http[q]
      BY <1>1 DEF TypeOK, ClientTypeOK
    <2>2. executed'[q] = executed[q]
      BY DEF Effect
    <2> QED BY <2>1, <2>2, OthersKept
  <1> QED BY <1>3, <1>7 DEF Inv

LEMMA RaisesInv ==
    ASSUME Inv, NEW r \in Run, node[r] \in Node, Effect(r), Raises(r)
    PROVE  Inv'
  <1>1. PendingInv' /\ pending' \in Review \cup {None}
    BY DEF Raises, Inv, TypeOK, PendingInv, Reviewable, Pasted
  <1> QED BY <1>1, OverInv DEF Raises

-----------------------------------------------------------------------------
(* The caller. *)

LEMMA InvokeInv ==
    ASSUME Inv, NEW r \in Run, NEW prepared \in Prepared, Invoke(r, prepared),
           pending' \in {pending, None},
           prepared.approved # None =>
               /\ prepared.approved.program \in Program
               /\ Honest(prepared.approved)
    PROVE  Inv'
  <1> DEFINE s == GraphInput(checkpoint, prepared)
  <1> USE DEF Invoke
  <1>1. TypeOK
    BY DEF Inv
  <1>2. prepared.approved = None \/ prepared.approved \in Review
    BY DEF Prepared
  <1>3. s \in AgentState
    BY <1>1, <1>2 DEF TypeOK, GraphInput, AgentState, Review
  <1>4. /\ s.sqlApproved = (prepared.approved # None)
        /\ s.hash = IF prepared.approved = None THEN None ELSE prepared.approved.program
    BY <1>1 DEF TypeOK, GraphInput, AgentState
  <1>5. /\ node'[r] = "parse" /\ asked'[r] = prepared /\ state'[r] = s
        /\ executed'[r] = <<>> /\ http' = http /\ http[r] = None
    BY <1>1, WaitsBeforeItRuns DEF TypeOK, ClientTypeOK, Node
  <1>6. TypeOK'
    <2>1. ClientTypeOK'
      BY <1>1 DEF TypeOK, ClientTypeOK
    <2>2. node' \in [Run -> Node \cup {"idle", "done"}] /\ asked' \in [Run -> Prepared \cup {None}]
      BY <1>1 DEF TypeOK, Node
    <2>3. state' \in [Run -> AgentState] /\ checkpoint' \in AgentState
      BY <1>1, <1>3, <1>5 DEF TypeOK, Saved
    <2>4. pending' \in Review \cup {None}
      BY <1>1 DEF TypeOK
    <2> QED BY <2>1, <2>2, <2>3, <2>4 DEF TypeOK
  <1> HIDE DEF s
  <1>7. BoundInv(r)'
    BY <1>4, <1>5 DEF BoundInv
  <1>8. WaitInv(r)' /\ RanInv(r)' /\ RouteInv(r)' /\ AllowedInv(r)' /\ EndInv(r)'
    BY <1>5 DEF WaitInv, RanInv, RouteInv, AllowedInv, EndInv
  <1>9. \A q \in Run : RunInv(q)'
    <2> SUFFICES ASSUME NEW q \in Run, q # r PROVE RunInv(q)'
      BY <1>7, <1>8 DEF RunInv
    <2>1. /\ node'[q] = node[q] /\ state'[q] = state[q] /\ http'[q] = http[q]
          /\ executed'[q] = executed[q] /\ asked'[q] = asked[q]
      BY <1>1 DEF TypeOK, ClientTypeOK
    <2> QED BY <2>1, OthersKept
  <1>10. PendingInv'
    BY DEF Inv, PendingInv, Reviewable, Pasted
  <1> QED BY <1>6, <1>9, <1>10 DEF Inv

LEMMA AskInv ==
    ASSUME Inv, NEW r \in Run, NEW question \in Question, NEW dry \in DryRun,
           Ask(r, question, dry)
    PROVE  Inv'
  <1>1. [question |-> question, dryRun |-> dry, approved |-> None] \in Prepared
    BY DEF Prepared
  <1> QED BY <1>1, InvokeInv DEF Ask

LEMMA AskApprovedInv ==
    ASSUME Inv, NEW r \in Run, NEW dry \in DryRun, AskApproved(r, dry)
    PROVE  Inv'
  <1> USE DEF AskApproved
  <1>1. pending \in Review /\ Reviewable(pending.question, pending)
    BY DEF Inv, TypeOK, PendingInv
  <1>2. [question |-> pending.question, dryRun |-> dry, approved |-> pending] \in Prepared
    BY <1>1 DEF Prepared, Review
  <1> QED BY <1>1, <1>2, InvokeInv DEF Reviewable

LEMMA FinalizeInv ==
    ASSUME Inv, NEW r \in Run, Finalize(r)
    PROVE  Inv'
  <1> USE DEF Finalize
  <1>1. node[r] = "end" /\ node[r] \in Node
    BY DEF At, Node
  <1>2. Effect(r)
    BY NoEffect
  <1>3. EndInv(r) /\ asked[r] \in Prepared /\ state[r] \in AgentState
    BY <1>1 DEF Inv, TypeOK, RunInv, BoundInv
  <1>4. pending' \in Review \cup {None} /\ PendingInv'
    <2>1. CASE state[r].status = "requires_approval"
      <3>1. pending' = [question |-> Asks(r), program |-> state[r].program,
                        shown |-> state[r].shown,
                        previewOnly |-> state[r].previewOnly]
        BY <2>1
      <3>2. Reviewable(Asks(r), state[r])
        BY <1>1, <1>3, <2>1 DEF EndInv
      <3>3. pending' \in Review
        BY <1>3, <3>1 DEF Review, Prepared, AgentState, Asks
      <3> QED BY <3>1, <3>2, <3>3 DEF PendingInv, Reviewable, Honest, Pasted
    <2>2. CASE state[r].status # "requires_approval"
      BY <2>2 DEF Inv, TypeOK, PendingInv, Reviewable, Pasted
    <2> QED BY <2>1, <2>2
  <1> QED BY <1>1, <1>2, <1>4, OverInv

LEMMA AbandonInv ==
    ASSUME Inv, NEW r \in Run, Abandon(r)
    PROVE  Inv'
  <1>1. node[r] \in Node
    BY DEF Abandon, Inv, TypeOK
  <1> QED BY <1>1, NoEffect, RaisesInv DEF Abandon

-----------------------------------------------------------------------------
(* The nodes. *)

(* What holds of a run that is not at its end. *)
LEMMA UnderWay ==
    ASSUME Inv, NEW r \in Run, node[r] \in Node \ {"answer", "end"}
    PROVE  /\ executed[r] = <<>>
           /\ asked[r] \in Prepared
           /\ Asks(r) \in QuestionType
           /\ state[r] \in AgentState
  <1>1. executed[r] = <<>> /\ asked[r] \in Prepared /\ state[r] \in AgentState
    BY DEF Inv, TypeOK, RunInv, RanInv, BoundInv, Node
  <1> QED BY <1>1 DEF Asks, Prepared

LEMMA CarriesOver ==
    ASSUME NEW r \in Run, state[r] \in AgentState, NEW status \in Status,
           NEW p \in Program \cup {None}
    PROVE  /\ Carries(r, Answer(r, status)) /\ Answer(r, status).status = status
           /\ Carries(r, Result(r, status, p)) /\ Result(r, status, p).status = status
  <1> DEFINE s1 == [state[r] EXCEPT !.status = status]
             s2 == [s1 EXCEPT !.shown = None]
             s3 == [s2 EXCEPT !.previewOnly = FALSE]
  <1> USE DEF Carries, AgentState
  <1>1. Carries(r, s1) /\ s1.status = status
    OBVIOUS
  <1> HIDE DEF s1
  <1>2. Carries(r, s2) /\ s2.status = status
    BY <1>1 DEF Shown
  <1> HIDE DEF s2
  <1>3. Carries(r, s3) /\ s3.status = status
    BY <1>2
  <1>4. Answer(r, status) = s3
    BY DEF Answer, s1, s2
  <1>5. Carries(r, Answer(r, status)) /\ Answer(r, status).status = status
    BY <1>3, <1>4
  <1>6. Carries(r, Result(r, status, p)) /\ Result(r, status, p).status = status
    BY <1>5 DEF Result
  <1> QED BY <1>5, <1>6

LEMMA Reviews ==
    ASSUME NEW r \in Run, state[r] \in AgentState, NEW p \in Program,
           NEW text \in Shown, NEW preview \in BOOLEAN, NEW s,
           s = UpForReview(r, p, text, preview)
    PROVE  /\ Carries(r, s)
           /\ s.program = p /\ s.shown = text /\ s.previewOnly = preview
  <1> DEFINE s1 == [state[r] EXCEPT !.status = "requires_approval"]
             s2 == [s1 EXCEPT !.shown = text]
             s3 == [s2 EXCEPT !.previewOnly = preview]
             s4 == [s3 EXCEPT !.program = p]
  <1> USE DEF Carries, AgentState
  <1>1. Carries(r, s1)
    BY DEF Status
  <1> HIDE DEF s1
  <1>2. Carries(r, s2) /\ s2.shown = text
    BY <1>1
  <1> HIDE DEF s2
  <1>3. Carries(r, s3) /\ s3.shown = text /\ s3.previewOnly = preview
    BY <1>2
  <1> HIDE DEF s3
  <1>4. Carries(r, s4) /\ s4.shown = text /\ s4.previewOnly = preview /\ s4.program = p
    BY <1>3
  <1>5. s = s4
    BY DEF UpForReview, s1, s2, s3
  <1> QED BY <1>4, <1>5

(* A cleared run has claimed the review of the very program. *)
LEMMA ClearedIsApproved ==
    ASSUME Inv, NEW r \in Run, node[r] \in Node, NEW p, Cleared(r, p)
    PROVE  asked[r].approved # None /\ p = asked[r].approved.program
  <1>1. BoundInv(r)
    BY DEF Inv, RunInv
  <1> QED BY <1>1 DEF BoundInv, Cleared, ApprovedProgramMismatch

LEMMA ParseInv ==
    ASSUME Inv, NEW r \in Run, NEW intent \in Intent, Parse(r, intent)
    PROVE  Inv'
  <1> DEFINE s == [state[r] EXCEPT !.intent = intent]
  <1>1. node[r] = "parse" /\ Leaves(r, Route[intent], s) /\ Effect(r)
    BY NoEffect DEF Parse, At
  <1>2. executed[r] = <<>> /\ Asks(r) \in QuestionType /\ state[r] \in AgentState
    BY <1>1, UnderWay DEF Node
  <1>3. Carries(r, s)
    BY <1>2 DEF Carries, AgentState
  <1>4. Route[intent] \in Node \ {"execute", "answer", "end"}
    BY DEF Route, Node, Intent
  <1>5. ASSUME Pasted(Asks(r))
        PROVE  Route[intent] \in {"sql_explanation", "native_sql"}
    <2>1. Asks(r).rule \in {"native_sql_query", "sql_explanation"}
      BY <1>5 DEF Pasted
    <2>2. Asks(r).rule \in Intent
      BY <1>2 DEF QuestionType
    <2>3. SafeOverrides[Asks(r).rule] = {"native_sql_query", "sql_explanation"}
      BY <2>1, <2>2 DEF SafeOverrides
    <2>4. intent \in {"native_sql_query", "sql_explanation"}
      BY <2>1, <2>3 DEF Parse, ParsedIntents, RuleIntents
    <2> QED BY <2>4 DEF Route
  <1>6. executed'[r] = <<>>
    BY <1>2 DEF Parse
  <1> HIDE DEF s
  <1> QED BY <1>1, <1>3, <1>4, <1>5, <1>6, LeavesInv DEF Node

(* The SQL nodes: what they may put up for review is the SQL they may run.  *)
LEMMA SqlToRunIsReviewable ==
    ASSUME Inv, NEW r \in Run, NEW p \in Sql, SqlToRun(r, p)
    PROVE  /\ node[r] \in {"native_sql", "bigquery_sql"}
           /\ Reviewable(Asks(r), UpForReview(r, p, p, FALSE))
           /\ Carries(r, UpForReview(r, p, p, FALSE))
  <1> DEFINE s == UpForReview(r, p, p, FALSE)
  <1>1. node[r] \in {"native_sql", "bigquery_sql"}
    BY DEF SqlToRun, At
  <1>2. p \in Program /\ state[r] \in AgentState /\ RouteInv(r)
    BY <1>1, UnderWay DEF Node, Inv, RunInv
  <1>3. Carries(r, s) /\ s.program = p /\ s.shown = p /\ s.previewOnly = FALSE
    <2> DEFINE preview == FALSE
    <2>1. p \in Shown /\ preview \in BOOLEAN /\ s = UpForReview(r, p, p, preview)
      BY <1>2 DEF Shown
    <2> HIDE DEF s, preview
    <2>2. Carries(r, s) /\ s.program = p /\ s.shown = p /\ s.previewOnly = preview
      BY <1>2, <2>1, Reviews
    <2> QED BY <2>2 DEF preview
  <1>4. Pasted(Asks(r)) => p = Asks(r).sql /\ p \notin Unsafe
    BY <1>1, <1>2 DEF SqlToRun, At, RouteInv, IsReadOnly, Node
  <1> HIDE DEF s
  <1>5. Reviewable(Asks(r), s)
    BY <1>2, <1>3, <1>4 DEF Reviewable, Honest
  <1> QED BY <1>1, <1>3, <1>5 DEF s

LEMMA SqlStepInv ==
    ASSUME Inv, NEW r \in Run, SqlStep(r)
    PROVE  Inv'
  <1>1. \A status \in {"completed", "not_found", "blocked", "failed"} :
            status \in Status \ {"requires_approval"}
    BY DEF Status
  <1>2. ASSUME NEW status \in {"completed", "not_found", "blocked", "failed"},
               NEW p \in Program \cup {None}, node[r] \in Node \ {"answer", "end"},
               Effect(r), Leaves(r, "end", Result(r, status, p))
        PROVE  Inv'
    <2>1. state[r] \in AgentState
      BY <1>2, UnderWay
    <2> QED BY <1>1, <1>2, <2>1, CarriesOver, EndsInv
  <1>3. CASE SqlExplanation(r)
    BY <1>2, <1>3, NoEffect DEF SqlExplanation, At, Node
  <1>4. CASE NoSql(r)
    BY <1>2, <1>4, NoEffect DEF NoSql, At, Node
  <1>5. CASE BlockSql(r)
    <2>1. node[r] \in Node \ {"answer", "end"}
      BY <1>5 DEF BlockSql, At, Node
    <2>2. Asks(r).sql \in Program
      BY <1>5, <2>1, UnderWay DEF BlockSql, QuestionType
    <2> QED BY <1>2, <1>5, <2>1, <2>2, NoEffect DEF BlockSql
  <1>6. CASE GenerateSql(r)
    BY <1>2, <1>6, NoEffect DEF GenerateSql, At, Node
  <1>7. ASSUME NEW p \in Sql, ReviewSql(r, p)
        PROVE  Inv'
    <2> DEFINE s == UpForReview(r, p, p, FALSE)
    <2>1. /\ node[r] \in Node /\ Effect(r)
          /\ Reviewable(Asks(r), s) /\ Carries(r, s)
      BY <1>7, SqlToRunIsReviewable, NoEffect DEF ReviewSql, Node
    <2>2. Leaves(r, "end", s)
      BY <1>7 DEF ReviewSql
    <2> HIDE DEF s
    <2> QED BY <2>1, <2>2, EndsInv
  <1>8. ASSUME NEW p \in Sql, RunSql(r, p)
        PROVE  Inv'
    <2>1. node[r] \in {"native_sql", "bigquery_sql"} /\ node[r] \in Node \ {"answer", "end"}
      BY <1>8, SqlToRunIsReviewable DEF RunSql, Node
    <2>2. CASE asked[r].dryRun
      BY <1>2, <1>8, <2>1, <2>2, NoEffect DEF RunSql
    <2>3. CASE ~asked[r].dryRun
      <3>1. Query("dataset", p) \in Request /\ Query("dataset", p).path = "dataset"
            /\ Query("dataset", p).program = p
        BY DEF Query, Request, Path, Queries
      <3>2. node[r] \in Place("dataset")
        BY <2>1 DEF Place, Reads
      <3>3. asked[r].approved # None /\ p = asked[r].approved.program
        BY <1>8, <2>1, ClearedIsApproved DEF RunSql
      <3> QED BY <1>8, <2>1, <2>3, <3>1, <3>2, <3>3, SendsInv DEF RunSql
    <2> QED BY <2>2, <2>3
  <1>9. ASSUME NEW reply \in HttpReply, SqlAnswered(r, reply)
        PROVE  Inv'
    <2>1. node[r] \in Node \ {"answer", "end"}
      BY <1>9 DEF SqlAnswered, Node
    <2>2. Effect(r)
      BY <1>9, ReplyEffect DEF SqlAnswered
    <2>3. http[r].program \in Program \cup {None}
      BY <1>9, WaitsBeforeItRuns DEF SqlAnswered, Answers, Request
    <2> QED BY <1>2, <1>9, <2>1, <2>2, <2>3, RaisesInv DEF SqlAnswered
  <1> QED BY <1>3, <1>4, <1>5, <1>6, <1>7, <1>8, <1>9 DEF SqlStep

(* The metadata node. *)
LEMMA AggregationInv ==
    ASSUME Inv, NEW r \in Run, node[r] = "database_metadata", executed' = executed,
           TableAggregation(r)
    PROVE  Inv'
  <1>1. node[r] \in Node \ {"answer", "end"} /\ state[r] \in AgentState /\ Effect(r)
    BY UnderWay, NoEffect DEF Node
  <1>2. PICK p \in Program \ Sql :
            ReviewAggregation(r, p) \/ DryAggregation(r, p) \/ SendAggregation(r, p)
    BY DEF TableAggregation
  <1>3. "completed" \in Status \ {"requires_approval"}
    BY DEF Status
  <1>4. CASE ReviewAggregation(r, p)
    <2>1. ~Pasted(Asks(r))
      BY <1>1 DEF Inv, RunInv, RouteInv
    <2>2. PICK text \in Preview : Leaves(r, "end", UpForReview(r, p, text, TRUE))
      BY <1>4 DEF ReviewAggregation
    <2> DEFINE s == UpForReview(r, p, text, TRUE)
    <2>3. Carries(r, s) /\ s.program = p /\ s.previewOnly = TRUE
      <3> DEFINE preview == TRUE
      <3>1. text \in Shown /\ preview \in BOOLEAN /\ s = UpForReview(r, p, text, preview)
        BY DEF Shown
      <3> HIDE DEF s, preview
      <3>2. Carries(r, s) /\ s.program = p /\ s.previewOnly = preview
        BY <1>1, <3>1, Reviews
      <3> QED BY <3>2 DEF preview
    <2>4. Leaves(r, "end", s)
      BY <2>2
    <2> HIDE DEF s
    <2>5. Reviewable(Asks(r), s)
      BY <2>1, <2>3 DEF Reviewable, Honest
    <2> QED BY <1>1, <2>3, <2>4, <2>5, EndsInv
  <1>5. CASE DryAggregation(r, p)
    BY <1>1, <1>3, <1>5, CarriesOver, EndsInv DEF DryAggregation
  <1>6. CASE SendAggregation(r, p)
    <2>1. Query("query", p) \in Request /\ Query("query", p).path = "query"
          /\ Query("query", p).program = p
      BY DEF Query, Request, Path, Queries
    <2>2. node[r] \in Place("query")
      BY DEF Place, Reads
    <2>3. asked[r].approved # None /\ p = asked[r].approved.program
      BY <1>1, <1>6, ClearedIsApproved DEF SendAggregation
    <2> QED BY <1>1, <1>6, <2>1, <2>2, <2>3, SendsInv DEF SendAggregation
  <1> QED BY <1>2, <1>4, <1>5, <1>6

LEMMA EndMetadataInv ==
    ASSUME Inv, NEW r \in Run, node[r] \in Node \ {"answer", "end"}, Effect(r),
           EndMetadata(r)
    PROVE  Inv'
  <1>1. PICK status \in MetadataAnswers : Leaves(r, "end", Answer(r, status))
    BY DEF EndMetadata
  <1>2. status \in Status \ {"requires_approval"}
    BY DEF MetadataAnswers, Status
  <1>3. state[r] \in AgentState
    BY UnderWay
  <1>4. Carries(r, Answer(r, status)) /\ Answer(r, status).status = status
    BY <1>2, <1>3, CarriesOver
  <1> QED BY <1>1, <1>2, <1>4, EndsInv

(* A request that only reads. *)
LEMMA ReadsInv ==
    ASSUME Inv, NEW r \in Run, node[r] \in Node, executed' = executed,
           NEW path \in Reads \cup {"search"}, node[r] \in Place(path),
           Sends(r, Read(path))
    PROVE  Inv'
  <1>1. Read(path) \in Request /\ Read(path).path = path
    BY DEF Read, Request, Path
  <1>2. path \notin Queries
    BY DEF Reads, Queries
  <1> QED BY <1>1, <1>2, SendsInv

LEMMA MetadataStepInv ==
    ASSUME Inv, NEW r \in Run, MetadataStep(r)
    PROVE  Inv'
  <1>1. ASSUME node[r] = "database_metadata"
        PROVE  node[r] \in Node \ {"answer", "end"}
    BY <1>1 DEF Node
  <1>2. \A path \in {"databases", "schema", "metadata", "fields", "agent_table"} :
            path \in Reads /\ Place(path) = {"database_metadata"} /\ path \notin Queries
    BY DEF Reads, Place, Queries
  <1>3. ASSUME NEW path \in {"databases", "schema", "metadata", "fields", "agent_table"},
               Waits(r, path)
        PROVE  node[r] = "database_metadata" /\ http[r].path \notin Queries
    BY <1>2, <1>3 DEF Waits, Inv, RunInv, WaitInv
  <1>4. CASE DryMetadata(r)
    <2>1. node[r] = "database_metadata"
      BY <1>4 DEF DryMetadata, At
    <2> QED BY <1>1, <1>4, <2>1, NoEffect, EndMetadataInv, AggregationInv DEF DryMetadata
  <1>5. CASE ListDatabases(r)
    BY <1>1, <1>2, <1>5, ReadsInv DEF ListDatabases, At
  <1>6. ASSUME NEW reply \in HttpReply, GotDatabases(r, reply)
        PROVE  Inv'
    <2>1. node[r] = "database_metadata" /\ Effect(r) /\ executed' = executed
      BY <1>3, <1>6, ReplyEffect DEF GotDatabases
    <2> QED BY <1>1, <1>2, <1>6, <2>1, RaisesInv, EndMetadataInv, ReadsInv DEF GotDatabases
  <1>7. ASSUME NEW reply \in HttpReply, GotTables(r, reply)
        PROVE  Inv'
    <2>1. node[r] = "database_metadata" /\ Effect(r) /\ executed' = executed
      BY <1>3, <1>7, ReplyEffect DEF GotTables
    <2> QED BY <1>1, <1>2, <1>7, <2>1, RaisesInv, EndMetadataInv, ReadsInv DEF GotTables
  <1>8. ASSUME NEW reply \in HttpReply, GotFields(r, reply)
        PROVE  Inv'
    <2>1. node[r] = "database_metadata" /\ Effect(r) /\ executed' = executed
      BY <1>3, <1>8, ReplyEffect DEF GotFields
    <2> QED BY <1>1, <1>2, <1>8, <2>1, RaisesInv, EndMetadataInv, ReadsInv DEF GotFields
  <1>9. ASSUME NEW reply \in HttpReply, GotAgentTable(r, reply)
        PROVE  Inv'
    <2>1. node[r] = "database_metadata" /\ Effect(r) /\ executed' = executed
      BY <1>3, <1>9, ReplyEffect DEF GotAgentTable
    <2> QED BY <1>1, <1>9, <2>1, RaisesInv, EndMetadataInv, AggregationInv
            DEF GotAgentTable
  <1>10. ASSUME NEW status \in {"completed"}, NEW p \in Program \cup {None},
                node[r] \in Node \ {"answer", "end"}, Effect(r),
                Leaves(r, "end", Result(r, status, p))
         PROVE  Inv'
    <2>1. status \in Status \ {"requires_approval"}
      BY <1>10 DEF Status
    <2>2. state[r] \in AgentState
      BY <1>10, UnderWay
    <2> QED BY <1>10, <2>1, <2>2, CarriesOver, EndsInv
  <1>11. ASSUME NEW reply \in HttpReply, AggregationAnswered(r, reply)
         PROVE  Inv'
    <2>1. node[r] = "database_metadata" /\ Effect(r) /\ Waits(r, "query")
      BY <1>11, ReplyEffect DEF AggregationAnswered
    <2>2. /\ http[r].program \in Program \cup {None}
          /\ asked[r].approved # None /\ ~asked[r].dryRun
          /\ http[r].program = asked[r].approved.program
      BY <2>1, WaitsBeforeItRuns DEF Waits, Request, Queries, Inv, RunInv, WaitInv
    <2>3. CASE FallsBack(reply) /\ Sends(r, Query("dataset", http[r].program))
      <3>1. /\ Query("dataset", http[r].program) \in Request
            /\ Query("dataset", http[r].program).program = http[r].program
            /\ node[r] \in Place("dataset")
            /\ Query("dataset", http[r].program).path = "dataset"
        BY <2>1, <2>2 DEF Query, Request, Path, Queries, Place, Reads
      <3>2. executed' = executed
        BY <1>11, <2>3, ReplyEffect DEF AggregationAnswered
      <3> QED BY <1>1, <2>1, <2>2, <2>3, <3>1, <3>2, SendsInv
    <2> QED BY <1>1, <1>10, <1>11, <2>1, <2>2, <2>3, RaisesInv DEF AggregationAnswered
  <1>12. ASSUME NEW reply \in HttpReply, FallbackAnswered(r, reply)
         PROVE  Inv'
    <2>1. node[r] = "database_metadata" /\ Effect(r) /\ Waits(r, "dataset")
      BY <1>12, ReplyEffect DEF FallbackAnswered
    <2>2. http[r].program \in Program \cup {None}
      BY <2>1, WaitsBeforeItRuns DEF Waits, Request
    <2> QED BY <1>1, <1>10, <1>12, <2>1, <2>2, RaisesInv DEF FallbackAnswered
  <1> QED BY <1>4, <1>5, <1>6, <1>7, <1>8, <1>9, <1>11, <1>12 DEF MetadataStep

(* The path of a metric: no node of it is one of pasted SQL. *)
LEMMA MetricNodes ==
    ASSUME Inv, NEW r \in Run,
           node[r] \in {"search", "inspect", "plan", "build_program", "policy", "execute"}
    PROVE  /\ node[r] \in Node \ {"answer", "end"}
           /\ executed[r] = <<>>
           /\ ~Pasted(Asks(r))
           /\ state[r] \in AgentState
           /\ Carries(r, state[r])
  <1>1. node[r] \in Node \ {"answer", "end"}
    BY DEF Node
  <1>2. ~Pasted(Asks(r))
    BY <1>1 DEF Inv, RunInv, RouteInv
  <1> QED BY <1>1, <1>2, UnderWay DEF Carries

(* From one node of it to the next. *)
LEMMA GoesOnInv ==
    ASSUME Inv, NEW r \in Run, executed' = executed,
           node[r] \in {"search", "inspect", "plan", "build_program", "policy"},
           NEW next \in {"inspect", "plan", "build_program", "policy", "execute"},
           NEW s, Carries(r, s), Leaves(r, next, s),
           next = "execute" /\ s.allowed => s.program \in Program \ Sql
    PROVE  Inv'
  <1>1. /\ node[r] \in Node /\ executed[r] = <<>> /\ ~Pasted(Asks(r))
        /\ next \in Node \ {"answer", "end"}
    BY MetricNodes DEF Node
  <1> QED BY <1>1, NoEffect, LeavesInv

LEMMA PreparationInv ==
    ASSUME Inv, NEW r \in Run,
           \/ Search(r) \/ Inspect(r) \/ Plan(r) \/ BuildProgram(r) \/ Policy(r)
           \/ \E reply \in HttpReply : Found(r, reply) \/ Inspected(r, reply)
    PROVE  Inv'
  <1>1. Place("search") = {"search"} /\ Place("entity") = {"inspect"} /\ "entity" \in Reads
        /\ "search" \notin Queries /\ "entity" \notin Queries
    BY DEF Place, Reads, Queries
  <1>2. CASE Search(r)
    <2>1. node[r] = "search" /\ executed' = executed
      BY <1>2 DEF Search, At
    <2>2. Carries(r, [state[r] EXCEPT !.entity = TRUE])
      BY <2>1, MetricNodes DEF Carries, AgentState
    <2> QED BY <1>1, <1>2, <2>1, <2>2, MetricNodes, GoesOnInv, ReadsInv DEF Search
  <1>3. CASE Inspect(r)
    <2>1. node[r] = "inspect" /\ executed' = executed
      BY <1>3 DEF Inspect, At
    <2> QED BY <1>1, <1>3, <2>1, MetricNodes, GoesOnInv, ReadsInv DEF Inspect
  <1>4. CASE Plan(r)
    BY <1>4, MetricNodes, GoesOnInv DEF Plan, At
  <1>5. CASE BuildProgram(r)
    <2>1. node[r] = "build_program" /\ executed' = executed
      BY <1>5 DEF BuildProgram, At
    <2>2. \A p \in Program \cup {None} : Carries(r, [state[r] EXCEPT !.program = p])
      BY <2>1, MetricNodes DEF Carries, AgentState
    <2>3. PICK p \in Program \cup {None} :
              Leaves(r, "policy", [state[r] EXCEPT !.program = p])
      BY <1>5 DEF BuildProgram
    <2> QED BY <2>1, <2>2, <2>3, GoesOnInv
  <1>6. CASE Policy(r)
    <2> DEFINE s == [state[r] EXCEPT !.allowed = (state[r].program \notin Sql \cup {None})]
    <2>1. node[r] = "policy" /\ executed' = executed /\ Leaves(r, "execute", s)
      BY <1>6 DEF Policy, At
    <2>2. state[r] \in AgentState
      BY <2>1, MetricNodes
    <2>3. Carries(r, s)
      BY <2>2 DEF Carries, AgentState
    <2>4. s.allowed => s.program \in Program \ Sql
      BY <2>2 DEF AgentState
    <2> HIDE DEF s
    <2> QED BY <2>1, <2>3, <2>4, GoesOnInv
  <1>7. ASSUME NEW reply \in HttpReply, Found(r, reply)
        PROVE  Inv'
    <2>1. http[r] # None /\ node[r] = "search" /\ Effect(r) /\ executed' = executed
      BY <1>1, <1>7, ReplyEffect DEF Found, Waits, Inv, RunInv, WaitInv
    <2>2. \A found \in BOOLEAN : Carries(r, [state[r] EXCEPT !.entity = found])
      BY <2>1, MetricNodes DEF Carries, AgentState
    <2> QED BY <1>7, <2>1, <2>2, MetricNodes, GoesOnInv, RaisesInv DEF Found
  <1>8. ASSUME NEW reply \in HttpReply, Inspected(r, reply)
        PROVE  Inv'
    <2>1. http[r] # None /\ node[r] = "inspect" /\ Effect(r) /\ executed' = executed
      BY <1>1, <1>8, ReplyEffect DEF Inspected, Waits, Inv, RunInv, WaitInv
    <2> QED BY <1>8, <2>1, MetricNodes, GoesOnInv, RaisesInv DEF Inspected
  <1> QED BY <1>2, <1>3, <1>4, <1>5, <1>6, <1>7, <1>8

(* The node that executes leads to the answer. *)
LEMMA AnswersInv ==
    ASSUME Inv, NEW r \in Run, node[r] = "execute", Effect(r),
           NEW s, Carries(r, s), Leaves(r, "answer", s),
           s.status # "requires_approval" \/ Reviewable(Asks(r), s)
    PROVE  Inv'
  <1>1. node[r] \in Node /\ ~Pasted(Asks(r)) /\ "answer" \in Node
    BY MetricNodes DEF Node
  <1> QED BY <1>1, LeavesInv

LEMMA ExecuteInv ==
    ASSUME Inv, NEW r \in Run,
           Execute(r) \/ \E reply \in HttpReply : Executed(r, reply)
    PROVE  Inv'
  <1>1. node[r] = "execute"
    BY DEF Execute, Executed, At
  <1>2. node[r] \in Node /\ ~Pasted(Asks(r)) /\ state[r] \in AgentState
    BY <1>1, MetricNodes
  <1>3. \A status \in {"blocked", "completed", "failed"} :
            status \in Status \ {"requires_approval"}
    BY DEF Status
  <1>4. CASE Execute(r)
    <2>1. Effect(r) /\ executed' = executed
      BY <1>4, NoEffect DEF Execute
    <2>2. ASSUME NEW status \in {"blocked", "completed", "failed"},
                 Leaves(r, "answer", Answer(r, status))
          PROVE  Inv'
      BY <1>1, <1>2, <1>3, <2>1, <2>2, CarriesOver, AnswersInv
    <2>3. state[r].allowed => state[r].program \in Program \ Sql
      BY <1>1 DEF Inv, RunInv, AllowedInv
    <2>4. ASSUME state[r].allowed,
                 Leaves(r, "answer",
                        UpForReview(r, state[r].program, state[r].program, FALSE))
          PROVE  Inv'
      <3> DEFINE s == UpForReview(r, state[r].program, state[r].program, FALSE)
      <3>1. /\ Carries(r, s) /\ s.program = state[r].program
            /\ s.shown = state[r].program /\ s.previewOnly = FALSE
        <4> DEFINE p == state[r].program
                   preview == FALSE
        <4>1. /\ p \in Program /\ p \in Shown /\ preview \in BOOLEAN
              /\ s = UpForReview(r, p, p, preview)
          BY <2>3, <2>4 DEF Shown
        <4> HIDE DEF s, p, preview
        <4>2. Carries(r, s) /\ s.program = p /\ s.shown = p /\ s.previewOnly = preview
          BY <1>2, <4>1, Reviews
        <4> QED BY <4>2 DEF p, preview
      <3>2. Reviewable(Asks(r), s)
        BY <1>2, <2>3, <2>4, <3>1 DEF Reviewable, Honest
      <3> HIDE DEF s
      <3> QED BY <1>1, <2>1, <2>4, <3>1, <3>2, AnswersInv DEF s
    <2>5. ASSUME state[r].allowed, ~asked[r].dryRun, Cleared(r, state[r].program),
                 Sends(r, Query("query", state[r].program))
          PROVE  Inv'
      <3>1. asked[r].approved # None /\ state[r].program = asked[r].approved.program
        BY <1>2, <2>5, ClearedIsApproved
      <3>2. /\ Query("query", state[r].program) \in Request
            /\ Query("query", state[r].program).path = "query"
            /\ Query("query", state[r].program).program = state[r].program
        BY <2>3, <2>5 DEF Query, Request, Path, Queries
      <3>3. node[r] \in Place("query")
        BY <1>1 DEF Place, Reads
      <3> QED BY <1>2, <2>1, <2>5, <3>1, <3>2, <3>3, SendsInv
    <2> QED BY <1>4, <2>2, <2>4, <2>5 DEF Execute
  <1>5. ASSUME NEW reply \in HttpReply, Executed(r, reply)
        PROVE  Inv'
    <2>1. Effect(r)
      BY <1>5, ReplyEffect DEF Executed
    <2>2. CASE Raises(r)
      BY <1>2, <2>1, <2>2, RaisesInv
    <2>3. ASSUME NEW status \in {"completed", "failed"},
                 Leaves(r, "answer", Answer(r, status))
          PROVE  Inv'
      BY <1>1, <1>2, <1>3, <2>1, <2>3, CarriesOver, AnswersInv
    <2> QED BY <1>5, <2>2, <2>3 DEF Executed
  <1> QED BY <1>4, <1>5

LEMMA AnswerNodeInv ==
    ASSUME Inv, NEW r \in Run, AnswerNode(r)
    PROVE  Inv'
  <1>1. node[r] = "answer" /\ node[r] \in Node /\ "end" \in Node /\ Effect(r)
    BY NoEffect DEF AnswerNode, At, Node
  <1>2. Carries(r, state[r])
    BY DEF Carries, Inv, TypeOK
  <1>3. state[r].status = "requires_approval" => Reviewable(Asks(r), state[r])
    BY <1>1 DEF Inv, RunInv, EndInv
  <1> QED BY <1>1, <1>2, <1>3, EndsInv DEF AnswerNode

LEMMA RetryStepInv ==
    ASSUME Inv, NEW r \in Run, RetryStep(r)
    PROVE  Inv'
  <1> DEFINE request == [http[r] EXCEPT !.attempt = @ + 1]
  <1>1. /\ http[r] # None /\ http[r].path \in Reads /\ http[r].attempt < MaxRetries
        /\ MetabaseActs(r, "transient")
    BY DEF RetryStep, Retry, Retries, Retryable
  <1>2. http[r].path \notin Queries
    BY <1>1 DEF Reads, Queries
  <1>3. executed' = executed
    BY <1>1, <1>2 DEF MetabaseActs
  <1>4. node[r] \in Node /\ http[r] \in Request
    BY <1>1, WaitsBeforeItRuns
  <1>5. request \in Request /\ request.path = http[r].path
    BY <1>1, <1>4 DEF Request
  <1>6. http' = [http EXCEPT ![r] = request]
    BY DEF RetryStep, Retry
  <1>7. Sends(r, request)
    BY <1>6 DEF RetryStep, Sends
  <1>8. node[r] \in Place(request.path)
    BY <1>1, <1>5 DEF Inv, RunInv, WaitInv
  <1> HIDE DEF request
  <1> QED BY <1>2, <1>3, <1>4, <1>5, <1>7, <1>8, SendsInv

-----------------------------------------------------------------------------
(* The theorems. *)

LEMMA InitInv == Init => Inv
  <1> SUFFICES ASSUME Init PROVE Inv
    OBVIOUS
  <1> USE DEF Init
  <1>1. NoState \in AgentState
    BY DEF NoState, AgentState, Intent, Status, Shown
  <1>2. TypeOK
    BY <1>1 DEF TypeOK, ClientTypeOK
  <1>3. PendingInv
    BY DEF PendingInv
  <1>4. \A r \in Run : RunInv(r)
    BY DEF RunInv, BoundInv, WaitInv, RanInv, RouteInv, AllowedInv, EndInv, Node
  <1> QED BY <1>2, <1>3, <1>4 DEF Inv

LEMMA NextInv == Inv /\ [Next]_vars => Inv'
  <1> SUFFICES ASSUME Inv, [Next]_vars PROVE Inv'
    OBVIOUS
  <1>1. CASE UNCHANGED vars
    <2>1. TypeOK' /\ PendingInv'
      BY <1>1 DEF vars, clientVars, Inv, TypeOK, ClientTypeOK, PendingInv, Reviewable, Pasted
    <2>2. \A r \in Run : RunInv(r)'
      BY <1>1, OthersKept DEF vars, clientVars
    <2> QED BY <2>1, <2>2 DEF Inv
  <1>2. ASSUME NEW r \in Run, RunStep(r)
        PROVE  Inv'
    <2>1. CASE MetricStep(r)
      BY <2>1, PreparationInv, ExecuteInv, AnswerNodeInv DEF MetricStep
    <2> QED BY <1>2, <2>1, ParseInv, SqlStepInv, MetadataStepInv, RetryStepInv, FinalizeInv
            DEF RunStep
  <1> QED BY <1>1, <1>2, AskInv, AskApprovedInv, AbandonInv DEF Next

(* Every state of the graph has its type, whatever the checkpoint has left  *)
(* in a run.                                                                *)
THEOREM GraphTypeCorrect == Spec => []TypeOK
  <1>1. Inv => TypeOK
    BY DEF Inv
  <1> QED BY <1>1, InitInv, NextInv, PTL DEF Spec

(* A run makes Metabase execute only the program of the review it has       *)
(* claimed, SQL only as that review has shown it, and no dry run makes it   *)
(* execute anything: _graph_input sets the approval keys of every run, and  *)
(* each of the four nodes that execute compares the fingerprints.           *)
THEOREM GraphExecutesOnlyTheApproved == Spec => []ExecutesOnlyTheApproved
  <1>1. ASSUME Inv, NEW r \in Run, executed[r] # <<>>
        PROVE  /\ asked[r].approved # None
               /\ ~asked[r].dryRun
               /\ Ran(r) \subseteq {asked[r].approved.program}
               /\ Ran(r) \cap Sql \subseteq {asked[r].approved.shown}
    <2>1. /\ asked[r].approved # None /\ ~asked[r].dryRun
          /\ Honest(asked[r].approved)
          /\ executed[r] = <<asked[r].approved.program>>
      BY <1>1 DEF Inv, RunInv, RanInv
    <2>2. Ran(r) \subseteq {asked[r].approved.program}
      BY <2>1 DEF Ran
    <2> QED BY <2>1, <2>2 DEF Honest
  <1>2. Inv => ExecutesOnlyTheApproved
    BY <1>1 DEF ExecutesOnlyTheApproved
  <1> QED BY <1>2, InitInv, NextInv, PTL DEF Spec

(* And at most once: a query is never retried, and the older endpoint is    *)
(* tried just when Metabase has refused the query.                          *)
THEOREM GraphExecutesOnce == Spec => []ExecutesOnce
  <1>1. ASSUME Inv, NEW r \in Run
        PROVE  Len(executed[r]) <= 1
    <2>1. executed[r] # <<>> => \E p : executed[r] = <<p>>
      BY <1>1, Zenon DEF Inv, RunInv, RanInv
    <2>2. Len(<<>>) = 0 /\ \A p : Len(<<p>>) = 1
      OBVIOUS
    <2>3. CASE executed[r] = <<>>
      <3>1. Len(executed[r]) = 0
        BY <2>2, <2>3, Zenon
      <3> QED BY <3>1
    <2>4. CASE executed[r] # <<>>
      <3>1. Len(executed[r]) = 1
        BY <2>1, <2>2, <2>4, Zenon
      <3> QED BY <3>1
    <2> QED BY <2>3, <2>4
  <1>2. Inv => ExecutesOnce
    BY <1>1 DEF ExecutesOnce
  <1> QED BY <1>2, InitInv, NextInv, PTL DEF Spec

(* A review shows the program it is bound to, or says that it is a preview  *)
(* and is bound to a program that is not SQL: for the aggregations of a     *)
(* table (_table_sql_preview), and whatever program an earlier question has *)
(* left in the checkpoint.                                                  *)
THEOREM GraphReviewShowsOrWarns == Spec => []ReviewShowsOrWarns
  <1>1. Inv => ReviewShowsOrWarns
    BY DEF Inv, PendingInv, Reviewable, Honest, ReviewShowsOrWarns
  <1> QED BY <1>1, InitInv, NextInv, PTL DEF Spec

(* The SQL of a question that the rules take for a SQL question reaches the *)
(* reviewer unchanged and only if it is read-only, however the LLM          *)
(* classifies the question.                                                 *)
THEOREM GraphKeepsPastedSql == Spec => []PastedSqlIsKept
  <1>1. Inv => PastedSqlIsKept
    BY DEF Inv, PendingInv, Reviewable, Pasted, PastedSqlIsKept
  <1> QED BY <1>1, InitInv, NextInv, PTL DEF Spec
=============================================================================

--------------------------- MODULE AskFlowProofs ---------------------------
(***************************************************************************)
(* Proofs about AskFlow for any number of sessions, requests, programs and *)
(* messages: the type invariant, and the inductive invariant behind        *)
(* at-most-once execution.                                                 *)
(***************************************************************************)
EXTENDS AskFlow, TLAPS

(* The pc labels at which a handler has stored its review, if it has one. *)
Finalized == {"context", "reply", "done"}

(* The labels past the point where an approved handler runs its query. *)
PastRun == {"looping", "finalize", "context", "reply"}

(* Only a handler that found a review pending will say that it was rejected, *)
(* and it has nothing else to do.                                            *)
RejectedInv ==
    \A r \in Request :
        frame[r].reply = "rejected" =>
            pc[r] = "reply" /\ frame[r].pending \in Ticket

(* A pending review was stored by a handler of the session it waits in, and  *)
(* nobody has claimed it; without the tools kernel no suspended loop waits.  *)
SlotInv ==
    \A s \in Session :
        approval[s] # NoTicket =>
            /\ approval[s].by \in submitted
            /\ approval[s].by \notin claimed
            /\ session[approval[s].by] = s
            /\ approval[s].mode = "tools" => "tools" \in AgentMode

(* A handler stores at most one review: once it has, it is past that point;  *)
(* and only what was stored is claimed.                                      *)
SubmittedInv ==
    /\ \A r \in submitted : pc[r] \in Finalized
    /\ claimed \subseteq submitted

(* An approval that a handler holds was claimed by an approving message of    *)
(* the session the review belongs to.                                         *)
HeldInv ==
    \A r \in Request :
        frame[r].approved # NoTicket =>
            /\ frame[r].approved.by \in claimed
            /\ session[frame[r].approved.by] = session[r]
            /\ frame[r].approved.mode = "tools" => "tools" \in AgentMode
            /\ IsSqlApproval(frame[r].message)
            /\ ~IsSqlRejection(frame[r].message)
            /\ pc[r] \in {"loaded"} \cup PastRun

(* No two handlers hold one review. *)
HeldOnceInv ==
    \A q, r \in Request :
        frame[q].approved # NoTicket /\ frame[r].approved # NoTicket
            /\ frame[q].approved.by = frame[r].approved.by => q = r

(* Whatever was executed was claimed, and a handler that still holds it is    *)
(* the one that executed it and will not run it again.                        *)
SpentInv ==
    \A e \in executed :
        /\ e.review.by \in claimed
        /\ pc[e.request] # "idle"
        /\ \A r \in Request :
             frame[r].approved # NoTicket /\ frame[r].approved.by = e.review.by
                => pc[r] \in PastRun

ExecInv == AtMostOnce /\ (OneMode => ExecutedAsReviewed) /\ ConsentedExecution

TypeInv == TypeOK /\ RejectedInv

ReviewInv == SlotInv /\ SubmittedInv /\ HeldInv /\ HeldOnceInv /\ SpentInv /\ ExecInv

Inv == TypeInv /\ ReviewInv

-----------------------------------------------------------------------------
(* Types. *)

LEMMA NewFrameType ==
    ASSUME NEW m \in Message, NEW kernel \in AgentMode \cup {"dry_run"},
           NEW reviews \in SUBSET Ticket
    PROVE  NewFrame(m, kernel, reviews) \in Frame
BY Constants DEF NewFrame, Frame, Result, Plain, Reply, PipelineStatus, ToolsStatus

LEMMA NoFrameType == NoFrame \in Frame
BY NewFrameType, Constants DEF NoFrame

(* Setting a local of a handler keeps its frame well formed. *)
LEMMA FrameUpdateType ==
    ASSUME NEW f \in Frame
    PROVE  /\ \A res \in Result : [f EXCEPT !.result = res] \in Frame
           /\ \A rep \in Reply : [f EXCEPT !.reply = rep] \in Frame
           /\ \A pend \in Ticket \cup {NoTicket} :
                 [f EXCEPT !.pending = pend] \in Frame
           /\ \A appr \in Ticket :
                 [f EXCEPT !.approved = appr, !.pending = NoTicket] \in Frame
<1>1. ASSUME NEW res \in Result PROVE [f EXCEPT !.result = res] \in Frame
  BY Zenon DEF Frame
<1>2. ASSUME NEW rep \in Reply PROVE [f EXCEPT !.reply = rep] \in Frame
  BY Zenon DEF Frame
<1>3. ASSUME NEW pend \in Ticket \cup {NoTicket}
      PROVE  [f EXCEPT !.pending = pend] \in Frame
  BY Zenon DEF Frame
<1>4. ASSUME NEW appr \in Ticket
      PROVE  [f EXCEPT !.approved = appr, !.pending = NoTicket] \in Frame
  BY Zenon DEF Frame
<1> QED BY <1>1, <1>2, <1>3, <1>4, Zenon

LEMMA InitTypeOK == Init => TypeOK
BY NoFrameType DEF Init, TypeOK, Context, NoContext, PC

LEMMA NextTypeOK == TypeInv /\ [Next]_vars => TypeOK'
<1> SUFFICES ASSUME TypeOK, RejectedInv, [Next]_vars PROVE TypeOK'
  BY DEF TypeInv
<1> USE DEF TypeOK, storeVars, historyVars, Goto
<1>0. ASSUME NEW r \in Request, NEW f \in Frame, SetFrame(r, f)
      PROVE  frame' \in [Request -> Frame]
  BY <1>0 DEF SetFrame
<1>1. ASSUME NEW r \in Request, NEW s \in Session, NEW m \in Message,
             NEW dry \in DryRun, NEW mode \in AgentMode, Send(r, s, m, dry, mode)
      PROVE  TypeOK'
  <2>1. NewFrame(m, KernelFor(mode, dry), shown[s]) \in Frame
    BY NewFrameType DEF KernelFor
  <2>2. frame' \in [Request -> Frame]
    BY <1>0, <1>1, <2>1 DEF Send
  <2> QED BY <1>1, <2>2 DEF Send, PC
<1>2. ASSUME NEW r \in Request, PrepareStep(r) PROVE TypeOK'
  <2> DEFINE ticket == approval[session[r]]
  <2>0. frame[r] \in Frame
    OBVIOUS
  <2>1. CASE ReadPending(r)
    <3>1. ticket \in Ticket \cup {NoTicket}
      BY <2>1 DEF ReadPending
    <3>2. [frame[r] EXCEPT !.pending = ticket] \in Frame
      BY <2>0, <3>1, FrameUpdateType, Zenon
    <3>3. frame' \in [Request -> Frame]
      BY <1>0, <2>1, <3>2 DEF ReadPending
    <3> QED BY <2>1, <3>3 DEF ReadPending, PC
  <2>2. CASE Reject(r)
    <3>1. [frame[r] EXCEPT !.reply = "rejected"] \in Frame
      BY <2>0, FrameUpdateType, Zenon DEF Reply
    <3>2. frame' \in [Request -> Frame]
      BY <1>0, <2>2, <3>1 DEF Reject
    <3> QED BY <2>2, <3>2 DEF Reject, PC
  <2>3. CASE ClaimApproval(r)
    <3>1. session[r] \in Session /\ ticket \in Ticket
      BY <2>3 DEF ClaimApproval
    <3>2. [frame[r] EXCEPT !.approved = ticket, !.pending = NoTicket] \in Frame
      BY <2>0, <3>1, FrameUpdateType, Zenon
    <3>5. frame' \in [Request -> Frame]
      BY <1>0, <2>3, <3>2 DEF ClaimApproval
    <3>6. claimed' \subseteq Request
      BY <2>3, <3>1 DEF ClaimApproval, Ticket
    <3> QED BY <2>3, <3>5, <3>6 DEF ClaimApproval, PC
  <2>4. CASE ClaimNothing(r)
    <3>1. [frame[r] EXCEPT !.reply = "consumed"] \in Frame
      BY <2>0, FrameUpdateType, Zenon DEF Reply
    <3>2. frame' \in [Request -> Frame]
      BY <1>0, <2>4, <3>1 DEF ClaimNothing
    <3> QED BY <2>4, <3>2 DEF ClaimNothing, PC
  <2>5. CASE ReadContext(r)
    <3>1. [frame[r] EXCEPT !.pending = NoTicket] \in Frame
      BY <2>0, FrameUpdateType, Zenon
    <3>2. frame' \in [Request -> Frame]
      BY <1>0, <2>5, <3>1 DEF ReadContext
    <3>3. pc' \in [Request -> PC]
      BY <2>5 DEF ReadContext, PC
    <3> QED BY <2>5, <3>2, <3>3 DEF ReadContext
  <2>6. CASE ConsumeContext(r)
    BY <2>6 DEF ConsumeContext, PC, Context, NoContext
  <2>7. CASE AnswerFromMemory(r)
    <3>1. [frame[r] EXCEPT !.reply = "memory"] \in Frame
      BY <2>0, FrameUpdateType, Zenon DEF Reply
    <3>2. frame' \in [Request -> Frame]
      BY <1>0, <2>7, <3>1 DEF AnswerFromMemory
    <3> QED BY <2>7, <3>2 DEF AnswerFromMemory, PC
  <2> QED BY <1>2, <2>1, <2>2, <2>3, <2>4, <2>5, <2>6, <2>7 DEF PrepareStep
<1>3. ASSUME NEW r \in Request, NEW res \in Result, Returns(r, res),
             pc[r] # "idle", executed' \subseteq Execution
      PROVE  TypeOK'
  <2>1. [frame[r] EXCEPT !.result = res] \in Frame
    BY FrameUpdateType, Zenon
  <2>2. frame' \in [Request -> Frame]
    BY <1>0, <1>3, <2>1 DEF Returns
  <2> QED BY <1>3, <2>2 DEF Returns, PC
<1>4. ASSUME NEW r \in Request, PipelineStep(r) PROVE TypeOK'
  <2>1. ASSUME NEW p \in Program, PipelineReviews(r, p) PROVE TypeOK'
    <3>1. ForReview(p) \in Result
      BY DEF ForReview, Result
    <3>2. pc[r] # "idle" /\ executed' \subseteq Execution /\ Returns(r, ForReview(p))
      BY <2>1 DEF PipelineReviews, PipelineRuns
    <3> QED BY <1>3, <3>1, <3>2
  <2>2. ASSUME NEW p \in Program,
               NEW status \in Outcome \cap {"table", "completed", "unfinished"},
               PipelineExecutes(r, p, status)
        PROVE  TypeOK'
    <3>1. Plain(status) \in Result
      BY DEF Plain, Result, PipelineStatus
    <3>2. frame[r] \in Frame /\ frame[r].approved \in Ticket
      BY <2>2 DEF PipelineExecutes, MayExecute, Frame
    <3>3. Executed(r, p) \subseteq Execution
      BY <3>2 DEF Executed, Execution, Frame
    <3>4. /\ pc[r] # "idle"
          /\ executed' \subseteq Execution
          /\ Returns(r, Plain(status))
      BY <2>2, <3>3 DEF PipelineExecutes, PipelineRuns
    <3> QED BY <1>3, <3>1, <3>4
  <2>3. ASSUME NEW status \in Outcome, PipelineAnswers(r, status) PROVE TypeOK'
    <3>1. Plain(status) \in Result
      BY Constants DEF Plain, Result, PipelineStatus
    <3>2. /\ pc[r] # "idle"
          /\ executed' \subseteq Execution
          /\ Returns(r, Plain(status))
      BY <2>3 DEF PipelineAnswers, PipelineRuns
    <3> QED BY <1>3, <3>1, <3>2
  <2> QED BY <1>4, <2>1, <2>2, <2>3 DEF PipelineStep
<1>5. ASSUME NEW r \in Request, ToolsStep(r) PROVE TypeOK'
  <2>1. CASE ToolsResume(r)
    <3>1. frame[r] \in Frame /\ frame[r].approved \in Ticket
      BY <2>1 DEF ToolsResume, ResumesLoop, Frame
    <3>2. Executed(r, frame[r].approved.program) \subseteq Execution
      BY <3>1 DEF Executed, Execution, Frame, Ticket
    <3> QED BY <2>1, <3>2 DEF ToolsResume, PC
  <2>2. CASE ToolsStart(r) BY <2>2 DEF ToolsStart, PC
  <2>3. ASSUME NEW p \in Program, ToolsSuspends(r, p) PROVE TypeOK'
    <3>1. ForReview(p) \in Result
      BY DEF ForReview, Result
    <3>2. pc[r] # "idle" /\ executed' \subseteq Execution /\ Returns(r, ForReview(p))
      BY <2>3 DEF ToolsSuspends
    <3> QED BY <1>3, <3>1, <3>2
  <2>4. ASSUME NEW status \in ToolsStatus \ {"requires_approval"},
               ToolsFinishes(r, status)
        PROVE  TypeOK'
    <3>1. Plain(status) \in Result
      BY DEF Plain, Result
    <3>2. /\ pc[r] # "idle"
          /\ executed' \subseteq Execution
          /\ Returns(r, Plain(status))
      BY <2>4 DEF ToolsFinishes
    <3> QED BY <1>3, <3>1, <3>2
  <2> QED BY <1>5, <2>1, <2>2, <2>3, <2>4 DEF ToolsStep
<1>6. ASSUME NEW r \in Request, FinishStep(r) PROVE TypeOK'
  <2>0. ASSUME NEW mode \in {"pipeline", "tools"},
               frame[r].result.status = "requires_approval"
        PROVE  TicketOf(r, mode) \in Ticket
    <3>1. frame[r].result \in Result
      BY DEF Frame
    <3> QED BY <2>0, <3>1 DEF TicketOf, Ticket, Result
  <2>1. CASE FinalizeApproval(r)
    <3>1. approval' \in [Session -> Ticket \cup {NoTicket}]
      BY <2>1, <2>0 DEF FinalizeApproval, StoreReview
    <3> QED BY <2>1, <3>1 DEF FinalizeApproval, StoreReview, PC
  <2>2. CASE FinalizeContext(r)
    <3>1. session[r] \in Session
      BY <2>2 DEF FinalizeContext
    <3>2. NextContext(r, context[session[r]]) \in Context
      BY <3>1 DEF NextContext, Context, NoContext
    <3> QED BY <2>2, <3>1, <3>2 DEF FinalizeContext, PC
  <2>3. CASE FinalizeTools(r)
    <3>1. approval' \in [Session -> Ticket \cup {NoTicket}]
      BY <2>3, <2>0 DEF FinalizeTools, StoreReview
    <3> QED BY <2>3, <3>1 DEF FinalizeTools, StoreReview, PC
  <2>4. CASE Respond(r)
    <3>1. shown' \in [Session -> SUBSET Ticket]
      <4>1. session[r] \in Session /\ Kernel(r) \in {"pipeline", "tools"}
        BY <2>4 DEF Respond, Kernel
      <4> QED BY <2>4, <4>1, <2>0 DEF Respond
    <3>2. refused' \subseteq Request
      BY <2>4 DEF Respond, RejectedInv, Ticket
    <3>3. frame' \in [Request -> Frame] /\ pc' \in [Request -> PC]
      BY <1>0, <2>4, NoFrameType DEF Respond, PC
    <3> QED BY <2>4, <3>1, <3>2, <3>3 DEF Respond
  <2> QED BY <1>6, <2>1, <2>2, <2>3, <2>4 DEF FinishStep
<1>7. ASSUME NEW r \in Request, HandlerFails(r) PROVE TypeOK'
  <2>1. [frame[r] EXCEPT !.reply = "failed"] \in Frame
    BY FrameUpdateType, Zenon DEF Reply
  <2>2. frame' \in [Request -> Frame]
    BY <1>0, <1>7, <2>1 DEF HandlerFails
  <2> QED BY <1>7, <2>2 DEF HandlerFails, PC
<1>8. ASSUME NEW r \in Request, Abandon(r) PROVE TypeOK'
  BY <1>0, <1>8, NoFrameType DEF Abandon, PC
<1>9. ASSUME NEW s \in Session,
             ViewSession(s) \/ ExpireApproval(s) \/ ExpireContext(s)
      PROVE  TypeOK'
  BY <1>9 DEF ViewSession, ExpireApproval, ExpireContext, Context, NoContext
<1>10. CASE UNCHANGED vars
  BY <1>10 DEF vars
<1> QED
  BY <1>1, <1>2, <1>4, <1>5, <1>6, <1>7, <1>8, <1>9, <1>10 DEF Next, HandlerStep

-----------------------------------------------------------------------------
(* The steps, by what they do to the life of a review. *)

(* Handlers move on: no request starts again, none that has stored its review *)
(* comes back to do it again, and none gets hold of an approval.              *)
Moves ==
    \A q \in Request :
        /\ pc[q] # "idle" => pc'[q] # "idle" /\ session'[q] = session[q]
        /\ pc[q] \in Finalized => pc'[q] \in Finalized
        /\ frame'[q].approved # NoTicket =>
              /\ frame'[q].approved = frame[q].approved
              /\ frame'[q].message = frame[q].message
              /\ pc'[q] \in {pc[q]} \cup PastRun

Quiet ==
    /\ Moves
    /\ UNCHANGED <<submitted, claimed, executed>>
    /\ \/ UNCHANGED approval
       \/ \E s \in Session : approval' = [approval EXCEPT ![s] = NoTicket]

Stores(r) ==
    /\ Moves
    /\ UNCHANGED <<claimed, executed>>
    /\ pc[r] = "finalize" /\ pc'[r] \in Finalized
    /\ \E mode \in {"pipeline", "tools"} :
          /\ StoreReview(r, mode)
          /\ mode = "tools" => "tools" \in AgentMode

Runs(r) ==
    /\ Moves
    /\ UNCHANGED <<approval, submitted, claimed>>
    /\ pc[r] = "loaded" /\ pc'[r] \in PastRun
    /\ frame[r].approved # NoTicket
    /\ \E p \in Program :
         /\ executed' = Executed(r, p)
         /\ OneMode => p = frame[r].approved.program

LEMMA NewFrameFields ==
    ASSUME NEW m, NEW kernel, NEW reviews
    PROVE  /\ NewFrame(m, kernel, reviews).approved = NoTicket
           /\ NewFrame(m, kernel, reviews).reply = "answer"
BY DEF NewFrame

(* One handler moves, and keeps the approval it holds only past the run. *)
LEMMA MoveStep ==
    ASSUME TypeOK, NEW r \in Request, NEW label,
           pc[r] # "idle", Goto(r, label), label # "idle", UNCHANGED session,
           pc[r] \in Finalized => label \in Finalized,
           \/ frame[r].approved = NoTicket
           \/ label \in PastRun
           \/ SetFrame(r, NoFrame),
           \/ UNCHANGED frame
           \/ \E v : SetFrame(r, [frame[r] EXCEPT !.result = v])
           \/ \E v : SetFrame(r, [frame[r] EXCEPT !.reply = v])
           \/ \E v : SetFrame(r, [frame[r] EXCEPT !.pending = v])
           \/ SetFrame(r, NoFrame)
    PROVE  Moves
<1>1. /\ frame \in [Request -> Frame]
      /\ frame[r] \in Frame
      /\ pc \in [Request -> PC]
  BY DEF TypeOK
<1>2. /\ pc'[r] = label
      /\ \A q \in Request \ {r} : pc'[q] = pc[q]
      /\ \A q \in Request : session'[q] = session[q]
  BY <1>1 DEF Goto
<1>3. \A q \in Request \ {r} : frame'[q] = frame[q]
  BY <1>1 DEF SetFrame
<1>0. \A f : SetFrame(r, f) => frame'[r] = f
  BY <1>1 DEF SetFrame
<1>4. \/ /\ frame'[r].approved = frame[r].approved
         /\ frame'[r].message = frame[r].message
      \/ SetFrame(r, NoFrame) /\ frame'[r].approved = NoTicket
  <2>1. CASE UNCHANGED frame BY <2>1
  <2>2. ASSUME NEW v, \/ SetFrame(r, [frame[r] EXCEPT !.result = v])
                      \/ SetFrame(r, [frame[r] EXCEPT !.reply = v])
                      \/ SetFrame(r, [frame[r] EXCEPT !.pending = v])
        PROVE  /\ frame'[r].approved = frame[r].approved
               /\ frame'[r].message = frame[r].message
    <3>1. \/ frame'[r] = [frame[r] EXCEPT !.result = v]
          \/ frame'[r] = [frame[r] EXCEPT !.reply = v]
          \/ frame'[r] = [frame[r] EXCEPT !.pending = v]
      BY <1>0, <2>2, Zenon
    <3>2. CASE frame'[r] = [frame[r] EXCEPT !.result = v]
      BY <1>1, <3>2 DEF Frame
    <3>3. CASE frame'[r] = [frame[r] EXCEPT !.reply = v]
      BY <1>1, <3>3 DEF Frame
    <3>4. CASE frame'[r] = [frame[r] EXCEPT !.pending = v]
      BY <1>1, <3>4 DEF Frame
    <3> QED BY <3>1, <3>2, <3>3, <3>4, Zenon
  <2>3. CASE SetFrame(r, NoFrame)
    BY <1>0, <2>3, NewFrameFields, Zenon DEF NoFrame
  <2>4. CASE \E v : SetFrame(r, [frame[r] EXCEPT !.result = v])
    BY <2>2, <2>4
  <2>5. CASE \E v : SetFrame(r, [frame[r] EXCEPT !.reply = v])
    BY <2>2, <2>5
  <2>6. CASE \E v : SetFrame(r, [frame[r] EXCEPT !.pending = v])
    BY <2>2, <2>6
  <2> QED BY <2>1, <2>3, <2>4, <2>5, <2>6, Zenon
<1>5. SetFrame(r, NoFrame) => frame'[r].approved = NoTicket
  BY <1>0, NewFrameFields, Zenon DEF NoFrame
<1> QED BY <1>2, <1>3, <1>4, <1>5 DEF Moves

-----------------------------------------------------------------------------
(* What such steps keep. *)

(* An execution of the ledger refers to requests that are not idle. *)
LEMMA LedgerType ==
    ASSUME TypeOK, NEW e \in executed
    PROVE  e.review \in Ticket /\ e.review.by \in Request /\ e.request \in Request
BY DEF TypeOK, Execution, Ticket

(* The review and the request of an execution keep their session. *)
LEMMA LedgerSession ==
    ASSUME TypeOK, ReviewInv, Moves, NEW e \in executed
    PROVE  /\ session'[e.request] = session[e.request]
           /\ session'[e.review.by] = session[e.review.by]
<1>1. pc[e.request] # "idle" /\ pc[e.review.by] # "idle"
  BY DEF ReviewInv, SpentInv, SubmittedInv, Finalized
<1> QED BY <1>1, LedgerType DEF Moves

(* A handler that moves holds the approval it held. *)
LEMMA MovesHeld ==
    ASSUME TypeOK', Moves, NEW q \in Request, frame'[q].approved # NoTicket
    PROVE  /\ frame'[q].approved = frame[q].approved
           /\ frame'[q].message = frame[q].message
           /\ frame[q].approved \in Ticket
           /\ frame[q].approved.by \in Request
BY DEF Moves, TypeOK, Frame, Ticket

LEMMA HeldKept ==
    ASSUME TypeOK, TypeOK', ReviewInv, Moves, UNCHANGED claimed
    PROVE  HeldInv' /\ HeldOnceInv'
<1> USE DEF ReviewInv
<1>1. HeldInv'
  <2> SUFFICES ASSUME NEW q \in Request, frame'[q].approved # NoTicket
               PROVE  /\ frame'[q].approved.by \in claimed'
                      /\ session'[frame'[q].approved.by] = session'[q]
                      /\ frame'[q].approved.mode = "tools" => "tools" \in AgentMode
                      /\ IsSqlApproval(frame'[q].message)
                      /\ ~IsSqlRejection(frame'[q].message)
                      /\ pc'[q] \in {"loaded"} \cup PastRun
    BY DEF HeldInv
  <2>1. /\ frame'[q].approved = frame[q].approved
        /\ frame'[q].message = frame[q].message
        /\ frame[q].approved.by \in Request
    BY MovesHeld
  <2>2. pc'[q] \in {"loaded"} \cup PastRun /\ session'[q] = session[q]
    BY <2>1 DEF Moves, HeldInv, PastRun
  <2>3. session'[frame[q].approved.by] = session[frame[q].approved.by]
    <3>1. frame[q].approved.by \in submitted
      BY <2>1 DEF HeldInv, SubmittedInv
    <3>2. pc[frame[q].approved.by] # "idle"
      BY <3>1 DEF SubmittedInv, Finalized
    <3> QED BY <2>1, <3>2 DEF Moves
  <2> QED BY <2>1, <2>2, <2>3 DEF HeldInv
<1>2. HeldOnceInv'
  BY MovesHeld DEF HeldOnceInv
<1> QED BY <1>1, <1>2

(* Without a new execution the ledger is as good as it was. *)
LEMMA LedgerKept ==
    ASSUME TypeOK, TypeOK', ReviewInv, Moves, UNCHANGED <<claimed, executed>>
    PROVE  SpentInv' /\ ExecInv'
<1> USE DEF ReviewInv
<1>1. SpentInv'
  <2>1. ASSUME NEW e \in executed, NEW q \in Request,
               frame'[q].approved # NoTicket, frame'[q].approved.by = e.review.by
        PROVE  pc'[q] \in PastRun
    BY <2>1, MovesHeld DEF SpentInv, Moves
  <2>2. ASSUME NEW e \in executed PROVE pc'[e.request] # "idle"
    BY <2>2, LedgerType DEF SpentInv, Moves
  <2> QED BY <2>1, <2>2 DEF SpentInv
<1>2. ExecInv'
  BY LedgerSession DEF ExecInv, AtMostOnce, ExecutedAsReviewed, ConsentedExecution
<1> QED BY <1>1, <1>2

LEMMA QuietKeeps ==
    ASSUME TypeOK, TypeOK', ReviewInv, Quiet
    PROVE  ReviewInv'
<1>1. SlotInv'
  BY DEF Quiet, Moves, ReviewInv, SlotInv, SubmittedInv, Finalized, TypeOK
<1>2. SubmittedInv'
  BY DEF Quiet, Moves, ReviewInv, SubmittedInv, TypeOK
<1> QED BY <1>1, <1>2, HeldKept, LedgerKept DEF Quiet, ReviewInv

(* A handler stores its review in the slot of its session, once. *)
LEMMA StoresKeeps ==
    ASSUME TypeOK, TypeOK', ReviewInv, NEW r \in Request, Stores(r),
           frame[r].result.program \in Program
    PROVE  ReviewInv'
<1> USE DEF ReviewInv
<1>1. PICK mode \in {"pipeline", "tools"} :
         StoreReview(r, mode) /\ (mode = "tools" => "tools" \in AgentMode)
  BY DEF Stores
<1>2. r \notin submitted /\ r \notin claimed
  BY DEF Stores, SubmittedInv, Finalized
<1>3. TicketOf(r, mode).by = r /\ TicketOf(r, mode).mode = mode
  BY DEF TicketOf
<1>4. session[r] \in Session /\ session'[r] = session[r]
  BY DEF Stores, Moves, TypeOK
<1>5. SlotInv'
  <2> SUFFICES ASSUME NEW s \in Session, approval'[s] # NoTicket
               PROVE  /\ approval'[s].by \in submitted'
                      /\ approval'[s].by \notin claimed'
                      /\ session'[approval'[s].by] = s
                      /\ approval'[s].mode = "tools" => "tools" \in AgentMode
    BY DEF SlotInv
  <2>1. CASE s = session[r]
    <3>1. approval'[s] = TicketOf(r, mode)
      BY <1>1, <1>4, <2>1 DEF StoreReview, TypeOK
    <3> QED BY <1>1, <1>2, <1>3, <1>4, <2>1, <3>1 DEF StoreReview, Stores
  <2>2. CASE s # session[r]
    <3>1. approval'[s] = approval[s]
      BY <1>1, <2>2 DEF StoreReview, TypeOK
    <3>2. approval[s].by \in submitted /\ approval[s].by \in Request
      BY <3>1 DEF SlotInv, TypeOK
    <3>3. session'[approval[s].by] = session[approval[s].by]
      BY <3>2 DEF SubmittedInv, Finalized, Stores, Moves
    <3> QED BY <1>1, <3>1, <3>2, <3>3 DEF SlotInv, StoreReview, Stores
  <2> QED BY <2>1, <2>2
<1>6. SubmittedInv'
  BY <1>1 DEF SubmittedInv, StoreReview, Stores, Moves, TypeOK
<1> QED BY <1>5, <1>6, HeldKept, LedgerKept DEF Stores

(* Whoever runs a query holds its approval alone and has not run it before. *)
LEMMA RunsKeeps ==
    ASSUME TypeOK, TypeOK', ReviewInv, NEW r \in Request, Runs(r)
    PROVE  ReviewInv'
<1> USE DEF ReviewInv
<1>0. PICK p \in Program :
         /\ executed' = Executed(r, p)
         /\ OneMode => p = frame[r].approved.program
  BY DEF Runs
<1> DEFINE ticket == frame[r].approved
           new == [review |-> ticket, request |-> r, program |-> p,
                   message |-> frame[r].message, seen |-> frame[r].seen]
<1>1. executed' = executed \cup {new}
  BY <1>0 DEF Executed
<1>2. ticket # NoTicket /\ ticket \in Ticket /\ ticket.by \in Request
  BY DEF Runs, TypeOK, Frame, Ticket
<1>3. /\ ticket.by \in claimed
      /\ session[ticket.by] = session[r]
      /\ IsSqlApproval(frame[r].message)
      /\ ~IsSqlRejection(frame[r].message)
  BY <1>2 DEF HeldInv
<1>4. pc[ticket.by] \in Finalized /\ pc[ticket.by] # "idle" /\ ticket.by # r
  BY <1>3 DEF SubmittedInv, Finalized, Runs
<1>5. /\ session'[ticket.by] = session[ticket.by]
      /\ session'[r] = session[r]
      /\ pc'[r] # "idle"
  BY <1>2, <1>4 DEF Runs, Moves
<1>6. \A e \in executed : e.review.by # ticket.by
  BY <1>2 DEF SpentInv, Runs, PastRun
<1>7. SlotInv' /\ SubmittedInv'
  BY DEF Runs, Moves, SlotInv, SubmittedInv, Finalized, TypeOK
<1>8. SpentInv'
  <2> SUFFICES ASSUME NEW e \in executed'
               PROVE  /\ e.review.by \in claimed'
                      /\ pc'[e.request] # "idle"
                      /\ \A q \in Request :
                           frame'[q].approved # NoTicket
                             /\ frame'[q].approved.by = e.review.by
                               => pc'[q] \in PastRun
    BY DEF SpentInv
  <2>1. CASE e \in executed
    <3>1. pc'[e.request] # "idle"
      BY <2>1, LedgerType DEF SpentInv, Runs, Moves
    <3>2. ASSUME NEW q \in Request, frame'[q].approved # NoTicket,
                 frame'[q].approved.by = e.review.by
          PROVE  pc'[q] \in PastRun
      BY <2>1, <3>2, MovesHeld DEF SpentInv, Runs, Moves
    <3> QED BY <2>1, <3>1, <3>2 DEF SpentInv, Runs
  <2>2. CASE e = new
    <3>1. ASSUME NEW q \in Request, frame'[q].approved # NoTicket,
                 frame'[q].approved.by = ticket.by
          PROVE  pc'[q] \in PastRun
      BY <1>2, <3>1, MovesHeld DEF HeldOnceInv, Runs
    <3> QED BY <1>3, <1>5, <2>2, <3>1 DEF Runs
  <2> QED BY <1>1, <2>1, <2>2
<1>9. ExecInv'
  <2>1. AtMostOnce'
    BY <1>1, <1>6 DEF ExecInv, AtMostOnce
  <2>2. OneMode => ExecutedAsReviewed'
    BY <1>0, <1>1 DEF ExecInv, ExecutedAsReviewed
  <2>3. ConsentedExecution'
    <3>1. ASSUME NEW e \in executed
          PROVE  /\ session'[e.request] = session[e.request]
                 /\ session'[e.review.by] = session[e.review.by]
      BY LedgerSession DEF Runs
    <3>2. /\ r # ticket.by
          /\ session'[r] = session'[ticket.by]
          /\ frame[r].message.decision # "approve" =>
                /\ frame[r].message.decision = "none"
                /\ frame[r].message.approves
                /\ ~frame[r].message.rejects
                /\ ~frame[r].message.sql
      BY <1>3, <1>4, <1>5 DEF IsSqlApproval, IsSqlRejection
    <3> QED BY <1>1, <3>1, <3>2 DEF ExecInv, ConsentedExecution
  <2> QED BY <2>1, <2>2, <2>3 DEF ExecInv
<1> QED BY <1>7, <1>8, <1>9, HeldKept DEF Runs

(* The claim empties the slot, so that the claimed review is held once. *)
LEMMA ClaimKeeps ==
    ASSUME TypeOK, TypeOK', ReviewInv, NEW r \in Request, ClaimApproval(r)
    PROVE  ReviewInv'
<1> USE DEF ReviewInv
<1> DEFINE ticket == approval[session[r]]
<1>1. /\ session[r] \in Session
      /\ ticket \in Ticket /\ ticket # NoTicket /\ ticket.by \in Request
      /\ pc[r] = "decide" /\ pc' = [pc EXCEPT ![r] = "loaded"]
      /\ approval' = [approval EXCEPT ![session[r]] = NoTicket]
      /\ claimed' = claimed \cup {ticket.by}
      /\ UNCHANGED <<session, submitted, executed>>
      /\ IsSqlApproval(frame[r].message) /\ ~IsSqlRejection(frame[r].message)
  BY DEF ClaimApproval, Goto, Approves, TypeOK, Ticket
<1>2. /\ ticket.by \in submitted
      /\ ticket.by \notin claimed
      /\ session[ticket.by] = session[r]
      /\ ticket.mode = "tools" => "tools" \in AgentMode
  BY <1>1 DEF SlotInv
<1>3. /\ frame'[r].approved = ticket /\ frame'[r].message = frame[r].message
      /\ \A q \in Request \ {r} : frame'[q] = frame[q]
  <2>1. SetFrame(r, [frame[r] EXCEPT !.approved = ticket, !.pending = NoTicket])
    BY DEF ClaimApproval
  <2>2. /\ frame'[r] = [frame[r] EXCEPT !.approved = ticket, !.pending = NoTicket]
        /\ \A q \in Request \ {r} : frame'[q] = frame[q]
    BY <2>1 DEF SetFrame, TypeOK
  <2>3. frame[r] \in Frame
    BY DEF TypeOK
  <2> QED BY <2>2, <2>3 DEF Frame
<1>4. pc'[r] = "loaded" /\ \A q \in Request \ {r} : pc'[q] = pc[q]
  BY <1>1 DEF TypeOK
<1>5. \A q \in Request : frame[q].approved # NoTicket =>
          frame[q].approved \in Ticket /\ frame[q].approved.by # ticket.by
  BY <1>2 DEF HeldInv, TypeOK, Frame
<1>6. SlotInv'
  <2> SUFFICES ASSUME NEW s \in Session, approval'[s] # NoTicket
               PROVE  /\ approval'[s].by \in submitted'
                      /\ approval'[s].by \notin claimed'
                      /\ session'[approval'[s].by] = s
                      /\ approval'[s].mode = "tools" => "tools" \in AgentMode
    BY DEF SlotInv
  <2>1. s # session[r] /\ approval'[s] = approval[s]
    BY <1>1 DEF TypeOK
  <2> QED BY <1>1, <1>2, <2>1 DEF SlotInv
<1>7. SubmittedInv'
  BY <1>1, <1>2, <1>4 DEF SubmittedInv, Finalized, TypeOK
<1>8. HeldInv'
  BY <1>1, <1>2, <1>3, <1>4 DEF HeldInv
<1>9. HeldOnceInv'
  BY <1>3, <1>5 DEF HeldOnceInv
<1>10. SpentInv'
  <2>1. ASSUME NEW e \in executed PROVE e.review.by # ticket.by
    BY <1>2 DEF SpentInv
  <2>2. ASSUME NEW e \in executed, NEW q \in Request,
               frame'[q].approved # NoTicket, frame'[q].approved.by = e.review.by
        PROVE  pc'[q] \in PastRun
    BY <1>3, <1>4, <2>1, <2>2 DEF SpentInv
  <2>3. ASSUME NEW e \in executed PROVE pc'[e.request] # "idle"
    BY <1>4, LedgerType DEF SpentInv
  <2> QED BY <1>1, <2>2, <2>3 DEF SpentInv
<1>11. ExecInv'
  BY <1>1 DEF ExecInv, AtMostOnce, ExecutedAsReviewed, ConsentedExecution
<1> QED BY <1>6, <1>7, <1>8, <1>9, <1>10, <1>11

-----------------------------------------------------------------------------
(* Which kind of step every action is. *)

LEMMA PrepareStepKind ==
    ASSUME TypeOK, ReviewInv, NEW r \in Request, PrepareStep(r)
    PROVE  Quiet \/ ClaimApproval(r)
<1> USE DEF storeVars, historyVars
<1>0. pc[r] \in {"prepare", "decide", "consume"} => frame[r].approved = NoTicket
  BY DEF ReviewInv, HeldInv, PastRun
<1>1. CASE ReadPending(r)
  <2>1. Moves
    BY <1>0, <1>1, MoveStep DEF ReadPending, Finalized
  <2> QED BY <1>1, <2>1 DEF ReadPending, Quiet
<1>2. CASE Reject(r)
  <2>1. Moves
    BY <1>0, <1>2, MoveStep DEF Reject, Finalized
  <2> QED BY <1>2, <2>1 DEF Reject, Quiet, TypeOK
<1>3. CASE ClaimNothing(r)
  <2>1. Moves
    BY <1>0, <1>3, MoveStep DEF ClaimNothing, Finalized
  <2> QED BY <1>3, <2>1 DEF ClaimNothing, Quiet
<1>4. CASE ReadContext(r)
  <2>1. \/ Goto(r, "consume")
        \/ Goto(r, "loaded")
    BY <1>4 DEF ReadContext
  <2>2. Moves
    BY <1>0, <1>4, <2>1, MoveStep DEF ReadContext, Finalized
  <2> QED BY <1>4, <2>2 DEF ReadContext, Quiet
<1>5. CASE ConsumeContext(r)
  <2>1. Moves
    BY <1>0, <1>5, MoveStep DEF ConsumeContext, Finalized
  <2> QED BY <1>5, <2>1 DEF ConsumeContext, Quiet
<1>6. CASE AnswerFromMemory(r)
  <2>1. Moves
    BY <1>6, MoveStep DEF AnswerFromMemory, Finalized, PastRun
  <2> QED BY <1>6, <2>1 DEF AnswerFromMemory, Quiet
<1> QED BY <1>1, <1>2, <1>3, <1>4, <1>5, <1>6 DEF PrepareStep

LEMMA ReturnsMoves ==
    ASSUME TypeOK, NEW r \in Request, NEW res, Returns(r, res),
           pc[r] \in {"loaded", "looping"}
    PROVE  Moves
BY MoveStep DEF Returns, Finalized, PastRun

LEMMA PipelineStepKind ==
    ASSUME TypeOK, ReviewInv, NEW r \in Request, PipelineStep(r)
    PROVE  Quiet \/ Runs(r)
<1> USE DEF storeVars, PipelineRuns
<1>1. ASSUME NEW p \in Program, PipelineReviews(r, p) PROVE Quiet
  <2>1. Moves
    BY <1>1, ReturnsMoves DEF PipelineReviews
  <2> QED BY <1>1, <2>1 DEF PipelineReviews, Returns, Quiet
<1>2. ASSUME NEW status \in Outcome, PipelineAnswers(r, status) PROVE Quiet
  <2>1. Moves
    BY <1>2, ReturnsMoves DEF PipelineAnswers
  <2> QED BY <1>2, <2>1 DEF PipelineAnswers, Returns, Quiet
<1>3. ASSUME NEW p \in Program, NEW status, PipelineExecutes(r, p, status)
      PROVE  Quiet \/ Runs(r)
  <2>1. Moves
    BY <1>3, ReturnsMoves DEF PipelineExecutes
  <2>2. CASE frame[r].kernel = "dry_run"
    BY <1>3, <2>1, <2>2 DEF PipelineExecutes, Returns, Quiet
  <2>3. CASE frame[r].kernel # "dry_run"
    <3>1. frame[r].approved \in Ticket /\ frame[r].approved # NoTicket
      BY <1>3 DEF PipelineExecutes, MayExecute, TypeOK, Frame
    <3>2. OneMode => frame[r].approved.mode = "pipeline"
      <4>1. frame[r].kernel \in AgentMode /\ frame[r].kernel # "tools"
        BY <1>3, <2>3 DEF PipelineExecutes, UseTools, TypeOK, Frame
      <4>2. OneMode => "tools" \notin AgentMode
        BY <4>1, Constants DEF OneMode
      <4> QED BY <3>1, <4>2 DEF ReviewInv, HeldInv, Ticket
    <3>3. OneMode => p = frame[r].approved.program
      BY <1>3, <3>2 DEF PipelineExecutes, MayExecute, ApprovedProgramMismatch
    <3>4. executed' = Executed(r, p)
      BY <1>3, <2>3 DEF PipelineExecutes
    <3>5. pc[r] = "loaded" /\ pc'[r] \in PastRun
      BY <1>3 DEF PipelineExecutes, Returns, Goto, PastRun, TypeOK
    <3> QED BY <1>3, <2>1, <3>1, <3>3, <3>4, <3>5 DEF PipelineExecutes, Returns, Runs
  <2> QED BY <2>2, <2>3
<1> QED BY <1>1, <1>2, <1>3 DEF PipelineStep

LEMMA ToolsStepKind ==
    ASSUME TypeOK, ReviewInv, NEW r \in Request, ToolsStep(r)
    PROVE  Quiet \/ Runs(r)
<1> USE DEF storeVars, historyVars
<1>1. CASE ToolsResume(r)
  <2>1. Moves
    BY <1>1, MoveStep DEF ToolsResume, Finalized, PastRun
  <2>2. CASE executed' = executed
    BY <1>1, <2>1, <2>2 DEF ToolsResume, Quiet
  <2>3. CASE executed' = Executed(r, frame[r].approved.program)
    <3>1. pc[r] = "loaded" /\ pc'[r] \in PastRun
      BY <1>1 DEF ToolsResume, Goto, PastRun, TypeOK
    <3>2. frame[r].approved.program \in Program
      BY <1>1 DEF ToolsResume, ResumesLoop, TypeOK, Frame, Ticket
    <3> QED BY <1>1, <2>1, <2>3, <3>1, <3>2 DEF ToolsResume, ResumesLoop, Runs
  <2> QED BY <1>1, <2>2, <2>3 DEF ToolsResume
<1>2. CASE ToolsStart(r)
  <2>1. Moves
    BY <1>2, MoveStep DEF ToolsStart, Finalized, PastRun
  <2> QED BY <1>2, <2>1 DEF ToolsStart, Quiet
<1>3. ASSUME NEW p \in Program, ToolsSuspends(r, p) PROVE Quiet
  <2>1. Moves
    BY <1>3, ReturnsMoves DEF ToolsSuspends
  <2> QED BY <1>3, <2>1 DEF ToolsSuspends, Returns, Quiet
<1>4. ASSUME NEW status, ToolsFinishes(r, status) PROVE Quiet
  <2>1. Moves
    BY <1>4, ReturnsMoves DEF ToolsFinishes
  <2> QED BY <1>4, <2>1 DEF ToolsFinishes, Returns, Quiet
<1> QED BY <1>1, <1>2, <1>3, <1>4 DEF ToolsStep

LEMMA FinishStepKind ==
    ASSUME TypeOK, NEW r \in Request, FinishStep(r)
    PROVE  \/ Quiet
           \/ Stores(r) /\ frame[r].result.program \in Program
<1> USE DEF storeVars, historyVars
<1>0. frame[r].result.status = "requires_approval"
        => frame[r].result.program \in Program
  BY DEF TypeOK, Frame, Result
<1>1. CASE FinalizeApproval(r)
  <2>1. Moves
    BY <1>1, MoveStep DEF FinalizeApproval, Finalized, PastRun
  <2>2. pc[r] = "finalize" /\ pc'[r] \in Finalized
    BY <1>1 DEF FinalizeApproval, Goto, Finalized, TypeOK
  <2>3. CASE frame[r].result.status = "requires_approval"
    BY <1>0, <1>1, <2>1, <2>2, <2>3 DEF FinalizeApproval, Stores
  <2>4. CASE frame[r].result.status # "requires_approval"
    BY <1>1, <2>1, <2>4 DEF FinalizeApproval, Quiet
  <2> QED BY <2>3, <2>4
<1>2. CASE FinalizeTools(r)
  <2>1. Moves
    BY <1>2, MoveStep DEF FinalizeTools, Finalized, PastRun
  <2>2. pc[r] = "finalize" /\ pc'[r] \in Finalized /\ "tools" \in AgentMode
    BY <1>2 DEF FinalizeTools, Goto, Finalized, TypeOK, UseTools, Frame
  <2>3. CASE frame[r].result.status = "requires_approval"
    BY <1>0, <1>2, <2>1, <2>2, <2>3 DEF FinalizeTools, Stores
  <2>4. CASE frame[r].result.status # "requires_approval"
    BY <1>2, <2>1, <2>4 DEF FinalizeTools, Quiet, TypeOK
  <2> QED BY <2>3, <2>4
<1>3. CASE FinalizeContext(r)
  <2>1. Moves
    BY <1>3, MoveStep DEF FinalizeContext, Finalized, PastRun
  <2> QED BY <1>3, <2>1 DEF FinalizeContext, Quiet
<1>4. CASE Respond(r)
  <2>1. Moves
    BY <1>4, MoveStep DEF Respond, Finalized
  <2> QED BY <1>4, <2>1 DEF Respond, Quiet
<1> QED BY <1>1, <1>2, <1>3, <1>4 DEF FinishStep

(* Every step of the system is of one of the four kinds. *)
LEMMA NextKind ==
    ASSUME Inv, [Next]_vars
    PROVE  \/ Quiet
           \/ \E r \in Request :
                \/ ClaimApproval(r)
                \/ Runs(r)
                \/ Stores(r) /\ frame[r].result.program \in Program
<1> USE DEF storeVars, historyVars
<1>0. TypeOK /\ TypeOK' /\ ReviewInv
  BY NextTypeOK DEF Inv, TypeInv
<1>1. ASSUME NEW r \in Request, NEW s \in Session, NEW m \in Message,
             NEW dry \in DryRun, NEW mode \in AgentMode, Send(r, s, m, dry, mode)
      PROVE  Quiet
  <2>1. /\ pc[r] = "idle" /\ pc'[r] = "prepare"
        /\ frame'[r].approved = NoTicket
        /\ \A q \in Request \ {r} : /\ pc'[q] = pc[q]
                                    /\ session'[q] = session[q]
                                    /\ frame'[q] = frame[q]
    BY <1>0, <1>1, NewFrameFields DEF Send, Goto, SetFrame, TypeOK
  <2>2. Moves
    BY <2>1 DEF Moves, Finalized
  <2> QED BY <1>1, <2>2 DEF Send, Quiet
<1>2. ASSUME NEW r \in Request, HandlerStep(r)
      PROVE  \/ Quiet
             \/ ClaimApproval(r)
             \/ Runs(r)
             \/ Stores(r) /\ frame[r].result.program \in Program
  BY <1>0, <1>2, PrepareStepKind, PipelineStepKind, ToolsStepKind, FinishStepKind
  DEF HandlerStep
<1>3. ASSUME NEW r \in Request, HandlerFails(r) PROVE Quiet
  <2>1. Moves
    BY <1>0, <1>3, MoveStep DEF HandlerFails, Finalized, PastRun
  <2> QED BY <1>3, <2>1 DEF HandlerFails, Quiet
<1>4. ASSUME NEW r \in Request, Abandon(r) PROVE Quiet
  <2>1. Moves
    BY <1>0, <1>4, MoveStep DEF Abandon, Finalized
  <2> QED BY <1>4, <2>1 DEF Abandon, Quiet
<1>5. ASSUME NEW s \in Session,
             ViewSession(s) \/ ExpireApproval(s) \/ ExpireContext(s)
      PROVE  Quiet
  BY <1>0, <1>5 DEF ViewSession, ExpireApproval, ExpireContext, Quiet, Moves, TypeOK
<1>6. ASSUME UNCHANGED vars PROVE Quiet
  BY <1>6 DEF vars, Quiet, Moves
<1> QED
  BY <1>1, <1>2, <1>3, <1>4, <1>5, <1>6 DEF Next

LEMMA NextReviewInv == Inv /\ [Next]_vars => ReviewInv'
BY NextTypeOK, NextKind, QuietKeeps, StoresKeeps, RunsKeeps, ClaimKeeps
DEF Inv, TypeInv

LEMMA NextRejectedInv == TypeInv /\ [Next]_vars => RejectedInv'
<1> SUFFICES ASSUME TypeOK, RejectedInv, [Next]_vars PROVE RejectedInv'
  BY DEF TypeInv
<1> USE DEF storeVars, historyVars
<1>0. \A q \in Request : frame[q] \in Frame
  BY DEF TypeOK
<1>1. ASSUME NEW r \in Request, NEW f, NEW label,
             SetFrame(r, f), Goto(r, label), f.reply # "rejected"
      PROVE  RejectedInv'
  BY <1>1 DEF SetFrame, Goto, RejectedInv, TypeOK
<1>2. ASSUME NEW r \in Request, NEW label,
             UNCHANGED frame, Goto(r, label), pc[r] # "reply"
      PROVE  RejectedInv'
  BY <1>2 DEF Goto, RejectedInv, TypeOK
<1>3. NoFrame.reply # "rejected"
  BY NewFrameFields DEF NoFrame
<1>4. ASSUME NEW r \in Request, NEW s \in Session, NEW m \in Message,
             NEW dry \in DryRun, NEW mode \in AgentMode, Send(r, s, m, dry, mode)
      PROVE  RejectedInv'
  <2>1. NewFrame(m, KernelFor(mode, dry), shown[s]).reply # "rejected"
    BY NewFrameFields
  <2> QED BY <1>1, <1>4, <2>1 DEF Send
<1>5. ASSUME NEW r \in Request, NEW label, NEW v, Goto(r, label), pc[r] # "reply",
             SetFrame(r, [frame[r] EXCEPT !.result = v])
      PROVE  RejectedInv'
  <2>1. [frame[r] EXCEPT !.result = v].reply = frame[r].reply
    BY <1>0 DEF Frame
  <2> QED BY <1>1, <1>5, <2>1 DEF RejectedInv
<1>6. ASSUME NEW r \in Request, NEW label, NEW v, Goto(r, label), v # "rejected",
             SetFrame(r, [frame[r] EXCEPT !.reply = v])
      PROVE  RejectedInv'
  <2>1. [frame[r] EXCEPT !.reply = v].reply = v
    BY <1>0 DEF Frame
  <2> QED BY <1>1, <1>6, <2>1
<1>7. ASSUME NEW r \in Request, NEW label, NEW v, Goto(r, label), pc[r] # "reply",
             SetFrame(r, [frame[r] EXCEPT !.pending = v])
      PROVE  RejectedInv'
  <2>1. [frame[r] EXCEPT !.pending = v].reply = frame[r].reply
    BY <1>0 DEF Frame
  <2> QED BY <1>1, <1>7, <2>1 DEF RejectedInv
<1>8. ASSUME NEW r \in Request, PrepareStep(r) PROVE RejectedInv'
  <2>1. CASE ReadPending(r) BY <1>7, <2>1 DEF ReadPending
  <2>2. CASE Reject(r)
    <3>1. /\ frame' = [frame EXCEPT ![r] = [frame[r] EXCEPT !.reply = "rejected"]]
          /\ pc' = [pc EXCEPT ![r] = "reply"]
          /\ frame[r].pending # NoTicket
      BY <2>2 DEF Reject, SetFrame, Goto
    <3>2. [frame[r] EXCEPT !.reply = "rejected"].pending = frame[r].pending
      BY <1>0 DEF Frame
    <3>3. frame[r].pending \in Ticket
      BY <1>0, <3>1 DEF Frame
    <3>4. frame'[r].pending = frame[r].pending /\ pc'[r] = "reply"
      BY <3>1, <3>2 DEF TypeOK
    <3>5. \A q \in Request \ {r} : frame'[q] = frame[q] /\ pc'[q] = pc[q]
      BY <3>1 DEF TypeOK
    <3> QED BY <3>3, <3>4, <3>5 DEF RejectedInv
  <2>3. CASE ClaimApproval(r)
    <3> DEFINE f == [frame[r] EXCEPT !.approved = approval[session[r]],
                                     !.pending = NoTicket]
    <3>1. f.reply = frame[r].reply
      BY <1>0 DEF Frame
    <3>2. SetFrame(r, f) /\ Goto(r, "loaded") /\ pc[r] = "decide"
      BY <2>3 DEF ClaimApproval
    <3> HIDE DEF f
    <3> QED BY <1>1, <3>1, <3>2 DEF RejectedInv
  <2>4. CASE ClaimNothing(r) BY <1>6, <2>4 DEF ClaimNothing
  <2>5. CASE ReadContext(r) BY <1>7, <2>5 DEF ReadContext
  <2>6. CASE ConsumeContext(r) BY <1>2, <2>6 DEF ConsumeContext
  <2>7. CASE AnswerFromMemory(r) BY <1>6, <2>7 DEF AnswerFromMemory
  <2> QED BY <1>8, <2>1, <2>2, <2>3, <2>4, <2>5, <2>6, <2>7 DEF PrepareStep
<1>9. ASSUME NEW r \in Request, PipelineStep(r) \/ ToolsStep(r) PROVE RejectedInv'
  <2>1. ASSUME NEW res, Returns(r, res), pc[r] # "reply" PROVE RejectedInv'
    BY <1>5, <2>1 DEF Returns
  <2>2. CASE ToolsResume(r) \/ ToolsStart(r)
    BY <1>2, <2>2 DEF ToolsResume, ToolsStart
  <2> QED
    BY <1>9, <2>1, <2>2
    DEF PipelineStep, PipelineReviews, PipelineExecutes, PipelineAnswers,
        PipelineRuns, ToolsStep, ToolsSuspends, ToolsFinishes
<1>10. ASSUME NEW r \in Request, FinishStep(r) \/ Abandon(r) PROVE RejectedInv'
  BY <1>1, <1>2, <1>3, <1>10
  DEF FinishStep, FinalizeApproval, FinalizeContext, FinalizeTools, Respond, Abandon
<1>11. ASSUME NEW r \in Request, HandlerFails(r) PROVE RejectedInv'
  BY <1>6, <1>11 DEF HandlerFails
<1>12. ASSUME NEW s \in Session,
              ViewSession(s) \/ ExpireApproval(s) \/ ExpireContext(s)
       PROVE  RejectedInv'
  BY <1>12 DEF ViewSession, ExpireApproval, ExpireContext, RejectedInv
<1>13. CASE UNCHANGED vars
  BY <1>13 DEF vars, RejectedInv
<1> QED
  BY <1>4, <1>8, <1>9, <1>10, <1>11, <1>12, <1>13 DEF Next, HandlerStep

-----------------------------------------------------------------------------
LEMMA InitInv == Init => Inv
<1> SUFFICES ASSUME Init PROVE Inv
  OBVIOUS
<1>1. \A r \in Request :
         frame[r].approved = NoTicket /\ frame[r].reply = "answer"
  BY NewFrameFields DEF Init, NoFrame
<1> QED
  BY <1>1, InitTypeOK
  DEF Init, Inv, TypeInv, RejectedInv, ReviewInv, SlotInv, SubmittedInv, HeldInv,
      HeldOnceInv, SpentInv, ExecInv, AtMostOnce, ExecutedAsReviewed,
      ConsentedExecution

LEMMA NextInv == Inv /\ [Next]_vars => Inv'
BY NextTypeOK, NextRejectedInv, NextReviewInv DEF Inv, TypeInv

LEMMA Invariance == Spec => []Inv
BY InitInv, NextInv, PTL DEF Spec

(* Every handler of app.py keeps the store, its locals and the ledgers well  *)
(* typed, for any number of sessions and requests.                           *)
THEOREM TypeCorrect == Spec => []TypeOK
<1>1. Inv => TypeOK
  BY DEF Inv, TypeInv
<1> QED BY <1>1, Invariance, PTL

(* However the handlers of a session interleave, fail and are abandoned, no   *)
(* approved review is sent to Metabase twice: _claim_approval is take-once.   *)
THEOREM ExecutesAtMostOnce == Spec => []AtMostOnce
<1>1. Inv => AtMostOnce
  BY DEF Inv, ReviewInv, ExecInv
<1> QED BY <1>1, Invariance, PTL

(* What runs under an approval is the program that was put up for review,     *)
(* whatever the approved run of the graph builds from the question: the       *)
(* fingerprint check of sql_review.py, or the SQL stored by the tool loop, if  *)
(* AGENT_MODE is never switched.                                              *)
THEOREM ExecutesOnlyTheReviewed ==
    ASSUME OneMode
    PROVE  Spec => []ExecutedAsReviewed
<1>1. Inv => ExecutedAsReviewed
  BY DEF Inv, ReviewInv, ExecInv
<1> QED BY <1>1, Invariance, PTL

(* A review runs only for another request of its own session whose message    *)
(* approves, does not reject and carries no SQL of its own (_prepare_ask).    *)
THEOREM ExecutesOnlyByConsent == Spec => []ConsentedExecution
<1>1. Inv => ConsentedExecution
  BY DEF Inv, ReviewInv, ExecInv
<1> QED BY <1>1, Invariance, PTL

-----------------------------------------------------------------------------
(* What the client is shown, and how long a review stays. *)

(* A handler that has a review to deliver, and is past storing it. *)
Delivers(r) ==
    /\ pc[r] \in {"context", "reply"}
    /\ frame[r].reply = "answer"
    /\ frame[r].result.status = "requires_approval"

(* _finalize_ask stores before it answers; a failed store answers no review.  *)
DeliveryInv == \A r \in Request : Delivers(r) => r \in submitted

ShownInv == ShownWasStored /\ DeliveryInv

LEMMA NoFrameDeliversNothing == NoFrame.result.status = "none"
BY DEF NoFrame, NewFrame, Plain

LEMMA SubmittedGrows ==
    ASSUME Inv, [Next]_vars
    PROVE  submitted \subseteq submitted'
BY NextKind DEF Quiet, ClaimApproval, Runs, Stores, StoreReview

(* A step that changes one handler keeps DeliveryInv, if that handler does    *)
(* not come to deliver what it has not stored.                                *)
LEMMA DeliveryKept ==
    ASSUME TypeOK, DeliveryInv, NEW r \in Request, submitted \subseteq submitted',
           NEW label, Goto(r, label),
           UNCHANGED frame \/ \E f : SetFrame(r, f),
           Delivers(r)' => Delivers(r) \/ r \in submitted'
    PROVE  DeliveryInv'
<1>1. \A q \in Request \ {r} : pc'[q] = pc[q] /\ frame'[q] = frame[q]
  BY DEF Goto, SetFrame, TypeOK
<1>2. \A q \in Request \ {r} : Delivers(q)' => Delivers(q)
  BY <1>1 DEF Delivers
<1> QED BY <1>2 DEF DeliveryInv

LEMMA NextDeliveryInv ==
    ASSUME Inv, ShownInv, [Next]_vars
    PROVE  DeliveryInv'
<1> USE DEF storeVars, historyVars
<1>0. TypeOK /\ submitted \subseteq submitted' /\ DeliveryInv
  BY SubmittedGrows DEF Inv, TypeInv, ShownInv
<1>1. ASSUME NEW r \in Request, NEW label, Goto(r, label),
             label \notin {"context", "reply"},
             UNCHANGED frame \/ \E f : SetFrame(r, f)
      PROVE  DeliveryInv'
  <2>1. pc'[r] = label
    BY <1>0, <1>1 DEF Goto, TypeOK
  <2>2. ~ Delivers(r)'
    BY <1>1, <2>1 DEF Delivers
  <2> QED BY <1>0, <1>1, <2>2, DeliveryKept
<1>2. ASSUME NEW r \in Request, NEW label, NEW v, Goto(r, label), v # "answer",
             SetFrame(r, [frame[r] EXCEPT !.reply = v])
      PROVE  DeliveryInv'
  <2>1. frame'[r].reply = v
    BY <1>0, <1>2 DEF SetFrame, TypeOK, Frame
  <2>2. ~ Delivers(r)'
    BY <1>2, <2>1 DEF Delivers
  <2>3. \E f : SetFrame(r, f)
    BY <1>2
  <2> QED BY <1>0, <1>2, <2>2, <2>3, DeliveryKept
<1>3. ASSUME NEW r \in Request, NEW label, UNCHANGED frame, Goto(r, label),
             \/ Delivers(r)
             \/ r \in submitted'
             \/ frame[r].result.status # "requires_approval"
      PROVE  DeliveryInv'
  <2>1. Delivers(r)' => Delivers(r) \/ r \in submitted'
    BY <1>3 DEF Delivers
  <2> QED BY <1>0, <1>3, <2>1, DeliveryKept
<1>4. ASSUME NEW r \in Request, NEW s \in Session, NEW m \in Message,
             NEW dry \in DryRun, NEW mode \in AgentMode, Send(r, s, m, dry, mode)
      PROVE  DeliveryInv'
  BY <1>1, <1>4 DEF Send
<1>5. ASSUME NEW r \in Request, PrepareStep(r) PROVE DeliveryInv'
  <2>1. CASE ReadPending(r) BY <1>1, <2>1 DEF ReadPending
  <2>2. CASE Reject(r) BY <1>2, <2>2 DEF Reject
  <2>3. CASE ClaimApproval(r) BY <1>1, <2>3 DEF ClaimApproval
  <2>4. CASE ClaimNothing(r) BY <1>2, <2>4 DEF ClaimNothing
  <2>5. CASE ReadContext(r) BY <1>1, <2>5 DEF ReadContext
  <2>6. CASE ConsumeContext(r) BY <1>1, <2>6 DEF ConsumeContext
  <2>7. CASE AnswerFromMemory(r) BY <1>2, <2>7 DEF AnswerFromMemory
  <2> QED BY <1>5, <2>1, <2>2, <2>3, <2>4, <2>5, <2>6, <2>7 DEF PrepareStep
<1>6. ASSUME NEW r \in Request, PipelineStep(r) \/ ToolsStep(r) PROVE DeliveryInv'
  <2>1. ASSUME NEW res, Returns(r, res) PROVE DeliveryInv'
    BY <1>1, <2>1 DEF Returns
  <2>2. CASE ToolsResume(r) \/ ToolsStart(r)
    BY <1>1, <2>2 DEF ToolsResume, ToolsStart
  <2> QED
    BY <1>6, <2>1, <2>2
    DEF PipelineStep, PipelineReviews, PipelineExecutes, PipelineAnswers,
        ToolsStep, ToolsSuspends, ToolsFinishes
<1>7. ASSUME NEW r \in Request, FinishStep(r) PROVE DeliveryInv'
  <2>1. CASE FinalizeApproval(r)
    BY <1>3, <2>1 DEF FinalizeApproval, StoreReview
  <2>2. CASE FinalizeTools(r)
    BY <1>3, <2>2 DEF FinalizeTools, StoreReview
  <2>3. CASE FinalizeContext(r)
    <3>1. Delivers(r)' => Delivers(r)
      BY <2>3 DEF FinalizeContext, Delivers
    <3> QED BY <1>0, <2>3, <3>1, DeliveryKept DEF FinalizeContext
  <2>4. CASE Respond(r)
    BY <1>1, <2>4 DEF Respond
  <2> QED BY <1>7, <2>1, <2>2, <2>3, <2>4 DEF FinishStep
<1>8. ASSUME NEW r \in Request, HandlerFails(r) PROVE DeliveryInv'
  BY <1>2, <1>8 DEF HandlerFails
<1>9. ASSUME NEW r \in Request, Abandon(r) PROVE DeliveryInv'
  BY <1>1, <1>9 DEF Abandon
<1>10. ASSUME NEW s \in Session,
              ViewSession(s) \/ ExpireApproval(s) \/ ExpireContext(s)
       PROVE  DeliveryInv'
  BY <1>0, <1>10
  DEF ViewSession, ExpireApproval, ExpireContext, DeliveryInv, Delivers
<1>11. CASE UNCHANGED vars
  BY <1>0, <1>11 DEF vars, DeliveryInv, Delivers
<1> QED
  BY <1>4, <1>5, <1>6, <1>7, <1>8, <1>9, <1>10, <1>11 DEF Next, HandlerStep

(* Two actions show a review: the answer of the handler that stored it, and a *)
(* reload that reads it from the slot.                                        *)
LEMMA NextShownWasStored ==
    ASSUME Inv, ShownInv, [Next]_vars
    PROVE  ShownWasStored'
<1> USE DEF storeVars, historyVars
<1>0. TypeOK /\ SlotInv /\ submitted \subseteq submitted' /\ ShownWasStored
  BY SubmittedGrows DEF Inv, TypeInv, ReviewInv, ShownInv
<1>1. CASE UNCHANGED shown
  BY <1>0, <1>1 DEF ShownWasStored
<1>2. ASSUME NEW r \in Request, Respond(r) PROVE ShownWasStored'
  <2>1. CASE Delivers(r)
    <3>1. r \in submitted
      BY <2>1 DEF ShownInv, DeliveryInv
    <3>2. TicketOf(r, Kernel(r)).by = r
      BY DEF TicketOf
    <3>3. shown' = [shown EXCEPT ![session[r]] = @ \cup {TicketOf(r, Kernel(r))}]
      BY <1>2, <2>1 DEF Respond, Delivers
    <3> QED BY <1>0, <3>1, <3>2, <3>3 DEF ShownWasStored, TypeOK
  <2>2. CASE ~Delivers(r)
    BY <1>1, <1>2, <2>2 DEF Respond, Delivers
  <2> QED BY <2>1, <2>2
<1>3. ASSUME NEW s \in Session, ViewSession(s) PROVE ShownWasStored'
  <2>1. approval[s].by \in submitted
    BY <1>0, <1>3 DEF ViewSession, SlotInv
  <2> QED BY <1>0, <1>3, <2>1 DEF ViewSession, ShownWasStored, TypeOK
<1>4. ASSUME NEW r \in Request, PrepareStep(r) PROVE UNCHANGED shown
  BY <1>4
  DEF PrepareStep, ReadPending, Reject, ClaimApproval, ClaimNothing, ReadContext,
      ConsumeContext, AnswerFromMemory
<1>5. ASSUME NEW r \in Request, PipelineStep(r) \/ ToolsStep(r) PROVE UNCHANGED shown
  BY <1>5
  DEF PipelineStep, PipelineReviews, PipelineExecutes, PipelineAnswers, Returns,
      ToolsStep, ToolsResume, ToolsStart, ToolsSuspends, ToolsFinishes
<1>6. ASSUME NEW r \in Request, FinishStep(r) PROVE Respond(r) \/ UNCHANGED shown
  BY <1>6 DEF FinishStep, FinalizeApproval, FinalizeTools, FinalizeContext
<1>7. ASSUME NEW r \in Request,
             \/ HandlerFails(r) \/ Abandon(r)
             \/ \E s \in Session, m \in Message, dry \in DryRun, mode \in AgentMode :
                  Send(r, s, m, dry, mode)
      PROVE  UNCHANGED shown
  BY <1>7 DEF HandlerFails, Abandon, Send
<1>8. ASSUME NEW s \in Session, ExpireApproval(s) \/ ExpireContext(s)
      PROVE  UNCHANGED shown
  BY <1>8 DEF ExpireApproval, ExpireContext
<1>9. CASE UNCHANGED vars
  BY <1>1, <1>9 DEF vars
<1> QED
  BY <1>1, <1>2, <1>3, <1>4, <1>5, <1>6, <1>7, <1>8, <1>9 DEF Next, HandlerStep

(* A client is never asked to decide about a review before it is in the       *)
(* store: _finalize_ask puts it there before it yields the answer.            *)
THEOREM ShowsOnlyTheStored == Spec => []ShownWasStored
<1>1. Init => ShownInv
  BY NoFrameDeliversNothing
  DEF Init, ShownInv, ShownWasStored, DeliveryInv, Delivers
<1>2. Inv /\ ShownInv /\ [Next]_vars => ShownInv'
  BY NextDeliveryInv, NextShownWasStored DEF ShownInv
<1>3. ShownInv => ShownWasStored
  BY DEF ShownInv
<1> QED BY <1>1, <1>2, <1>3, Invariance, PTL DEF Spec

(* In a deployment without the tools kernel a review leaves its slot empty    *)
(* only through the decision of a request of its own session, or its TTL: no  *)
(* other answer of the pipeline clears it (_finalize_ask).                    *)
THEOREM KeepsReviewUntilDecided ==
    ASSUME "tools" \notin AgentMode
    PROVE  Spec => ReviewKeptUntilDecided
<1> USE DEF storeVars, historyVars
<1> DEFINE Kept(s) ==
      approval[s] # NoTicket /\ approval'[s] = NoTicket =>
          \/ ExpireApproval(s)
          \/ \E r \in Request : session[r] = s /\ Decides(r)
<1>1. Inv /\ [Next]_vars => [\A s \in Session : Kept(s)]_vars
  <2> SUFFICES ASSUME Inv, Next, NEW s \in Session,
                      approval[s] # NoTicket, approval'[s] = NoTicket
               PROVE  \/ ExpireApproval(s)
                      \/ \E r \in Request : session[r] = s /\ Decides(r)
    OBVIOUS
  <2>0. TypeOK
    BY DEF Inv, TypeInv
  <2>1. approval' # approval
    OBVIOUS
  <2>2. ASSUME NEW r \in Request, Reject(r) \/ ClaimApproval(r)
        PROVE  session[r] = s /\ Decides(r)
    <3>1. session[r] = s
      BY <2>0, <2>2 DEF Reject, ClaimApproval, TypeOK
    <3>2. pc[r] = "decide" /\ pc'[r] \in {"reply", "loaded"}
      BY <2>0, <2>2 DEF Reject, ClaimApproval, Goto, TypeOK
    <3>3. ~ Undecided(r)
      BY <2>2 DEF Reject, ClaimApproval, Approves, Undecided
    <3> QED BY <3>1, <3>2, <3>3 DEF Decides
  <2>3. ASSUME NEW r \in Request, PrepareStep(r)
        PROVE  Reject(r) \/ ClaimApproval(r)
    BY <2>1, <2>3
    DEF PrepareStep, ReadPending, ClaimNothing, ReadContext, ConsumeContext,
        AnswerFromMemory
  <2>4. ASSUME NEW r \in Request, PipelineStep(r) \/ ToolsStep(r) PROVE FALSE
    BY <2>1, <2>4
    DEF PipelineStep, PipelineReviews, PipelineExecutes, PipelineAnswers, Returns,
        ToolsStep, ToolsResume, ToolsStart, ToolsSuspends, ToolsFinishes
  <2>5. ASSUME NEW r \in Request, FinishStep(r) PROVE FALSE
    <3>1. ~ UseTools(r)
      BY <2>0 DEF UseTools, TypeOK, Frame
    <3>2. CASE FinalizeApproval(r)
      <4>1. frame[r].result.status = "requires_approval"
              /\ StoreReview(r, "pipeline")
        BY <2>1, <3>2 DEF FinalizeApproval
      <4>2. frame[r].result.program \in Program
        BY <2>0, <4>1 DEF TypeOK, Frame, Result
      <4>3. TicketOf(r, "pipeline") \in Ticket
        BY <4>2 DEF TicketOf, Ticket
      <4>4. TicketOf(r, "pipeline") # NoTicket
        BY <4>3, Constants
      <4> QED BY <2>0, <4>1, <4>4 DEF StoreReview, TypeOK
    <3> QED BY <2>1, <2>5, <3>1, <3>2
            DEF FinishStep, FinalizeTools, FinalizeContext, Respond
  <2>6. ASSUME NEW r \in Request,
               \/ HandlerFails(r) \/ Abandon(r)
               \/ \E t \in Session, m \in Message, dry \in DryRun,
                     mode \in AgentMode : Send(r, t, m, dry, mode)
        PROVE  FALSE
    BY <2>1, <2>6 DEF HandlerFails, Abandon, Send
  <2>7. ASSUME NEW t \in Session,
               ViewSession(t) \/ ExpireApproval(t) \/ ExpireContext(t)
        PROVE  ExpireApproval(s)
    <3>1. ExpireApproval(t)
      BY <2>1, <2>7 DEF ViewSession, ExpireContext
    <3>2. t = s
      BY <2>0, <3>1 DEF ExpireApproval, TypeOK
    <3> QED BY <3>1, <3>2
  <2> QED
    BY <2>2, <2>3, <2>4, <2>5, <2>6, <2>7 DEF Next, HandlerStep
<1> QED BY <1>1, Invariance, PTL DEF Spec, ReviewKeptUntilDecided
=============================================================================

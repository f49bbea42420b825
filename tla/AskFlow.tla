------------------------------ MODULE AskFlow ------------------------------
(***************************************************************************)
(* The request handlers of api/app.py (POST /api/ask and its SSE twin      *)
(* /api/ask/stream) working concurrently on the session state they share:  *)
(* the slot of the SQL approval that waits for a human, and the slot of    *)
(* the table context.  Every call on the session store is a step of its    *)
(* own; between two of them any other handler may run, the client may      *)
(* leave, and the store may fail.                                          *)
(*                                                                         *)
(* The store is the atomic one of api/store.py.  The two kernels           *)
(* (agent/graph.py and agent/tool_loop.py) appear here as the outcomes     *)
(* they may return; the LLM in them makes the outcome nondeterministic.    *)
(*                                                                         *)
(* A review or an awaiting clarification has no identity in the code; here *)
(* it is named by the request whose handler stored it.                     *)
(***************************************************************************)
CONSTANTS
    Session,        \* session ids
    Request,        \* the requests ever sent; each is handled once
    Program,        \* query programs, up to program_fingerprint
    Message,        \* what a client may send, see MessageType
    DryRun,         \* the dry_run values a client may send
    Outcome,        \* the statuses the pipeline may return without a review
    NoTicket,       \* an empty approval slot
    NoSession,      \* the session of a request not sent yet
    AgentMode,      \* the AGENT_MODEs of the workers, over their restarts
    SessionTtl      \* AGENT_SESSION_TTL_SECONDS > 0

(* A message is the traits the handlers look at: the explicit decision; does *)
(* the text carry SQL; does it contain an approval, a rejection or a recall  *)
(* phrase; is it just the name of one of the databases offered.              *)
MessageType ==
    [decision : {"none", "approve", "reject", "other"},
     sql : BOOLEAN, approves : BOOLEAN, rejects : BOOLEAN,
     recalls : BOOLEAN, database : BOOLEAN]

Ticket == [by : Request, program : Program, mode : {"pipeline", "tools"}]

PipelineStatus == {"requires_approval", "requires_clarification", "table",
                   "database", "completed", "unfinished"}
ToolsStatus == {"requires_approval", "answered", "exhausted"}

ASSUME Constants ==
    /\ NoTicket \notin Ticket
    /\ NoSession \notin Session
    /\ Message \subseteq MessageType /\ Message # {}
    /\ DryRun \subseteq BOOLEAN
    /\ Outcome \subseteq PipelineStatus \ {"requires_approval"}
    /\ AgentMode \subseteq {"pipeline", "tools"} /\ AgentMode # {}
    /\ SessionTtl \in BOOLEAN

VARIABLES
    approval,   \* store: pending approval of a session
    context,    \* store: table context of a session
    pc,         \* where the handler of a request is
    session,    \* the session a request belongs to
    frame,      \* the request's fields and the locals of its handler
    submitted,  \* history: requests whose handler stored an approval
    claimed,    \* history: reviews claimed for execution
    executed,   \* history: queries sent to Metabase under an approval
    shown,      \* history: reviews a client of the session has received
    refused     \* history: reviews a client was told have not run

storeVars == <<approval, context>>
historyVars == <<submitted, claimed, executed, shown, refused>>
vars == <<storeVars, pc, session, frame, historyVars>>

Result ==
    [status : {"requires_approval"}, program : Program]
    \cup [status : (PipelineStatus \cup ToolsStatus \cup {"none"})
                   \ {"requires_approval"}]

Plain(status) == [status |-> status]
ForReview(p) == [status |-> "requires_approval", program |-> p]

(* awaiting: a question waits for the database it is about. *)
Context == {"none", "awaiting", "table", "database"}
NoContext == "none"

PC == {"idle", "prepare", "decide", "consume", "loaded", "looping",
       "finalize", "context", "reply", "done"}

Reply == {"answer", "rejected", "consumed", "memory", "failed"}

(* message: the request; kernel: what answers it, by its dry_run and the    *)
(* AGENT_MODE of the worker it is sent to; seen: the reviews its client had *)
(* received when it was sent; pending, approved: the locals of _prepare_ask; *)
(* result: what the kernel returned; reply: what the client will be told.   *)
Frame ==
    [message : Message, kernel : AgentMode \cup {"dry_run"}, seen : SUBSET Ticket,
     pending : Ticket \cup {NoTicket}, approved : Ticket \cup {NoTicket},
     result : Result, reply : Reply]

NewFrame(m, kernel, reviews) ==
    [message |-> m, kernel |-> kernel, seen |-> reviews, pending |-> NoTicket,
     approved |-> NoTicket, result |-> Plain("none"), reply |-> "answer"]

(* The frame of a handler that is not running. *)
NoFrame == NewFrame(CHOOSE m \in Message : TRUE, "dry_run", {})

Execution ==
    [review : Ticket, request : Request, program : Program,
     message : Message, seen : SUBSET Ticket]

Init ==
    /\ approval = [s \in Session |-> NoTicket]
    /\ context = [s \in Session |-> NoContext]
    /\ pc = [r \in Request |-> "idle"]
    /\ session = [r \in Request |-> NoSession]
    /\ frame = [r \in Request |-> NoFrame]
    /\ submitted = {}
    /\ claimed = {}
    /\ executed = {}
    /\ shown = [s \in Session |-> {}]
    /\ refused = {}

-----------------------------------------------------------------------------
(* Reading a message. *)

(* Bug to catch: SQL pasted next to "please approve" approves what pended.  *)
IsSqlApproval_AnyText(m) ==
    \/ m.decision = "approve"
    \/ m.decision = "none" /\ m.approves

(* A message that carries SQL of its own is a new request, never a decision *)
(* about a pending one; an explicit decision overrides the text.            *)
IsSqlApproval(m) ==
    \/ m.decision = "approve"
    \/ m.decision = "none" /\ ~m.sql /\ m.approves

IsSqlRejection(m) ==
    \/ m.decision = "reject"
    \/ m.decision = "none" /\ ~m.sql /\ m.rejects

ResumesClarification(m, ctx) ==
    ctx = "awaiting" /\ ~m.sql /\ m.database

(* A dry run is the pipeline's, whatever the mode. *)
KernelFor(mode, dry) == IF dry THEN "dry_run" ELSE mode

UseTools(r) == frame[r].kernel = "tools"

(* Bug to catch: the fingerprint is not compared. *)
ApprovedProgramMismatch_Never(ticket, p) == FALSE

(* Only an approval stored by the pipeline carries a program hash, and      *)
(* without a hash no program mismatches.                                    *)
ApprovedProgramMismatch(ticket, p) ==
    ticket.mode = "pipeline" /\ ticket.program # p

MayExecute(r, p) ==
    /\ frame[r].approved # NoTicket
    /\ ~ApprovedProgramMismatch(frame[r].approved, p)

(* The ledger after sending program p to Metabase for request r. *)
Executed(r, p) ==
    executed \cup {[review |-> frame[r].approved, request |-> r, program |-> p,
                    message |-> frame[r].message, seen |-> frame[r].seen]}

Goto(r, label) == pc' = [pc EXCEPT ![r] = label]

SetFrame(r, f) == frame' = [frame EXCEPT ![r] = f]

-----------------------------------------------------------------------------
(* _prepare_ask *)

(* Bug to catch: the request is accepted without its session. *)
Send_NoSession(r, s, m, dry, mode) ==
    /\ pc[r] = "idle"
    /\ Goto(r, "prepare")
    /\ SetFrame(r, NewFrame(m, KernelFor(mode, dry), shown[s]))
    /\ UNCHANGED <<storeVars, session, historyVars>>

Send(r, s, m, dry, mode) ==
    /\ pc[r] = "idle"
    /\ Goto(r, "prepare")
    /\ session' = [session EXCEPT ![r] = s]
    /\ SetFrame(r, NewFrame(m, KernelFor(mode, dry), shown[s]))
    /\ UNCHANGED <<storeVars, historyVars>>

ReadPending(r) ==
    /\ pc[r] = "prepare"
    /\ Goto(r, "decide")
    /\ SetFrame(r, [frame[r] EXCEPT !.pending = approval[session[r]]])
    /\ UNCHANGED <<storeVars, session, historyVars>>

(* The slot is emptied whatever it holds by now. *)
Reject(r) ==
    /\ pc[r] = "decide"
    /\ frame[r].pending # NoTicket
    /\ IsSqlRejection(frame[r].message)
    /\ Goto(r, "reply")
    /\ approval' = [approval EXCEPT ![session[r]] = NoTicket]
    /\ SetFrame(r, [frame[r] EXCEPT !.reply = "rejected"])
    /\ UNCHANGED <<context, session, historyVars>>

Approves(r) ==
    /\ frame[r].pending # NoTicket
    /\ ~IsSqlRejection(frame[r].message)
    /\ IsSqlApproval(frame[r].message)

(* Bug to catch: the claim reads the slot and leaves it filled. *)
ClaimApproval_NoDelete(r) ==
    LET ticket == approval[session[r]] IN
    /\ pc[r] = "decide"
    /\ Approves(r)
    /\ ticket # NoTicket
    /\ Goto(r, "loaded")
    /\ SetFrame(r, [frame[r] EXCEPT !.approved = ticket, !.pending = NoTicket])
    /\ claimed' = claimed \cup {ticket.by}
    /\ UNCHANGED <<storeVars, session, submitted, executed, shown, refused>>

(* Bug to catch: what runs is the approval read before, not the one claimed. *)
ClaimApproval_Stale(r) ==
    LET ticket == frame[r].pending IN
    /\ pc[r] = "decide"
    /\ Approves(r)
    /\ approval[session[r]] # NoTicket
    /\ Goto(r, "loaded")
    /\ approval' = [approval EXCEPT ![session[r]] = NoTicket]
    /\ SetFrame(r, [frame[r] EXCEPT !.approved = ticket, !.pending = NoTicket])
    /\ claimed' = claimed \cup {ticket.by}
    /\ UNCHANGED <<context, session, submitted, executed, shown, refused>>

(* Take-once: read and delete in one transaction of the store. *)
ClaimApproval(r) ==
    LET ticket == approval[session[r]] IN
    /\ pc[r] = "decide"
    /\ Approves(r)
    /\ ticket # NoTicket
    /\ Goto(r, "loaded")
    /\ approval' = [approval EXCEPT ![session[r]] = NoTicket]
    /\ SetFrame(r, [frame[r] EXCEPT !.approved = ticket, !.pending = NoTicket])
    /\ claimed' = claimed \cup {ticket.by}
    /\ UNCHANGED <<context, session, submitted, executed, shown, refused>>

ClaimNothing(r) ==
    /\ pc[r] = "decide"
    /\ Approves(r)
    /\ approval[session[r]] = NoTicket
    /\ Goto(r, "reply")
    /\ SetFrame(r, [frame[r] EXCEPT !.reply = "consumed"])
    /\ UNCHANGED <<storeVars, session, historyVars>>

Undecided(r) ==
    \/ frame[r].pending = NoTicket
    \/ /\ ~IsSqlRejection(frame[r].message)
       /\ ~IsSqlApproval(frame[r].message)

ReadContext(r) ==
    /\ pc[r] = "decide"
    /\ Undecided(r)
    /\ SetFrame(r, [frame[r] EXCEPT !.pending = NoTicket])
    /\ Goto(r, IF ResumesClarification(frame[r].message, context[session[r]])
               THEN "consume" ELSE "loaded")
    /\ UNCHANGED <<storeVars, session, historyVars>>

ConsumeContext(r) ==
    /\ pc[r] = "consume"
    /\ Goto(r, "loaded")
    /\ context' = [context EXCEPT ![session[r]] = NoContext]
    /\ UNCHANGED <<approval, session, frame, historyVars>>

(* Looks at the text only, so a request that has just claimed an approval   *)
(* may end here too.                                                        *)
AnswerFromMemory(r) ==
    /\ pc[r] = "loaded"
    /\ ~UseTools(r)
    /\ frame[r].message.recalls
    /\ Goto(r, "reply")
    /\ SetFrame(r, [frame[r] EXCEPT !.reply = "memory"])
    /\ UNCHANGED <<storeVars, session, historyVars>>

-----------------------------------------------------------------------------
(* The pipeline kernel, agent/graph.py.  The approved run builds its program *)
(* again, from the question; the LLM may make it another program.            *)

PipelineRuns(r) ==
    /\ pc[r] = "loaded"
    /\ ~UseTools(r)
    /\ ~frame[r].message.recalls

Returns(r, res) ==
    /\ Goto(r, "finalize")
    /\ SetFrame(r, [frame[r] EXCEPT !.result = res])
    /\ UNCHANGED <<storeVars, session, submitted, claimed, shown, refused>>

PipelineReviews(r, p) ==
    /\ PipelineRuns(r)
    /\ ~MayExecute(r, p)
    /\ Returns(r, ForReview(p))
    /\ UNCHANGED executed

(* A dry run stops short of Metabase. *)
PipelineExecutes(r, p, status) ==
    /\ PipelineRuns(r)
    /\ MayExecute(r, p)
    /\ Returns(r, Plain(status))
    /\ executed' = IF frame[r].kernel = "dry_run" THEN executed ELSE Executed(r, p)

PipelineAnswers(r, status) ==
    /\ PipelineRuns(r)
    /\ Returns(r, Plain(status))
    /\ UNCHANGED executed

-----------------------------------------------------------------------------
(* The tools kernel, agent/tool_loop.py. *)

ResumesLoop(r) ==
    frame[r].approved # NoTicket /\ frame[r].approved.mode = "tools"

(* A loop that was suspended is resumed by running the SQL of the claimed   *)
(* approval, unless the policy blocks it or its database is unknown.        *)
ToolsResume(r) ==
    /\ pc[r] = "loaded"
    /\ UseTools(r)
    /\ ResumesLoop(r)
    /\ Goto(r, "looping")
    /\ executed' \in {executed, Executed(r, frame[r].approved.program)}
    /\ UNCHANGED <<storeVars, session, frame, submitted, claimed, shown, refused>>

ToolsStart(r) ==
    /\ pc[r] = "loaded"
    /\ UseTools(r)
    /\ ~ResumesLoop(r)
    /\ Goto(r, "looping")
    /\ UNCHANGED <<storeVars, session, frame, historyVars>>

ToolsSuspends(r, p) ==
    /\ pc[r] = "looping"
    /\ Returns(r, ForReview(p))
    /\ UNCHANGED executed

ToolsFinishes(r, status) ==
    /\ pc[r] = "looping"
    /\ Returns(r, Plain(status))
    /\ UNCHANGED executed

-----------------------------------------------------------------------------
(* _finalize_ask, _finalize_tool_outcome *)

TicketOf(r, mode) ==
    [by |-> r, program |-> frame[r].result.program, mode |-> mode]

Kernel(r) == IF UseTools(r) THEN "tools" ELSE "pipeline"

StoreReview(r, mode) ==
    /\ approval' = [approval EXCEPT ![session[r]] = TicketOf(r, mode)]
    /\ submitted' = submitted \cup {r}

(* Bug to catch: a review does not replace the one that is pending. *)
FinalizeApproval_KeepsOld(r) ==
    /\ pc[r] = "finalize"
    /\ ~UseTools(r)
    /\ Goto(r, "context")
    /\ \/ /\ frame[r].result.status = "requires_approval"
          /\ approval[session[r]] = NoTicket
          /\ StoreReview(r, "pipeline")
       \/ /\ \/ frame[r].result.status # "requires_approval"
             \/ approval[session[r]] # NoTicket
          /\ UNCHANGED <<approval, submitted>>
    /\ UNCHANGED <<context, session, frame, claimed, executed, shown, refused>>

(* Bug to catch: an answer that needs no review clears the slot. *)
FinalizeApproval_Clears(r) ==
    /\ pc[r] = "finalize"
    /\ ~UseTools(r)
    /\ Goto(r, "context")
    /\ \/ /\ frame[r].result.status = "requires_approval"
          /\ StoreReview(r, "pipeline")
       \/ /\ frame[r].result.status # "requires_approval"
          /\ approval' = [approval EXCEPT ![session[r]] = NoTicket]
          /\ UNCHANGED submitted
    /\ UNCHANGED <<context, session, frame, claimed, executed, shown, refused>>

FinalizeApproval(r) ==
    /\ pc[r] = "finalize"
    /\ ~UseTools(r)
    /\ Goto(r, "context")
    /\ \/ /\ frame[r].result.status = "requires_approval"
          /\ StoreReview(r, "pipeline")
       \/ /\ frame[r].result.status # "requires_approval"
          /\ UNCHANGED <<approval, submitted>>
    /\ UNCHANGED <<context, session, frame, claimed, executed, shown, refused>>

(* Only a completed query fixes the table context; a database question waits *)
(* for its answer there.                                                     *)
NextContext(r, old) ==
    LET status == frame[r].result.status IN
    CASE status = "requires_clarification" -> "awaiting"
      [] status \in {"table", "database"} -> status
      [] status = "completed" -> NoContext
      [] OTHER -> old

FinalizeContext(r) ==
    /\ pc[r] = "context"
    /\ Goto(r, "reply")
    /\ context' = [context EXCEPT ![session[r]] = NextContext(r, @)]
    /\ UNCHANGED <<approval, session, frame, historyVars>>

(* Bug to catch: a loop that ran out of steps is not finalized. *)
FinalizeTools_NotExhausted(r) ==
    /\ pc[r] = "finalize"
    /\ UseTools(r)
    /\ Goto(r, "reply")
    /\ \/ /\ frame[r].result.status = "requires_approval"
          /\ StoreReview(r, "tools")
       \/ /\ frame[r].result.status = "answered"
          /\ approval' = [approval EXCEPT ![session[r]] = NoTicket]
          /\ UNCHANGED submitted
    /\ UNCHANGED <<context, session, frame, claimed, executed, shown, refused>>

FinalizeTools(r) ==
    /\ pc[r] = "finalize"
    /\ UseTools(r)
    /\ Goto(r, "reply")
    /\ \/ /\ frame[r].result.status = "requires_approval"
          /\ StoreReview(r, "tools")
       \/ /\ frame[r].result.status # "requires_approval"
          /\ approval' = [approval EXCEPT ![session[r]] = NoTicket]
          /\ UNCHANGED submitted
    /\ UNCHANGED <<context, session, frame, claimed, executed, shown, refused>>

-----------------------------------------------------------------------------
(* The end of a request. *)

(* _remember the turn and answer the client: a review is delivered, or the  *)
(* news that the review the handler had found pending has not run.          *)
Respond(r) ==
    /\ pc[r] = "reply"
    /\ Goto(r, "done")
    /\ SetFrame(r, NoFrame)
    /\ shown' = IF /\ frame[r].reply = "answer"
                   /\ frame[r].result.status = "requires_approval"
                THEN [shown EXCEPT ![session[r]] = @ \cup {TicketOf(r, Kernel(r))}]
                ELSE shown
    /\ refused' = IF frame[r].reply = "rejected"
                  THEN refused \cup {frame[r].pending.by}
                  ELSE refused
    /\ UNCHANGED <<storeVars, session, submitted, claimed, executed>>

(* An exception of the kernel or of the store, answered by _failed_ask; the *)
(* kernel may raise after Metabase has accepted the query.                   *)
HandlerFails(r) ==
    /\ pc[r] \in {"loaded", "looping", "finalize", "context", "reply"}
    /\ frame[r].reply = "answer"
    /\ Goto(r, "reply")
    /\ SetFrame(r, [frame[r] EXCEPT !.reply = "failed"])
    /\ UNCHANGED <<storeVars, session, historyVars>>

(* The client of a stream leaves at a yield, an exception escapes the       *)
(* handler, or the worker dies: nothing more of the request happens.        *)
Abandon(r) ==
    /\ pc[r] \notin {"idle", "done"}
    /\ Goto(r, "done")
    /\ SetFrame(r, NoFrame)
    /\ UNCHANGED <<storeVars, session, historyVars>>

(* GET /api/sessions/{id}: a page reload shows the pending SQL again. *)
ViewSession(s) ==
    /\ approval[s] # NoTicket
    /\ shown' = [shown EXCEPT ![s] = @ \cup {approval[s]}]
    /\ UNCHANGED <<storeVars, pc, session, frame, submitted, claimed, executed,
                   refused>>

(* The TTL sweep of the store, row by row. *)
ExpireApproval(s) ==
    /\ SessionTtl
    /\ approval[s] # NoTicket
    /\ approval' = [approval EXCEPT ![s] = NoTicket]
    /\ UNCHANGED <<context, pc, session, frame, historyVars>>

ExpireContext(s) ==
    /\ SessionTtl
    /\ context[s] # NoContext
    /\ context' = [context EXCEPT ![s] = NoContext]
    /\ UNCHANGED <<approval, pc, session, frame, historyVars>>

-----------------------------------------------------------------------------
PrepareStep(r) ==
    \/ ReadPending(r) \/ Reject(r) \/ ClaimApproval(r) \/ ClaimNothing(r)
    \/ ReadContext(r) \/ ConsumeContext(r) \/ AnswerFromMemory(r)

PipelineStep(r) ==
    \/ \E p \in Program :
         \/ PipelineReviews(r, p)
         \/ \E status \in Outcome \cap {"table", "completed", "unfinished"} :
              PipelineExecutes(r, p, status)
    \/ \E status \in Outcome : PipelineAnswers(r, status)

ToolsStep(r) ==
    \/ ToolsResume(r)
    \/ ToolsStart(r)
    \/ \E p \in Program : ToolsSuspends(r, p)
    \/ \E status \in ToolsStatus \ {"requires_approval"} : ToolsFinishes(r, status)

FinishStep(r) ==
    FinalizeApproval(r) \/ FinalizeContext(r) \/ FinalizeTools(r) \/ Respond(r)

(* What the server's own threads do for a request they have accepted. *)
HandlerStep(r) ==
    PrepareStep(r) \/ PipelineStep(r) \/ ToolsStep(r) \/ FinishStep(r)

Next ==
    \/ \E r \in Request :
         \/ \E s \in Session, m \in Message, dry \in DryRun, mode \in AgentMode :
              Send(r, s, m, dry, mode)
         \/ HandlerStep(r)
         \/ HandlerFails(r)
         \/ Abandon(r)
    \/ \E s \in Session : ViewSession(s) \/ ExpireApproval(s) \/ ExpireContext(s)

Spec == Init /\ [][Next]_vars

(* A thread of the server runs every accepted request to its end: the LLM    *)
(* and Metabase clients have timeouts, and SQLite's lock wait is bounded.    *)
(* Clients and the TTL sweep owe nothing.                                    *)
FairSpec == Spec /\ \A r \in Request : WF_vars(HandlerStep(r))

-----------------------------------------------------------------------------
(* What should hold. *)

TypeOK ==
    /\ approval \in [Session -> Ticket \cup {NoTicket}]
    /\ context \in [Session -> Context]
    /\ pc \in [Request -> PC]
    /\ session \in [Request -> Session \cup {NoSession}]
    /\ frame \in [Request -> Frame]
    /\ submitted \subseteq Request
    /\ claimed \subseteq Request
    /\ executed \subseteq Execution
    /\ shown \in [Session -> SUBSET Ticket]
    /\ refused \subseteq Request
    /\ \A r \in Request : pc[r] # "idle" => session[r] \in Session

(* Two concurrent approvals of one review never both send it to Metabase,   *)
(* whichever of them claims it and whatever else the session is doing:      *)
(* _claim_approval's take-once.                                             *)
AtMostOnce ==
    \A e, f \in executed : e.review.by = f.review.by => e = f

(* The query that runs under an approval is the one put up for review, even *)
(* when the approved run builds another program from the question: the      *)
(* fingerprint check of every executing node of the graph.  It holds as     *)
(* long as AGENT_MODE stays what it is (OneMode): the review of a loop that *)
(* was suspended has no fingerprint.                                        *)
OneMode == AgentMode # {"pipeline", "tools"}

ExecutedAsReviewed ==
    \A e \in executed : e.program = e.review.program

(* A review runs only for a later message of its own session, and only for  *)
(* one that approves and does not reject: "do not execute" never executes,  *)
(* and pasted SQL never approves the SQL that was pending before it.        *)
ConsentedExecution ==
    \A e \in executed :
        /\ e.request # e.review.by
        /\ session[e.request] = session[e.review.by]
        /\ e.message.decision # "approve" =>
              /\ e.message.decision = "none"
              /\ e.message.approves /\ ~e.message.rejects /\ ~e.message.sql

(* A prompt to review is never delivered before the approval it asks about  *)
(* has been stored: the answer to it cannot find the slot not yet filled.   *)
ShownWasStored ==
    \A s \in Session : \A ticket \in shown[s] : ticket.by \in submitted

(* A pending review leaves its slot without a successor only by a decision  *)
(* of the user (or by its TTL), never because another question of the       *)
(* session happened to be answered meanwhile.                               *)
Decides(r) ==
    /\ pc[r] = "decide" /\ pc'[r] \in {"reply", "loaded"}
    /\ ~Undecided(r)

ReviewKeptUntilDecided ==
    [][\A s \in Session :
          approval[s] # NoTicket /\ approval'[s] = NoTicket =>
              \/ ExpireApproval(s)
              \/ \E r \in Request : session[r] = s /\ Decides(r)]_vars

(* Every request that the server accepts comes to its end: no handler waits *)
(* for another one.                                                          *)
EveryRequestEnds ==
    \A r \in Request : pc[r] = "prepare" ~> pc[r] = "done"

(* The life cycle of a review, for the abstract contract. *)
ReviewStatus ==
    [v \in Request |->
        IF \E e \in executed : e.review.by = v THEN "executed"
        ELSE IF v \in claimed THEN "claimed"
        ELSE IF \E s \in Session : approval[s] # NoTicket /\ approval[s].by = v
             THEN "pending"
        ELSE IF v \in submitted THEN "dropped" ELSE "unsubmitted"]

Contract == INSTANCE ReviewContract WITH Review <- Request, status <- ReviewStatus

(* The handlers implement the take-once contract: a review leaves the slot   *)
(* once, and what left it by any way but a claim never runs.                 *)
TakeOnce == Contract!Spec

-----------------------------------------------------------------------------
(* What the repository says and the interleavings refute. *)

(* "An approval only ever authorizes the exact query the user reviewed"     *)
(* (agent/sql_review.py): someone who has received reviews and then approves *)
(* runs one of them.                                                         *)
ApprovedWasSeen ==
    \A e \in executed :
        e.seen # {} => \E ticket \in e.seen : ticket.program = e.program

(* "Rejected, the SQL was not run": the client that is told so about the    *)
(* review its request had found pending is told the truth, also later.      *)
RejectedNeverRuns ==
    \A e \in executed : e.review.by \notin refused
=============================================================================

------------------------------ MODULE ToolLoop ------------------------------
(***************************************************************************)
(* The tools-mode kernel of one session: agent/tool_loop.py, driven by     *)
(* _tool_iterator and _finalize_tool_outcome of api/app.py, on top of the  *)
(* completions of LlmClient and the dispatches of AgentTools.  The LLM     *)
(* calls tools round by round; run_sql suspends the loop until a human     *)
(* decides, and the stored conversation is resumed, possibly much later    *)
(* and after other questions, by the approval.                             *)
(*                                                                         *)
(* The LLM is external: it may answer, call any tools in any number, or    *)
(* fail.  Requests of the session are handled one after the other here;    *)
(* AskFlow has their interleavings.                                        *)
(***************************************************************************)
EXTENDS AgentTools, LlmClient

CONSTANTS
    Self,           \* the session
    MaxIterations,  \* max_iterations of the loop
    MaxBatch,       \* bound: tool calls in one reply
    MaxCalls        \* bound: tool calls ever made

ASSUME Bounds ==
    /\ Run = {Self}
    /\ MaxIterations \in Nat \ {0} /\ MaxBatch \in Nat \ {0} /\ MaxCalls \in Nat

(* The arguments of a call are what AgentTools tells apart. *)
CallId == 1 .. MaxCalls
Call == [id : CallId, tool : Tool, args : Name \cup {None}]
Signature(call) == <<call.tool, call.args>>

ASSUME QueriesArePrograms ==
    \A call \in Call, database \in Database : Ran(call, database) \in Program

VARIABLES
    pc,         \* "idle"; "resume", an approval; "complete", the LLM is asked;
                \* "act" on its reply; "dispatch", a tool waits for Metabase
    messages,   \* the conversation the LLM is shown
    batch,      \* calls of the last reply still to be acted on
    round,      \* replies taken by this run of the loop
    seen,       \* seen_calls: signatures of the calls dispatched by this run
    ticket,     \* store: the suspended loop, if any
    calls,      \* calls ever made
    reviewed,   \* history: run_sql calls put up for review
    dispatched  \* history: the calls that this run has dispatched unreviewed

history == <<calls, reviewed>>
vars == <<pc, messages, batch, round, seen, ticket, dispatched, history,
          toolVars, llmVars>>

(* A user message or a text reply; a reply with calls; the answer to a call.  *)
Text == [role |-> "text"]
ToolCalls(reply) == [role |-> "assistant", calls |-> [i \in DOMAIN reply |-> reply[i].id]]
Answer(id) == [role |-> "tool", id |-> id]

Message ==
    {Text} \cup [role : {"assistant"}, calls : Seq(CallId)] \cup [role : {"tool"}, id : CallId]

(* What is stored for the approval: the call of run_sql, the conversation.  *)
Ticket == [call : Call, messages : Seq(Message)]

ASSUME NoneIsNothing == None \notin Request \cup Dispatch(Call) \cup Ticket

Init ==
    /\ pc = "idle"
    /\ messages = <<>>
    /\ batch = <<>>
    /\ round = 0
    /\ seen = {}
    /\ ticket = None
    /\ calls = 0
    /\ reviewed = {}
    /\ dispatched = {}
    /\ ToolsInit
    /\ LlmInit

StartRun(first, conversation, approved) ==
    /\ pc = "idle"
    /\ pc' = first
    /\ messages' = conversation
    /\ batch' = approved
    /\ round' = 0
    /\ seen' = {}
    /\ dispatched' = {}
    /\ UNCHANGED <<history, toolVars, llmVars>>

(* Nothing of the conversation outlives a run but what a ticket keeps. *)
StopRun ==
    /\ pc' = "idle"
    /\ messages' = <<>>
    /\ batch' = <<>>
    /\ UNCHANGED <<round, seen, dispatched>>

(* The end of a run that is not suspended: _finalize_tool_outcome pops the  *)
(* approval of the session.                                                 *)
EndRun == StopRun /\ ticket' = None

-----------------------------------------------------------------------------
(* The requests. *)

Ask == StartRun("complete", <<Text>>, <<>>) /\ UNCHANGED ticket

(* Bug to catch: the approval resumes the loop, and stays. *)
Approve_KeepsTicket ==
    /\ ticket # None
    /\ StartRun("resume", ticket.messages, <<ticket.call>>)
    /\ UNCHANGED ticket

(* The claimed approval resumes the loop, first of all its pending call.    *)
Approve ==
    /\ ticket # None
    /\ StartRun("resume", ticket.messages, <<ticket.call>>)
    /\ ticket' = None

Reject ==
    /\ pc = "idle"
    /\ ticket # None
    /\ ticket' = None
    /\ UNCHANGED <<pc, messages, batch, round, seen, dispatched, history,
                   toolVars, llmVars>>

-----------------------------------------------------------------------------
(* The completions of the loop. *)

(* Bug to catch: the rounds are not counted. *)
AskLlm_Unbounded ==
    /\ pc = "complete"
    /\ Complete
    /\ UNCHANGED <<pc, messages, batch, round, seen, ticket, dispatched, history, toolVars>>

AskLlm ==
    /\ pc = "complete"
    /\ round < MaxIterations
    /\ Complete
    /\ UNCHANGED <<pc, messages, batch, round, seen, ticket, dispatched, history, toolVars>>

LlmTries ==
    /\ RetryTransport \/ FallBack
    /\ UNCHANGED <<pc, messages, batch, round, seen, ticket, dispatched, history, toolVars>>

ReplyText == Completes /\ EndRun /\ UNCHANGED <<history, toolVars>>

(* The calls of a reply: numbered in the order they are made. *)
Replies ==
    UNION {{[i \in 1 .. n |-> [id |-> calls + i, tool |-> made[i][1], args |-> made[i][2]]] :
               made \in [1 .. n -> Offers]} : n \in 1 .. MaxBatch}

ReplyCalls(reply) ==
    /\ Completes
    /\ calls + Len(reply) <= MaxCalls
    /\ pc' = "act"
    /\ messages' = Append(messages, ToolCalls(reply))
    /\ batch' = reply
    /\ round' = round + 1
    /\ calls' = calls + Len(reply)
    /\ UNCHANGED <<seen, ticket, reviewed, dispatched, toolVars>>

(* The loop has used its rounds: "exhausted" is an outcome like a text.     *)
Exhausted ==
    /\ pc = "complete"
    /\ round = MaxIterations
    /\ EndRun
    /\ UNCHANGED <<history, toolVars, llmVars>>

-----------------------------------------------------------------------------
(* The calls of a reply, one after the other. *)

(* The head of the batch is answered; the rest comes next, then the LLM.    *)
Answered ==
    /\ messages' = Append(messages, Answer(Head(batch).id))
    /\ batch' = Tail(batch)
    /\ pc' = IF Tail(batch) = <<>> THEN "complete" ELSE "act"

(* A dispatch has returned, or waits for Metabase. *)
Dispatched ==
    IF tool'[Self] = None THEN Answered
    ELSE pc' = "dispatch" /\ UNCHANGED <<messages, batch>>

DispatchApproved ==
    /\ pc = "resume"
    /\ Dispatches(Self, Head(batch))
    /\ Dispatched
    /\ UNCHANGED <<round, seen, ticket, dispatched, history, llmVars>>

(* Bug to catch: a dispatched call is not noted as seen. *)
DispatchProbe_Unseen ==
    /\ pc = "act"
    /\ Head(batch).tool # "run_sql"
    /\ Signature(Head(batch)) \notin seen
    /\ Dispatches(Self, Head(batch))
    /\ Dispatched
    /\ dispatched' = dispatched \cup {Head(batch)}
    /\ UNCHANGED <<round, seen, ticket, history, llmVars>>

DispatchProbe ==
    /\ pc = "act"
    /\ Head(batch).tool # "run_sql"
    /\ Signature(Head(batch)) \notin seen
    /\ Dispatches(Self, Head(batch))
    /\ Dispatched
    /\ seen' = seen \cup {Signature(Head(batch))}
    /\ dispatched' = dispatched \cup {Head(batch)}
    /\ UNCHANGED <<round, ticket, history, llmVars>>

AwaitTool ==
    /\ pc = "dispatch"
    /\ ToolStep(Self)
    /\ Dispatched
    /\ UNCHANGED <<round, seen, ticket, dispatched, history, llmVars>>

(* An identical call is answered with an error, not dispatched. *)
RefuseRepeat ==
    /\ pc = "act"
    /\ Head(batch).tool # "run_sql"
    /\ Signature(Head(batch)) \in seen
    /\ Answered
    /\ UNCHANGED <<round, seen, ticket, dispatched, history, toolVars, llmVars>>

(* Bug to catch: run_sql is dispatched like any other tool. *)
Suspend_Dispatches ==
    /\ pc = "act"
    /\ Head(batch).tool = "run_sql"
    /\ Dispatches(Self, Head(batch))
    /\ Dispatched
    /\ UNCHANGED <<round, seen, ticket, dispatched, history, llmVars>>

(* Bug to catch: the calls behind run_sql are forgotten. *)
Suspend_Forgets ==
    /\ pc = "act"
    /\ Head(batch).tool = "run_sql"
    /\ ticket' = [call |-> Head(batch), messages |-> messages]
    /\ reviewed' = reviewed \cup {Head(batch)}
    /\ StopRun
    /\ UNCHANGED <<calls, toolVars, llmVars>>

(* The calls behind run_sql are answered "deferred"; run_sql itself stays   *)
(* open.  _finalize_tool_outcome stores the conversation for the approval.  *)
Suspend ==
    /\ pc = "act"
    /\ Head(batch).tool = "run_sql"
    /\ LET deferred == [i \in 1 .. Len(batch) - 1 |-> Answer(batch[i + 1].id)] IN
         ticket' = [call |-> Head(batch), messages |-> messages \o deferred]
    /\ reviewed' = reviewed \cup {Head(batch)}
    /\ StopRun
    /\ UNCHANGED <<calls, toolVars, llmVars>>

(* The LLM or a tool raises, or the process dies: no conversation is kept,  *)
(* and a suspended loop of the session is left as it is.  Metabase may have *)
(* executed what the dispatch was waiting for.                              *)
Interrupt ==
    /\ pc # "idle"
    /\ StopRun
    /\ Returns(Self)
    /\ IF http[Self] = None THEN UNCHANGED executed ELSE MetabaseActs(Self, "lost")
    /\ llm' = NoCompletion
    /\ UNCHANGED <<ticket, history, wire>>

Visit == Ask \/ Approve \/ Reject

(* What the thread that serves a request does. *)
Loop ==
    \/ AskLlm \/ LlmTries \/ ReplyText
    \/ \E reply \in Replies : ReplyCalls(reply)
    \/ DispatchApproved \/ DispatchProbe \/ AwaitTool \/ RefuseRepeat
    \/ Suspend \/ Exhausted \/ Interrupt

Next == Visit \/ Loop

Spec == Init /\ [][Next]_vars

(* The thread keeps going, the requests it waits for having time limits.    *)
FairSpec == Spec /\ WF_vars(Loop)

-----------------------------------------------------------------------------
(* The properties. *)

(* The parts of the state have their types: no run takes more rounds than   *)
(* max_iterations, and a run waits for Metabase just while it dispatches,   *)
(* for the LLM just between two batches.                                    *)
TypeOK ==
    /\ pc \in {"idle", "resume", "complete", "act", "dispatch"}
    /\ messages \in Seq(Message)
    /\ batch \in Seq(Call) /\ Len(batch) <= MaxBatch
    /\ (pc \in {"resume", "act", "dispatch"}) <=> (batch # <<>>)
    /\ round \in 0 .. MaxIterations
    /\ seen \subseteq Tool \X (Name \cup {None})
    /\ ticket \in Ticket \cup {None}
    /\ calls \in 0 .. MaxCalls
    /\ reviewed \subseteq Call
    /\ dispatched \subseteq Call
    /\ ClientTypeOK
    /\ tool \in [Run -> Dispatch(Call) \cup {None}]
    /\ (pc = "dispatch") <=> (tool[Self] # None)
    /\ (tool[Self] # None) <=> (http[Self] # None)
    /\ LlmTypeOK
    /\ Completing => pc = "complete"

(* The messages that follow a reply answer its calls, each exactly once.    *)
AnswersFollow(conversation, i) ==
    LET made == conversation[i].calls
        answers == {j \in i + 1 .. Len(conversation) :
                       /\ j <= i + Len(made)
                       /\ conversation[j].role = "tool"}
    IN  {conversation[j].id : j \in answers} = {made[k] : k \in DOMAIN made}

(* Whenever the LLM is asked to complete a conversation, every call it made *)
(* in it has its answer right behind it, also when the loop was suspended   *)
(* in the middle of a batch and resumed: the API rejects a conversation     *)
(* with an unanswered call (the comment at tool_loop.py:148).               *)
EveryCallAnswered ==
    pc = "complete" =>
        \A i \in DOMAIN messages :
            messages[i].role = "assistant" => AnswersFollow(messages, i)

ExecutedQueries == {executed[Self][i] : i \in DOMAIN executed[Self]}

(* A SQL text runs in Metabase only after a human was shown the very call   *)
(* that has it, wherever in a batch and in whichever round the LLM made it. *)
ReviewedFirst ==
    \A e \in ExecutedQueries : e.call.tool = "run_sql" => e.call \in reviewed

(* Metabase executes the query of a call at most once: through the fallback *)
(* to the older endpoint, failures that leave it open whether a query ran,  *)
(* a resumption that is interrupted, and a session that goes on after it.   *)
QueriedOnce ==
    \A i, j \in DOMAIN executed[Self] :
        executed[Self][i].call = executed[Self][j].call => i = j

(* A query runs in a database whose name contains the one it asks for, and  *)
(* only a SQL text that asks for none runs in the default database.         *)
RunsWhereAsked ==
    \A e \in ExecutedQueries :
        e.database \in IF e.call.args = None THEN {Default} ELSE Within[e.call.args]

(* _resolve_database_id: "silently running the SQL against a different      *)
(* database than the caller asked for is never acceptable".                 *)
SqlRunsInItsDatabase ==
    \A e \in ExecutedQueries :
        e.call.tool = "run_sql" /\ e.call.args # None => e.database = e.call.args

(* One run of the loop never dispatches the same call twice.                *)
DispatchedOnce ==
    \A c, d \in dispatched : Signature(c) = Signature(d) => c = d

(* Every request is served: retries, fallbacks, rounds and batches end.     *)
EveryRunEnds == pc # "idle" ~> pc = "idle"
=============================================================================

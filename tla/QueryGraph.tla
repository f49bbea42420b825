----------------------------- MODULE QueryGraph -----------------------------
(***************************************************************************)
(* The pipeline kernel: the LangGraph of agent/graph.py, with the metadata *)
(* node of agent/metadata_flow.py, run for the questions of one session.   *)
(* Each node is a step, and so is each answer of Metabase within a node.   *)
(*                                                                         *)
(* With AGENT_CHECKPOINT_BACKEND=mongodb the state of a run starts from    *)
(* the last checkpoint of the session, whichever run has written it: what  *)
(* the input and the nodes of a run do not overwrite is of an earlier one, *)
(* or of one that is still under way.  The saver and the LLM are external. *)
(*                                                                         *)
(* A question is what parse_intent and the nodes see in it.                *)
(***************************************************************************)
EXTENDS MetabaseClient

CONSTANTS
    Question,       \* questions asked, see QuestionType
    DryRun,         \* dry_run values
    Sql,            \* the programs that are SQL; the others are structured
    Unsafe,         \* SQL that is not read-only
    Report,         \* the monthly usage report
    Preview,        \* texts that describe a table aggregation as SQL
    Checkpointing   \* AGENT_CHECKPOINT_BACKEND = mongodb

(* "metadata" stands for the intents that only look at databases, tables or *)
(* fields, "metric" for the four that search a metric.                      *)
Intent == {"sql_explanation", "native_sql_query", "bigquery_usage_report_sql",
           "table_aggregation", "metadata", "metric"}

(* rule: what parse_intent makes of it; sql: the SQL it carries; execute: it *)
(* asks for the data of the report, not for its SQL only.                    *)
QuestionType == [rule : Intent, sql : Sql \cup {None}, execute : BOOLEAN]

ASSUME GraphParameters ==
    /\ Question \subseteq QuestionType
    /\ DryRun \subseteq BOOLEAN
    /\ Sql \subseteq Program /\ Unsafe \subseteq Sql
    /\ Report \in Sql \ Unsafe
    /\ Checkpointing \in BOOLEAN

VARIABLES
    node,       \* the node a run is at
    state,      \* its AgentState
    checkpoint, \* the last AgentState saved for the session
    asked,      \* the _PreparedAsk of a run
    pending     \* the slot of the approval that waits for a human

clientVars == <<http, executed>>
vars == <<clientVars, node, state, checkpoint, asked, pending>>

Node == {"parse", "sql_explanation", "native_sql", "bigquery_sql",
         "database_metadata", "search", "inspect", "plan", "build_program",
         "policy", "execute", "answer", "end"}

Status == {"none", "requires_approval", "requires_clarification", "not_found",
           "blocked", "failed", "completed"}

(* What query_result shows for review: the SQL or the structured program, or *)
(* a preview text, which is "not what runs".                                 *)
Shown == Program \cup Preview \cup {None}

(* The channels the nodes read or the caller takes.  previewOnly is the      *)
(* preview_only of query_result.                                             *)
NoState ==
    [sqlApproved |-> FALSE, hash |-> None, intent |-> "metric", entity |-> FALSE,
     program |-> None, allowed |-> FALSE, status |-> "none", shown |-> None,
     previewOnly |-> FALSE]

AgentState ==
    [sqlApproved : BOOLEAN, hash : Program \cup {None}, intent : Intent,
     entity : BOOLEAN, program : Program \cup {None}, allowed : BOOLEAN,
     status : Status, shown : Shown, previewOnly : BOOLEAN]

Review == [question : Question, program : Program \cup {None}, shown : Shown,
           previewOnly : BOOLEAN]
Prepared == [question : Question, dryRun : BOOLEAN, approved : Review \cup {None}]

Init ==
    /\ http = [r \in Run |-> None]
    /\ executed = [r \in Run |-> <<>>]
    /\ node = [r \in Run |-> "idle"]
    /\ state = [r \in Run |-> NoState]
    /\ checkpoint = NoState
    /\ asked = [r \in Run |-> None]
    /\ pending = None

-----------------------------------------------------------------------------
(* Control. *)

At(r, n) == node[r] = n /\ http[r] = None
Asks(r) == asked[r].question

Saved(s) == checkpoint' = IF Checkpointing THEN s ELSE checkpoint

(* A node returns: its updates are merged into the state, which is saved.   *)
Leaves(r, next, s) ==
    /\ node' = [node EXCEPT ![r] = next]
    /\ state' = [state EXCEPT ![r] = s]
    /\ Saved(s)
    /\ http' = [http EXCEPT ![r] = None]
    /\ UNCHANGED <<asked, pending>>

Sends(r, request) ==
    /\ http' = [http EXCEPT ![r] = request]
    /\ UNCHANGED <<node, state, checkpoint, asked, pending>>

(* The metadata answers leave the program of the state alone. *)
Answer(r, status) ==
    [state[r] EXCEPT !.status = status, !.shown = None, !.previewOnly = FALSE]

Result(r, status, p) == [Answer(r, status) EXCEPT !.program = p]

(* The run is over: nothing of it is needed any more but its ledger. *)
Over(r) ==
    /\ node' = [node EXCEPT ![r] = "done"]
    /\ state' = [state EXCEPT ![r] = NoState]
    /\ http' = [http EXCEPT ![r] = None]

(* _failed_ask *)
Raises(r) == Over(r) /\ UNCHANGED <<checkpoint, asked, pending>>

-----------------------------------------------------------------------------
(* The caller. *)

(* Bug to catch: an input key without a value is not passed on. *)
GraphInput_IfSet(s, prepared) ==
    IF prepared.approved = None THEN s
    ELSE [s EXCEPT !.sqlApproved = TRUE, !.hash = prepared.approved.program]

(* _graph_input, merged over the checkpoint. *)
GraphInput(s, prepared) ==
    [s EXCEPT !.sqlApproved = prepared.approved # None,
              !.hash = IF prepared.approved = None THEN None
                       ELSE prepared.approved.program]

Invoke(r, prepared) ==
    /\ node[r] \in {"idle", "done"}
    /\ node' = [node EXCEPT ![r] = "parse"]
    /\ asked' = [asked EXCEPT ![r] = prepared]
    /\ state' = [state EXCEPT ![r] = GraphInput(checkpoint, prepared)]
    /\ Saved(state'[r])
    /\ executed' = [executed EXCEPT ![r] = <<>>]
    /\ UNCHANGED http

Ask(r, question, dry) ==
    /\ Invoke(r, [question |-> question, dryRun |-> dry, approved |-> None])
    /\ UNCHANGED pending

(* The approved run asks the question of the review it has claimed. *)
AskApproved(r, dry) ==
    /\ pending # None
    /\ Invoke(r, [question |-> pending.question, dryRun |-> dry, approved |-> pending])
    /\ pending' = None

(* _finalize_ask: a review is bound to the fingerprint of the program that  *)
(* the state holds.                                                         *)
Finalize(r) ==
    LET s == state[r] IN
    /\ At(r, "end")
    /\ Over(r)
    /\ pending' = IF s.status = "requires_approval"
                  THEN [question |-> Asks(r), program |-> s.program,
                        shown |-> s.shown, previewOnly |-> s.previewOnly]
                  ELSE pending
    /\ UNCHANGED <<executed, checkpoint, asked>>

(* The client of a stream leaves between two nodes, or the worker dies. *)
Abandon(r) ==
    /\ node[r] \notin {"idle", "done"}
    /\ Raises(r)
    /\ UNCHANGED executed

-----------------------------------------------------------------------------
(* parse *)

(* Bug to catch: the LLM has the last word on every intent. *)
ParsedIntents_Any(question) == Intent

SafeOverrides ==
    [rule \in Intent |->
        CASE rule \in {"native_sql_query", "sql_explanation"} ->
                {"native_sql_query", "sql_explanation"}
          [] rule = "bigquery_usage_report_sql" -> {rule, "sql_explanation"}
          [] rule = "table_aggregation" -> {rule, "metadata"}
          [] OTHER -> Intent]

(* What the rules, the LLM if it answers, and the coercion of a metric that *)
(* names a table may make of a question.                                    *)
ParsedIntents(question) == SafeOverrides[question.rule]

RuleIntents(question) ==
    {question.rule} \cup (IF question.rule = "metric" THEN {"table_aggregation"} ELSE {})

Route ==
    [intent \in Intent |->
        CASE intent = "sql_explanation" -> "sql_explanation"
          [] intent = "native_sql_query" -> "native_sql"
          [] intent = "bigquery_usage_report_sql" -> "bigquery_sql"
          [] intent \in {"metadata", "table_aggregation"} -> "database_metadata"
          [] intent = "metric" -> "search"]

Parse(r, intent) ==
    /\ At(r, "parse")
    /\ intent \in IF asked[r].dryRun THEN RuleIntents(Asks(r)) ELSE ParsedIntents(Asks(r))
    /\ Leaves(r, Route[intent], [state[r] EXCEPT !.intent = intent])
    /\ UNCHANGED executed

-----------------------------------------------------------------------------
(* Approval. *)

ApprovedProgramMismatch(s, p) == s.hash # None /\ p # s.hash

(* The run may send p: it is approved, and for this program. *)
Cleared(r, p) == state[r].sqlApproved /\ ~ApprovedProgramMismatch(state[r], p)

(* Bug to catch: a review shows the new query and keeps the old program. *)
UpForReview_KeepsProgram(r, p, text, preview) ==
    [state[r] EXCEPT !.status = "requires_approval",
                     !.shown = text, !.previewOnly = preview,
                     !.program = IF @ = None THEN p ELSE @]

(* _sql_review_response, and the review of execute_node: what is shown goes  *)
(* with the program that the approval will be bound to.                      *)
UpForReview(r, p, text, preview) ==
    [state[r] EXCEPT !.status = "requires_approval",
                     !.shown = text, !.previewOnly = preview, !.program = p]

-----------------------------------------------------------------------------
(* The SQL nodes. *)

SqlExplanation(r) ==
    /\ At(r, "sql_explanation")
    /\ Leaves(r, "end", Result(r, "completed", None))
    /\ UNCHANGED executed

NoSql(r) ==
    /\ At(r, "native_sql")
    /\ Asks(r).sql = None
    /\ Leaves(r, "end", Result(r, "not_found", None))
    /\ UNCHANGED executed

IsReadOnly(p) == p \notin Unsafe

BlockSql(r) ==
    /\ At(r, "native_sql")
    /\ Asks(r).sql # None /\ ~IsReadOnly(Asks(r).sql)
    /\ Leaves(r, "end", Result(r, "blocked", Asks(r).sql))
    /\ UNCHANGED executed

GenerateSql(r) ==
    /\ At(r, "bigquery_sql")
    /\ ~Asks(r).execute
    /\ Leaves(r, "end", Result(r, "completed", Report))
    /\ UNCHANGED executed

SqlToRun(r, p) ==
    \/ /\ At(r, "native_sql")
       /\ p = Asks(r).sql /\ IsReadOnly(p)
    \/ /\ At(r, "bigquery_sql")
       /\ Asks(r).execute /\ p = Report

ReviewSql(r, p) ==
    /\ SqlToRun(r, p)
    /\ ~Cleared(r, p)
    /\ Leaves(r, "end", UpForReview(r, p, p, FALSE))
    /\ UNCHANGED executed

(* The report, too, is run only if it is read-only, which it is. *)
RunSql(r, p) ==
    /\ SqlToRun(r, p)
    /\ Cleared(r, p)
    /\ IsReadOnly(p)
    /\ IF asked[r].dryRun
       THEN Leaves(r, "end", Result(r, "completed", p))
       ELSE Sends(r, Query("dataset", p))
    /\ UNCHANGED executed

SqlAnswered(r, reply) ==
    /\ node[r] \in {"native_sql", "bigquery_sql"}
    /\ Answers(r, reply)
    /\ \/ reply = "ok" /\ Leaves(r, "end", Result(r, "completed", http[r].program))
       \/ reply \in StatusError /\ Leaves(r, "end", Result(r, "failed", http[r].program))
       \/ reply = "lost" /\ Raises(r)

-----------------------------------------------------------------------------
(* run_database_metadata *)

(* Nothing names the database, or no database, table or field has the name. *)
MetadataAnswers == {"completed", "requires_clarification", "not_found"}

(* _table_aggregation, once the fields are known: of what the LLM and the    *)
(* rules found in the question, any structured program may come.  The review *)
(* shows a text rendered from the names in the question and of the fields:   *)
(* it leaves out the database, so that two programs may have the same text,  *)
(* and with or without the schema one program has two.                       *)
ReviewAggregation(r, p) ==
    /\ ~Cleared(r, p)
    /\ \E text \in Preview : Leaves(r, "end", UpForReview(r, p, text, TRUE))

DryAggregation(r, p) ==
    /\ Cleared(r, p)
    /\ asked[r].dryRun
    /\ Leaves(r, "end", Result(r, "completed", p))

SendAggregation(r, p) ==
    /\ Cleared(r, p)
    /\ ~asked[r].dryRun
    /\ Sends(r, Query("query", p))

TableAggregation(r) ==
    \E p \in Program \ Sql :
        ReviewAggregation(r, p) \/ DryAggregation(r, p) \/ SendAggregation(r, p)

EndMetadata(r) ==
    \E status \in MetadataAnswers : Leaves(r, "end", Answer(r, status))

DryMetadata(r) ==
    /\ At(r, "database_metadata")
    /\ asked[r].dryRun
    /\ \/ EndMetadata(r)
       \/ state[r].intent = "table_aggregation" /\ TableAggregation(r)
    /\ UNCHANGED executed

ListDatabases(r) ==
    /\ At(r, "database_metadata")
    /\ ~asked[r].dryRun
    /\ Sends(r, Read("databases"))
    /\ UNCHANGED executed

GotDatabases(r, reply) ==
    /\ Waits(r, "databases")
    /\ Answers(r, reply)
    /\ \/ reply # "ok" /\ Raises(r)
       \/ reply = "ok" /\ EndMetadata(r)
       \/ reply = "ok" /\ \E path \in {"schema", "metadata"} : Sends(r, Read(path))

(* A schema that is not found falls back to the whole database. *)
GotTables(r, reply) ==
    /\ Waits(r, "schema") \/ Waits(r, "metadata")
    /\ Answers(r, reply)
    /\ \/ reply = "ok" /\ (EndMetadata(r) \/ Sends(r, Read("fields")))
       \/ /\ reply = "not_found" /\ http[r].path = "schema"
          /\ Sends(r, Read("metadata"))
       \/ /\ reply # "ok" /\ ~(reply = "not_found" /\ http[r].path = "schema")
          /\ Raises(r)

GotFields(r, reply) ==
    /\ Waits(r, "fields")
    /\ Answers(r, reply)
    /\ \/ reply # "ok" /\ Raises(r)
       \/ reply = "ok" /\ state[r].intent = "metadata" /\ EndMetadata(r)
       \/ /\ reply = "ok" /\ state[r].intent = "table_aggregation"
          /\ Sends(r, Read("agent_table"))

(* Without the agent's own view of the table its field ids are left out. *)
GotAgentTable(r, reply) ==
    /\ Waits(r, "agent_table")
    /\ Answers(r, reply)
    /\ \/ reply \in {"ok", "not_found"} /\ (EndMetadata(r) \/ TableAggregation(r))
       \/ reply \notin {"ok", "not_found"} /\ Raises(r)

(* Bug to catch: the older endpoint is tried after any error. *)
FallsBack_Any(reply) == reply \in StatusError

FallsBack(reply) == reply \in {"bad_request", "not_found"}

(* _execute_aggregation *)
AggregationAnswered(r, reply) ==
    LET p == http[r].program IN
    /\ node[r] = "database_metadata"
    /\ Waits(r, "query")
    /\ Answers(r, reply)
    /\ \/ reply = "ok" /\ Leaves(r, "end", Result(r, "completed", p))
       \/ FallsBack(reply) /\ Sends(r, Query("dataset", p))
       \/ reply # "ok" /\ ~FallsBack(reply) /\ Raises(r)

FallbackAnswered(r, reply) ==
    /\ node[r] = "database_metadata"
    /\ Waits(r, "dataset")
    /\ Answers(r, reply)
    /\ \/ reply = "ok" /\ Leaves(r, "end", Result(r, "completed", http[r].program))
       \/ reply # "ok" /\ Raises(r)

-----------------------------------------------------------------------------
(* The path of a metric: search, inspect, plan, build_program, policy,      *)
(* execute, answer.                                                         *)

Search(r) ==
    /\ At(r, "search")
    /\ IF asked[r].dryRun
       THEN Leaves(r, "inspect", [state[r] EXCEPT !.entity = TRUE])
       ELSE Sends(r, Read("search"))
    /\ UNCHANGED executed

Found(r, reply) ==
    /\ Waits(r, "search")
    /\ Answers(r, reply)
    /\ \/ reply # "ok" /\ Raises(r)
       \/ reply = "ok" /\ \E found \in BOOLEAN :
                             Leaves(r, "inspect", [state[r] EXCEPT !.entity = found])

Inspect(r) ==
    /\ At(r, "inspect")
    /\ IF state[r].entity /\ ~asked[r].dryRun
       THEN Sends(r, Read("entity"))
       ELSE Leaves(r, "plan", state[r])
    /\ UNCHANGED executed

Inspected(r, reply) ==
    /\ Waits(r, "entity")
    /\ Answers(r, reply)
    /\ \/ reply = "ok" /\ Leaves(r, "plan", state[r])
       \/ reply # "ok" /\ Raises(r)

(* The plan asks for clarification just if there is no entity. *)
Plan(r) ==
    /\ At(r, "plan")
    /\ Leaves(r, "build_program", state[r])
    /\ UNCHANGED executed

BuildProgram(r) ==
    /\ At(r, "build_program")
    /\ IF ~state[r].entity THEN Leaves(r, "policy", [state[r] EXCEPT !.program = None])
       ELSE \E p \in Program \ Sql :
               Leaves(r, "policy", [state[r] EXCEPT !.program = p])
    /\ UNCHANGED executed

(* Every program of build_program has a limit and the source the policy wants. *)
Policy(r) ==
    /\ At(r, "policy")
    /\ Leaves(r, "execute", [state[r] EXCEPT !.allowed = (state[r].program \notin Sql \cup {None})])
    /\ UNCHANGED executed

Execute(r) ==
    LET s == state[r] IN
    /\ At(r, "execute")
    /\ \/ ~s.allowed /\ Leaves(r, "answer", Answer(r, "blocked"))
       \/ s.allowed /\ asked[r].dryRun /\ Leaves(r, "answer", Answer(r, "completed"))
       \/ /\ s.allowed /\ ~asked[r].dryRun /\ ~Cleared(r, s.program)
          /\ Leaves(r, "answer", UpForReview(r, s.program, s.program, FALSE))
       \/ /\ s.allowed /\ ~asked[r].dryRun /\ Cleared(r, s.program)
          /\ Sends(r, Query("query", s.program))
    /\ UNCHANGED executed

(* The body of an accepted query has a status of its own. *)
Executed(r, reply) ==
    /\ node[r] = "execute"
    /\ Answers(r, reply)
    /\ \/ reply = "ok" /\ \E status \in {"completed", "failed"} :
                             Leaves(r, "answer", Answer(r, status))
       \/ reply # "ok" /\ Raises(r)

AnswerNode(r) ==
    /\ At(r, "answer")
    /\ Leaves(r, "end", state[r])
    /\ UNCHANGED executed

-----------------------------------------------------------------------------
SqlStep(r) ==
    \/ SqlExplanation(r) \/ NoSql(r) \/ BlockSql(r) \/ GenerateSql(r)
    \/ \E p \in Sql : ReviewSql(r, p) \/ RunSql(r, p)
    \/ \E reply \in HttpReply : SqlAnswered(r, reply)

MetadataStep(r) ==
    \/ DryMetadata(r) \/ ListDatabases(r)
    \/ \E reply \in HttpReply :
         \/ GotDatabases(r, reply) \/ GotTables(r, reply) \/ GotFields(r, reply)
         \/ GotAgentTable(r, reply) \/ AggregationAnswered(r, reply)
         \/ FallbackAnswered(r, reply)

MetricStep(r) ==
    \/ Search(r) \/ Inspect(r) \/ Plan(r) \/ BuildProgram(r) \/ Policy(r)
    \/ Execute(r) \/ AnswerNode(r)
    \/ \E reply \in HttpReply :
         Found(r, reply) \/ Inspected(r, reply) \/ Executed(r, reply)

RetryStep(r) == Retry(r) /\ UNCHANGED <<node, state, checkpoint, asked, pending>>

RunStep(r) ==
    \/ \E intent \in Intent : Parse(r, intent)
    \/ SqlStep(r) \/ MetadataStep(r) \/ MetricStep(r) \/ RetryStep(r)
    \/ Finalize(r)

Next == \E r \in Run :
    \/ \E question \in Question, dry \in DryRun : Ask(r, question, dry)
    \/ \E dry \in DryRun : AskApproved(r, dry)
    \/ RunStep(r)
    \/ Abandon(r)

Spec == Init /\ [][Next]_vars

-----------------------------------------------------------------------------
TypeOK ==
    /\ ClientTypeOK
    /\ node \in [Run -> Node \cup {"idle", "done"}]
    /\ state \in [Run -> AgentState]
    /\ checkpoint \in AgentState
    /\ asked \in [Run -> Prepared \cup {None}]
    /\ pending \in Review \cup {None}

Ran(r) == {executed[r][i] : i \in DOMAIN executed[r]}

(* Metabase runs for a question only the program of the review that the     *)
(* caller of this very run has claimed, although the state it starts from    *)
(* may be of a run that was approved: the approval keys of _graph_input and  *)
(* the fingerprint check of the four nodes that execute.  And SQL it runs    *)
(* only as the review has shown it.                                          *)
ExecutesOnlyTheApproved ==
    \A r \in Run : executed[r] # <<>> =>
        /\ asked[r].approved # None
        /\ ~asked[r].dryRun
        /\ Ran(r) \subseteq {asked[r].approved.program}
        /\ Ran(r) \cap Sql \subseteq {asked[r].approved.shown}

(* One run makes Metabase run its query at most once, whatever is retried   *)
(* and wherever it falls back to: "POSTs are not retried, lest they execute  *)
(* twice" (README.md).                                                       *)
ExecutesOnce == \A r \in Run : Len(executed[r]) <= 1

(* A review that does not say "preview only" shows the very program that its *)
(* approval is bound to, and one that says so is bound to a structured       *)
(* program, never to SQL that nobody has seen: with a checkpoint the state    *)
(* of the run may still hold the program of an earlier question.             *)
ReviewShowsOrWarns ==
    pending # None =>
        /\ pending.program # None
        /\ IF pending.previewOnly THEN pending.program \notin Sql
           ELSE pending.program = pending.shown

(* SQL of a question that the rules take for a SQL question is put up as it  *)
(* is or not at all, and only if it is read-only: the LLM that parses the    *)
(* question does not turn it into another query                              *)
(* (is_safe_rule_intent_override).                                           *)
PastedSqlIsKept ==
    pending # None /\ pending.question.rule \in {"native_sql_query", "sql_explanation"} =>
        /\ pending.shown = pending.question.sql /\ ~pending.previewOnly
        /\ pending.shown \notin Unsafe
=============================================================================

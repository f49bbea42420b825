----------------------------- MODULE AgentTools -----------------------------
(***************************************************************************)
(* The tools that the LLM may call, agent/tools.py: what each dispatch     *)
(* asks of Metabase, request by request, and when it returns.  A failed    *)
(* request is a result like any other, which the LLM is told about.        *)
(*                                                                         *)
(* Which table or field a name matches, whether an argument is valid and   *)
(* a SQL text is read-only are choices; which database is not, since a     *)
(* query must not run in another one than the caller has named.  Dry runs  *)
(* are left out: _use_tools sends them to the pipeline.                    *)
(***************************************************************************)
EXTENDS MetabaseClient

CONSTANTS
    Database,   \* the databases that Metabase may list, lower-case names
    Default,    \* metabase_bigquery_database_id
    Within,     \* the databases whose names contain a name
    Offers      \* bound: which calls the LLM makes, <<tool, database_name>>

Tool == {"list_databases", "list_tables", "list_fields", "run_aggregation",
         "run_sql", "unknown"}
Name == DOMAIN Within

ASSUME DatabaseNames ==
    /\ Default \in Database
    /\ Within \in [Name -> SUBSET Database]
    /\ \A name \in Name \cap Database : name \in Within[name]
    /\ None \notin Name
    /\ Offers \subseteq Tool \X (Name \cup {None})

VARIABLE
    tool    \* the dispatch that a run is waiting for

toolVars == <<http, executed, tool>>

(* schema: whether schema_name is given; database: where the tables are.    *)
Dispatch(Call) == [call : Call, schema : BOOLEAN, database : Database \cup {None}]

ToolsInit ==
    /\ http = [r \in Run |-> None]
    /\ executed = [r \in Run |-> <<>>]
    /\ tool = [r \in Run |-> None]

(* What runs: the query of a call, in a database. *)
Ran(call, database) == [call |-> call, database |-> database]

Sends(r, request) ==
    /\ http' = [http EXCEPT ![r] = request]
    /\ UNCHANGED tool

Returns(r) ==
    /\ http' = [http EXCEPT ![r] = None]
    /\ tool' = [tool EXCEPT ![r] = None]

(* Bug to catch: an unknown name means the default database. *)
FindDatabase_OrDefault(listed, name) ==
    IF name = None THEN {None}
    ELSE IF name \in listed THEN {name}
    ELSE IF Within[name] \cap listed = {} THEN {Default}
    ELSE Within[name] \cap listed

(* The database of that name, or else the first in the list whose name      *)
(* contains it.                                                             *)
FindDatabase(listed, name) ==
    IF name = None THEN {None}
    ELSE IF name \in listed THEN {name}
    ELSE IF Within[name] \cap listed = {} THEN {None}
    ELSE Within[name] \cap listed

-----------------------------------------------------------------------------
(* A dispatch begins: of an unknown tool, an unknown aggregation or a SQL    *)
(* text that is not read-only it returns at once.                            *)
DispatchesAtOnce(call) ==
    /\ call.tool \in {"unknown", "run_aggregation", "run_sql"}
    /\ UNCHANGED toolVars

(* _resolve_database_id without a name: no look at the databases. *)
DispatchesSql(r, call) ==
    /\ call.tool = "run_sql"
    /\ call.args = None
    /\ http' = [http EXCEPT ![r] = Query("dataset", Ran(call, Default))]
    /\ tool' = [tool EXCEPT ![r] = [call |-> call, schema |-> FALSE, database |-> None]]
    /\ UNCHANGED executed

DispatchesLookup(r, call) ==
    /\ call.tool # "unknown"
    /\ call.tool = "run_sql" => call.args # None
    /\ http' = [http EXCEPT ![r] = Read("databases")]
    /\ \E schema \in BOOLEAN :
         /\ schema => call.tool \in {"list_tables", "list_fields", "run_aggregation"}
         /\ tool' = [tool EXCEPT ![r] = [call |-> call, schema |-> schema,
                                         database |-> None]]
    /\ UNCHANGED executed

Dispatches(r, call) ==
    DispatchesAtOnce(call) \/ DispatchesSql(r, call) \/ DispatchesLookup(r, call)

-----------------------------------------------------------------------------
(* The replies of Metabase. *)

GotDatabases(r, reply) ==
    LET call == tool[r].call IN
    /\ Waits(r, "databases")
    /\ Answers(r, reply)
    /\ \/ /\ reply # "ok" \/ call.tool = "list_databases"
          /\ Returns(r)
       \/ /\ reply = "ok" /\ call.tool # "list_databases"
          /\ \E listed \in SUBSET Database : \E found \in FindDatabase(listed, call.args) :
               \/ found = None /\ Returns(r)
               \/ /\ found # None /\ call.tool = "run_sql"
                  /\ Sends(r, Query("dataset", Ran(call, found)))
               \/ /\ found # None /\ call.tool # "run_sql"
                  /\ tool' = [tool EXCEPT ![r].database = found]
                  /\ http' = [http EXCEPT ![r] =
                                Read(IF tool[r].schema THEN "schema" ELSE "metadata")]

(* The tables are there: one of the name is found or not. *)
GotTables(r) ==
    \/ Returns(r)
    \/ tool[r].call.tool # "list_tables" /\ Sends(r, Read("fields"))

(* An unknown schema: all the tables of the database instead. *)
GotSchema(r, reply) ==
    /\ Waits(r, "schema")
    /\ Answers(r, reply)
    /\ \/ reply = "ok" /\ GotTables(r)
       \/ reply = "not_found" /\ Sends(r, Read("metadata"))
       \/ reply \notin {"ok", "not_found"} /\ Returns(r)

GotMetadata(r, reply) ==
    /\ Waits(r, "metadata")
    /\ Answers(r, reply)
    /\ IF reply = "ok" THEN GotTables(r) ELSE Returns(r)

(* An aggregation has its fields and passes the policy, or not. *)
GotFields(r, reply) ==
    /\ Waits(r, "fields")
    /\ Answers(r, reply)
    /\ \/ Returns(r)
       \/ /\ reply = "ok" /\ tool[r].call.tool = "run_aggregation"
          /\ Sends(r, Query("query", Ran(tool[r].call, tool[r].database)))

FallsBack(reply) == reply \in {"bad_request", "not_found"}

(* _execute_aggregation *)
GotResult(r, reply) ==
    /\ Waits(r, "query")
    /\ Answers(r, reply)
    /\ IF FallsBack(reply) THEN Sends(r, Query("dataset", http[r].program))
       ELSE Returns(r)

GotRows(r, reply) ==
    /\ Waits(r, "dataset")
    /\ Answers(r, reply)
    /\ Returns(r)

ToolStep(r) ==
    \/ \E reply \in HttpReply :
         \/ GotDatabases(r, reply) \/ GotSchema(r, reply) \/ GotMetadata(r, reply)
         \/ GotFields(r, reply) \/ GotResult(r, reply) \/ GotRows(r, reply)
    \/ Retry(r) /\ UNCHANGED tool
=============================================================================

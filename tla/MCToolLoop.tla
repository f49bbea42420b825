----------------------------- MODULE MCToolLoop -----------------------------
(* ToolLoop on a Metabase that lists some of three databases, the names of  *)
(* two of which contain "prod".                                             *)
EXTENDS ToolLoop

Databases == {"prod", "prod_eu", "warehouse"}
Containing == [name \in {"prod"} |-> {"prod", "prod_eu"}]

Calls == {"list_databases", "unknown"} \X {None}
         \cup {"list_tables", "list_fields", "run_aggregation", "run_sql"} \X {"prod"}
         \cup {<<"run_sql", None>>}

(* Every query that a call may make. *)
Queried ==
    {Ran(call, database) :
        call \in [id : 1 .. MaxCalls, tool : Tool, args : {"prod", None}],
        database \in Databases}
=============================================================================

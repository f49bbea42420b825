---------------------------- MODULE MCQueryGraph ----------------------------
(* The questions of the small instance of QueryGraph. *)
EXTENDS QueryGraph, TLC

CONSTANTS select, drop, report

About(rule) == [rule |-> rule, sql |-> None, execute |-> FALSE]

Questions ==
    {[About("native_sql_query") EXCEPT !.sql = select],
     [About("native_sql_query") EXCEPT !.sql = drop],
     [About("sql_explanation") EXCEPT !.sql = select],
     [About("bigquery_usage_report_sql") EXCEPT !.execute = TRUE],
     About("table_aggregation"), About("metric")}

Symmetry == Permutations(Program \ Sql) \cup Permutations(Preview)
=============================================================================

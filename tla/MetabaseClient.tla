--------------------------- MODULE MetabaseClient ---------------------------
(***************************************************************************)
(* The HTTP client of Metabase, tools/metabase/client.py: one request of a *)
(* run at a time, GETs tried again on a transient status, POSTs never.     *)
(*                                                                         *)
(* Metabase is external.  It may run a query and yet answer with an error, *)
(* or not at all; a request it refuses (400, 404) it has not run.          *)
(***************************************************************************)
EXTENDS Naturals, Sequences

CONSTANTS
    Run,        \* runs of the query graph that are under way at a time
    Program,    \* query programs, up to program_fingerprint
    None,       \* no request, no program
    MaxRetries  \* max_retries

Reads == {"databases", "schema", "metadata", "fields", "agent_table", "entity"}
Queries == {"query", "dataset"}
Path == Reads \cup Queries \cup {"search"}

ASSUME ClientParameters == MaxRetries \in Nat /\ None \notin Program

(* 2xx; 400; 404; 429, 502, 503, 504; another status; no response. *)
HttpReply == {"ok", "bad_request", "not_found", "transient", "error", "lost"}
StatusError == HttpReply \ {"ok", "lost"}

Request == [path : Path, program : Program \cup {None}, attempt : 0 .. MaxRetries]

VARIABLES
    http,       \* the request a run is waiting for
    executed    \* history: the queries Metabase has executed for a run

Read(path) == [path |-> path, program |-> None, attempt |-> 0]
Query(path, p) == [path |-> path, program |-> p, attempt |-> 0]

Waits(r, path) == http[r] # None /\ http[r].path = path

(* RETRYABLE_METHODS: search is a POST. *)
Retryable(path) == path \in Reads

(* Bug to catch: one retry too many. *)
Retries_OneMore(r, reply) ==
    /\ Retryable(http[r].path)
    /\ reply = "transient"
    /\ http[r].attempt <= MaxRetries

Retries(r, reply) ==
    /\ Retryable(http[r].path)
    /\ reply = "transient"
    /\ http[r].attempt < MaxRetries

(* What Metabase may have done by the time this reply arrives. *)
MetabaseActs(r, reply) ==
    LET ran == [executed EXCEPT ![r] = Append(@, http[r].program)] IN
    CASE http[r].path \notin Queries \/ reply \in {"bad_request", "not_found"} ->
            UNCHANGED executed
      [] http[r].path \in Queries /\ reply = "ok" -> executed' = ran
      [] OTHER -> executed' \in {executed, ran}

(* The reply that request() returns or raises. *)
Answers(r, reply) ==
    /\ http[r] # None
    /\ ~Retries(r, reply)
    /\ MetabaseActs(r, reply)

Retry(r) ==
    /\ http[r] # None
    /\ Retries(r, "transient")
    /\ MetabaseActs(r, "transient")
    /\ http' = [http EXCEPT ![r].attempt = @ + 1]

ClientTypeOK ==
    /\ http \in [Run -> Request \cup {None}]
    /\ executed \in [Run -> Seq(Program)]
=============================================================================

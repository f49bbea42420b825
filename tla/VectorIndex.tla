---------------------------- MODULE VectorIndex ----------------------------
(***************************************************************************)
(* The mirror of the memory records in memory/vector.py, as the process    *)
(* that holds it sees it: an embedding provider, which learns once whether *)
(* its model may be asked for a dimension, and a pgvector table, which is  *)
(* dropped and created anew when it has another dimension than configured. *)
(* MemoryManager makes the calls; the model behind the provider and the    *)
(* table are external.                                                     *)
(***************************************************************************)
CONSTANTS
    Models, \* the kinds of embedding models that are considered
    None    \* no row

(* "mrl": any dimension it is asked for, else its native one, which is not   *)
(* the configured one; "fixed": rejects the parameter, and has the           *)
(* configured dimension; "known_fixed": the same, and known by its name;     *)
(* "openai": as "mrl", through OpenAIEmbeddingProvider.                      *)
Model == {"mrl", "fixed", "known_fixed", "openai"}

ASSUME ModelKinds == Models \subseteq Model

VARIABLES
    model,  \* settings.agent_embedding_model
    asks,   \* _send_dimensions of the provider of the process
    index,  \* pgvector: the row of a key
    fits    \* the table has the configured dimension

indexVars == <<model, asks, index, fits>>

AsksFirst(m) == m # "known_fixed"

IndexInit(keys) ==
    /\ model \in Models
    /\ asks = AsksFirst(model)
    /\ index = [key \in keys |-> None]
    /\ fits = TRUE

-----------------------------------------------------------------------------
(* embed: a request with the dimension if the provider asks for one, and     *)
(* after an HTTP error a second one without.                                 *)

Rejects == model = "fixed" /\ asks

(* _check_dimensions *)
RightLength(asked) == model \in {"fixed", "known_fixed"} \/ asked

Embeds ==
    /\ ~Rejects
    /\ RightLength(asks)
    /\ UNCHANGED indexVars

(* Whatever the status was: a rejection, a rate limit, a server error.       *)
EmbedsAgain ==
    /\ asks
    /\ model # "openai"
    /\ UNCHANGED indexVars

(* The second request has succeeded: the provider never asks again.          *)
StopsAsking ==
    /\ asks' = FALSE
    /\ UNCHANGED <<model, index, fits>>

-----------------------------------------------------------------------------
(* The table. *)

UpsertRow(key, record) ==
    /\ index' = [index EXCEPT ![key] = record]
    /\ UNCHANGED <<model, asks, fits>>

Rows == {key \in DOMAIN index : index[key] # None}
ActiveRows == {key \in Rows : index[key].status = "active"}

(* ensure_schema, after it has looked at the table: found is what it saw.    *)
EnsureSchema(found) ==
    /\ index' = IF found THEN index ELSE [key \in DOMAIN index |-> None]
    /\ fits' = TRUE
    /\ asks' = AsksFirst(model)
    /\ UNCHANGED model

(* The process starts again, perhaps configured for another dimension.       *)
Reconfigure ==
    /\ fits' \in {fits, FALSE}
    /\ asks' = AsksFirst(model)
    /\ UNCHANGED <<model, index>>

IndexTypeOK ==
    /\ model \in Models
    /\ asks \in BOOLEAN
    /\ fits \in BOOLEAN

=============================================================================

----------------------------- MODULE LlmClient -----------------------------
(***************************************************************************)
(* One completion of the tools kernel over the configured wire protocol,   *)
(* semantics/llm_client.py: through the SDK or /responses it is one        *)
(* request, over raw httpx it is repeated after a transport error, and     *)
(* once more with a minimal body after the gateway has rejected the full   *)
(* one.  The gateway and the model behind it are external.                 *)
(***************************************************************************)
EXTENDS Naturals

CONSTANTS
    Wires,              \* the settings of OPENAI_WIRE_API that are considered
    TransportRetries    \* Len(_TRANSPORT_RETRY_BACKOFF)

Wire == {"chat_completions", "chat_completions_httpx", "responses"}

ASSUME LlmParameters == Wires \subseteq Wire /\ TransportRetries \in Nat

(* The body of the request under way: with the optional keys, or minimal.   *)
Body == {"none", "full", "minimal"}

VARIABLES
    wire,   \* settings.openai_wire_api
    llm     \* the request that the completion is waiting for

llmVars == <<wire, llm>>

LlmRequest == [body : Body, attempt : 0 .. TransportRetries]
NoCompletion == [body |-> "none", attempt |-> 0]
Completing == llm.body # "none"

LlmInit == wire \in Wires /\ llm = NoCompletion

(* transport.complete: the first POST *)
Complete ==
    /\ ~Completing
    /\ llm' = [body |-> "full", attempt |-> 0]
    /\ UNCHANGED wire

(* No response was received: the same POST again. *)
RetryTransport ==
    /\ Completing
    /\ wire = "chat_completions_httpx"
    /\ llm.attempt < TransportRetries
    /\ llm' = [llm EXCEPT !.attempt = @ + 1]
    /\ UNCHANGED wire

(* Bug to catch: a rejected minimal body is tried again in full. *)
FallBack_ToAndFro ==
    /\ Completing
    /\ wire = "chat_completions_httpx"
    /\ llm' = [body |-> IF llm.body = "full" THEN "minimal" ELSE "full", attempt |-> 0]
    /\ UNCHANGED wire

(* A 4xx: once more without the optional keys. *)
FallBack ==
    /\ Completing
    /\ wire = "chat_completions_httpx"
    /\ llm.body = "full"
    /\ llm' = [body |-> "minimal", attempt |-> 0]
    /\ UNCHANGED wire

(* A reply, or an exception: any other error, or the retries are used up.   *)
Completes ==
    /\ Completing
    /\ llm' = NoCompletion
    /\ UNCHANGED wire

LlmTypeOK == wire \in Wires /\ llm \in LlmRequest
=============================================================================

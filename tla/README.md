# A verification of metabase-agent

metabase-agent turns a question into a Metabase query, puts the query up for
review, and runs it once a person has approved it. These TLA+ modules model the
parts of it that keep state, TLC checks them on small instances, and TLAPS proves
their safety for instances of any size: of the approval gate, its three stores, both
kernels and the memory. Paths are relative to
`src/src/metabase_agent/`. `PROJECT.json` lists the components, the runs, a mutant
for every property (a plausible bug which the property must catch), the source
lines of every definition, the hazards and the theorems.

## The system

| part | state | operations | works with |
|---|---|---|---|
| request handlers `api/app.py` | none but locals of a request | `/api/ask`, `/api/ask/stream`: `_prepare_ask`, a kernel, `_finalize_ask` or `_finalize_tool_outcome`, `_failed_ask`; session view | the session store, both kernels, memory |
| session store `api/store.py`, and the dicts of `api/app.py` | per session: pending approval, table context, history | get, set, pop, claim, append, purge; backends memory (JSON file), SQLite, MongoDB | handlers of all threads and workers |
| pipeline kernel `agent/graph.py`, `agent/metadata_flow.py` | `AgentState`, checkpointed per session if MongoDB is configured | twelve nodes from parse to answer | LLM, Metabase client |
| Metabase client `tools/metabase/client.py` | a connection | `request` with a bounded retry of GET | Metabase |
| LLM client `semantics/llm_client.py` | none | a completion over one of three wire protocols, with retries and a smaller body | the LLM gateway |
| tools kernel `agent/tool_loop.py`, `agent/tools.py` | the conversation, stored in the approval while it is suspended | rounds of LLM replies, tool calls, suspension at `run_sql`, resumption | LLM, Metabase client |
| long-term memory `memory/` | MongoDB records, their mirror in a vector index, one manager per process | propose, put, update status, load context | handlers, an LLM extractor, embeddings |
| SQL and intents `agent/sql_review.py`, `semantics/`, `query/`, `policy/` | none | parse, plan, build, fingerprint, policy | the graph |
| skills, CLI, settings, web page | none that changes | | |

Three kinds of behaviour are hard here. *Concurrency*: FastAPI runs the handlers in
threads, several workers may share a database, and each store call is atomic while
the handler that makes three of them is not. *Failure*: a client leaves a stream in
the middle, a process dies, Metabase answers with an error after it has run the
query, a database lock times out, an index is not reached. *Long protocols*:
question, clarification, review, rejection, a new question over a pending review, an
approval after a restart.

What makes each part correct:

- **Handlers**: a review runs at most once, only as it was put up (unless `AGENT_MODE`
  is switched while it waits), only by an
  approving message of its own session; it is stored before it is shown and kept
  until it is decided; every request ends.
- **Stores**: a claim takes an approval once among all threads and workers; what has
  returned is durable, as long as the file can be read; a sweep deletes only what has
  expired; no message is lost.
- **Pipeline**: whatever the checkpoint holds, a run sends only the program its
  caller has claimed, once; a review shows the program it is bound to, or says that it
  shows a preview of it; SQL in a question that the rules take for a SQL question is not
  rewritten.
- **Tools loop**: SQL never runs before its review, once, and in a database of the
  name it gives; every tool call of a stored conversation is answered, identical calls
  run once, and every run ends.
- **Memory**: a rule goes live only by a person, a proposal neither overwrites nor
  demotes it; what was deleted is not replayed, although the index may lag; the index
  follows what was synced.

## The modules

| module | what it is | state and actions ↔ code |
|---|---|---|
| `ReviewContract` | the promise: a review is submitted, claimed or dropped once, and run at most once, after the claim | an abstraction of the approval slot; nothing of the code but its intent ("take-once") |
| `AskFlow` | the handlers of concurrent requests over the approval and context slots | `pc[r]` is the place in `_prepare_ask` … `_remember`; each action is one store call or one kernel outcome; `frame[r]` holds the locals of the handler, and which kernel its worker's `AGENT_MODE` and its `dry_run` choose |
| `AskFlowProofs`, `AskFlowRefinement` | theorems about `AskFlow`: its safety; it implements `ReviewContract` | |
| `JsonStateStore` | the memory backend: dicts, `_STATE_LOCK`, JSON file | a save opens, iterates and closes each dict in steps, since others assign to the dicts outside the lock; it may raise while it serializes (`DumpRaises`) or writes (`WriteRaises`); the one read may fail silently (`LoadFails`) |
| `JsonStateStoreProofs` | theorems about `JsonStateStore` | |
| `SessionStore` | the SQLite and the MongoDB backend, of several workers | for SQLite `BEGIN IMMEDIATE`, `SELECT`, `COMMIT` are steps; for MongoDB an operation is one step on a document; the time of a row is read before the database is waited for (`Stamp`); the sweep is booked (`MarkPurge`) before it is done, table by table (`Sweep`, `SweepApprovals`) |
| `SessionStoreProofs` | theorems about `SessionStore`, among them that it implements `ReviewContract` | |
| `MetabaseClient` | one HTTP request per run, its retries, and what Metabase may have done by the time it answers | `http[r]` is the request a run waits for |
| `QueryGraph` (extends `MetabaseClient`) | the pipeline kernel with its checkpoint | `node[r]`, `state[r]`; one action per node, branch and answer of Metabase; a review (`UpForReview`) has the program it is bound to, what it shows, and `previewOnly` |
| `QueryGraphProofs` | theorems about `QueryGraph` with its client | |
| `AgentTools` (extends `MetabaseClient`) | `agent/tools.py`: what each tool asks of Metabase | `tool[r]` is the dispatch a run waits for; one action per reply (`GotDatabases`, `GotSchema`, `GotFields`, ...); `FindDatabase` is `_find_database` |
| `LlmClient` | one completion of `semantics/llm_client.py` | `llm` is the request under way: its body (full or minimal) and its attempt |
| `ToolLoop` (extends `AgentTools`, `LlmClient`) | the tools kernel of one session over many asks and approvals | `messages`, `batch`, `round`, `seen` are the locals of `iter_tool_loop`; `ticket` is the suspended loop in the store; `pc` tells which of the two clients it waits for |
| `ToolLoopProofs` | theorems about `ToolLoop` with its tools and its transport | |
| `VectorIndex` | the embedding provider and the pgvector table of `memory/vector.py` | `asks` is `_send_dimensions`; `index` the rows; `fits` whether the table has the configured dimension |
| `MemoryManager` (extends `VectorIndex`) | the records, their mirror, and the cache of the manager | `get`, `put`, the embedding with its second try, the sync and the three steps of `load_context` are steps of their own, as are the look-up, the schema check and the DDL of a new manager |
| `MemoryManagerProofs` | theorems about `MemoryManager` with its index | |
| `MC*` | the values of the constants for TLC | |

`AskFlow` takes the kernels as the set of their outcomes and the store as atomic.
That is justified by the others: the stores are shown to be atomic where it
matters (`SessionStore` implements, with either backend, the same `ReviewContract` as `AskFlow`;
in `JsonStateStore` an approval is claimed once and a claim is final), and `QueryGraph` and `ToolLoop` show
from the inside what `AskFlow` assumes of its kernels: that the pipeline sends only
the claimed program and only once, and that the loop suspends before `run_sql`.

What stands for data: a program is a model value, equal up to `program_fingerprint`;
a message is the traits that the handlers look at (does it carry SQL, an approving,
rejecting or recalling phrase, a database name); a question in `QueryGraph` is its
rule intent, its SQL and whether it asks for data; contents of memories are model
values. The LLM, MongoDB, SQLite, the vector index and Metabase are external: a
nondeterministic choice over what the code lets them return.

Variables named as history in the modules (`submitted`, `claimed`, `executed`,
`shown`, `refused`, `log`, `live`, …) are not in the code. They record what the
properties speak about and no guard reads them, but for two: `shown` fills the
history field `seen` of a frame, and `MarkPurge`'s time is kept in `call`; `seen` in a `put` of `MemoryManager` is history too.

## What the runs show

Seven runs pass and five show a disagreement.

| run | bounds | result |
|---|---|---|
| `ask_pipeline` | one session, three requests by button, two programs, TTL sweeps, kernels that stop for a review or for a missing table | review stored before shown, kept until decided, claimed once, executed once and as reviewed; the handlers implement `ReviewContract` |
| `ask_mixed` | two sessions, two requests, the kinds of message that differ, both kernels and dry runs, `AGENT_MODE` switched at any time, fairness | nothing runs without consent; every request ends |
| `json_store` | two threads, two sessions, two values, two crashes, reads and writes of the file that fail | claims are final and take once; what has settled is on disk, unless its file could not be read; at rest the file equals the dicts, also after saves that raised while they serialized, unless the last read or write has failed |
| `session_store` | two workers, either backend, three values, three instants, TTL 1 | both backends implement `ReviewContract`; no fresh row is swept; no message is lost; the trim is exact |
| `tool_loop` | two rounds per run, batches of two, three calls, seven kinds of call; three databases, two of which have the asked name in theirs; one retry of a GET, three of the LLM; fairness | every call answered; SQL runs reviewed, once and where its name allows; no repeated dispatch; rounds bounded; every run ends |
| `query_graph` | six kinds of question, one run at a time on any checkpoint, two structured programs, two preview texts, both dry_run | only the claimed program, once; a review shows its program or says that it shows a preview; SQL of a SQL question is kept |
| `memory` | two requests, one rule with two contents, one fact, four kinds of embedding model, restarts with another dimension | a rule is active only if a person activated it, and is kept against the proposals that have seen it; only live memories are loaded; the index mirrors what was synced |
| `ask_unseen` | as `ask_pipeline` | an approval may run a review that its sender was never shown (`api/app.py:469`) |
| `ask_switched` | two requests, two programs, workers of both modes | an approved loop is executed by the pipeline as a program nobody has reviewed: its approval has no fingerprint (`api/app.py:749`) |
| `ask_rejected_ran` | as `ask_pipeline` | "rejected, not run" is told about a query that a concurrent approval then runs (`api/app.py:455`) |
| `memory_refreshed` | one request at a time, one rule, two contents | a proposal made again demotes the record of it that a person has activated (`memory/manager.py:234`) |
| `tool_database` | one call | SQL that names an unlisted database runs in another whose name contains it (`agent/metadata.py:26`) |

**Why the bounds are enough.** The hazards of the handlers need one request that
stores a review and two that compete for it, so three requests; a second program
tells a rebuilt program from the reviewed one. Two sessions matter to consent alone,
which needs only a review and a message. In the stores every conflict is between two
writers, each with a value; a second crash ends the process that has started without
the file; the SQLite file starts with one message so that a third append must trim. In the loop, two calls per reply
give a call before and one behind `run_sql`, and the third is made after a
resumption or in a second round. The tools are told apart by the requests they make;
`"prod"` may be listed itself, be contained in another name, or neither. `MaxRetries = 2`, the default of the
client, is taken in `query_graph`, and 1 in `tool_loop`. `query_graph` has one run slot: two
runs of a session share only the checkpoint and the approval slot, and whatever a
concurrent run may leave there in the middle is also left by a run that was abandoned
(`Abandon`) at that point; a claim between two nodes of another run is not in this
instance, but the theorems of `QueryGraphProofs` hold for any number of runs at a time.
A run that ended gives its slot back, so runs are
unbounded in number. `memory` explores the product of its parts only where they
meet (`Bound` in `MCMemoryManager`): rules and facts share no record and no row, so
states that hold both are cut, as are loads while one rule has two contents; the
embedding model matters to facts alone. Two requests are what every race here needs;
who acts against the record of a key in between is the other one or a restart.

In tools mode TLC checks the gate with two requests (`ask_mixed`) and the kernel in
full (`tool_loop`); that a review runs once and as it was put up, with any number of
requests, is proved for both modes, the latter if the mode is not switched.

Deadlock is checked everywhere except for `AskFlow`, where all requests may have been
handled.

**Fairness.** `ask_mixed` and `tool_loop` assume some. In `AskFlow`, `FairSpec` has
weak fairness of `HandlerStep(r)`, the server's own steps for an accepted request; in
`ToolLoop`, of `Loop`, what the thread that serves a request does, failing included. A
server thread is scheduled, and what it waits for is bounded: the LLM and Metabase
clients have timeouts, and SQLite's lock wait has a busy timeout. Clients and TTL
sweeps are not assumed to do anything, nor is an abandoned stream. That a run of
`ToolLoop` ends (`EveryRunEnds`) is what `AskFlow` assumes when it takes a kernel's
run as one step. `MaxCalls` bounds the calls of all runs together, so it is `TypeOK`
that shows the bound on the rounds, and `EveryRunEnds` that nothing within a round
goes on for ever.

**What the code's comments say and the interleavings refute**, beside the five runs
above, is described with the hazards in `PROJECT.json`, since the models contain the
steps but no property about them holds: a second reply to a database question resumes
the request once more (`api/app.py:485`); an expired row is served while its sweep is
booked and not done (`api/store.py:211`); a person activates a rule whose content was
replaced since they read it (`memory/manager.py:191`); an embedding model is no longer
asked for its dimension after one transient error (`memory/vector.py:95`); the rows that
one request has written into a recreated table are dropped by another that builds its
manager at the same time (`memory/vector.py:225`, which `IndexMirrors` exempts, as it does
syncs that fail or overlap); a tools-mode answer drops the review of another request
(`api/app.py:812`). The get and the put of a
refresh are two steps as well: with two requests `RefreshKeepsStatus` is also violated
by a status that is set in between (`memory/manager.py:207`).

## What is proved

Every safety invariant and action property that a passing run checks is also a theorem,
for all values of the constants that satisfy the assumptions of its module. Each proof
has the same shape: an inductive invariant `Inv`, which TLC has checked on the instance
of the run before it was proved, one lemma per action (or per kind of action) that the
action keeps it, and the theorems as its consequences.

### The gate: `AskFlowProofs`, `AskFlowRefinement`

For every set of sessions, requests, programs and messages, workers of either mode or
of both, with and without a TTL; the assumptions are those of `Constants` in `AskFlow` (the markers for
"nothing" are no values, messages are records of traits) and no others. No set has
to be finite.

- `TypeCorrect`: the type invariant.
- `ExecutesAtMostOnce`, `ExecutesOnlyTheReviewed`, `ExecutesOnlyByConsent`: the
  three safety invariants of the gate.
  `ExecutesOnlyTheReviewed` assumes `OneMode`, that `AGENT_MODE` is never switched; the
  run `ask_switched` shows that it must.
- `ShowsOnlyTheStored`: no client is shown a review before its approval is stored.
- `KeepsReviewUntilDecided`: a pending review is not lost to another question of its
  session. It assumes that no worker runs the tools kernel (`"tools" \notin AgentMode`),
  as the run that checks the property does: an answer of the tools kernel pops the slot
  whatever it holds (`_finalize_tool_outcome`, `api/app.py:812`), so the property is
  false there.
- `HandlersTakeOnce`: `AskFlow` implements `ReviewContract`.

None of the three is inductive: a state in which two handlers hold one review, and
none has run it yet, satisfies them all and violates the first two steps later. The
strengthening `Inv` says where a review may be. It waits in the slot of its own
session, unclaimed (`SlotInv`); its handler has stored it once and is past that point
(`SubmittedInv`); a handler that holds it has claimed it by an approving message of
that session (`HeldInv`), no other holds it (`HeldOnceInv`), and once it has run, who
holds it is past running (`SpentInv`). `RejectedInv` keeps the type of the rejection
reply. The proof sorts the steps of `Next` by what they do to a review into four
kinds (quiet steps, stores, claims, runs), shows that each kind keeps the invariant,
and shows for each action which kind it is (`NextKind`). `AskFlowRefinement` uses the
same kinds: a quiet step is a stutter or a drop, a store a submission or a
supersession, a claim a claim, a run an execution. `ShownWasStored` needs one thing
more: a handler that is about to answer with a review is one that has stored it
(`DeliveryInv`), since a store that fails turns the answer into an error.

### The stores: `SessionStoreProofs`, `JsonStateStoreProofs`

`SessionStore`, for any workers, threads, sessions, numbers of values, limits, times and
both backends. Assumed are `Parameters` and that `None` is neither a row nor a history
(`NoneIsNoRow`: a SELECT that has found nothing differs from one that has).

- `StoreTypeCorrect`: the type invariant.
- `StoreKeepsHistory`: a history is always the end of all that was appended to it.
- `StoreSparesTheFresh`: a sweep deletes only what is expired when it is deleted.
- `StoreTakesOnce`: the store implements `ReviewContract`.

`HistoryIsRecent` and `TakeOnce` depend on what a transaction has read. Who is past
`BEGIN IMMEDIATE` is the writer, and the row it has read is the row (`LockInv`); a sweep
compares with a time that is not in the future, and a row is stamped with a time of the
clock (`SweepInv`). A value is carried by one
call until it is stored (`ValueInv`), and a stored approval is in the slot of one
session, claimed once, or gone (`SlotInv`). That the trim commutes with an append
(`Last(Append(Last(m, n), v), n) = Last(Append(m, v), n)`) is the lemma `LastOfAppend`.
The refinement showed that `ReviewContract` was too narrow: a sweep deletes the expired
approvals of all sessions in one statement, so with two sessions a step may drop two
reviews. `Drop` of the contract therefore drops a set of reviews. The run
`session_store`, whose instance has one session, could not tell.

`JsonStateStore`, for any threads, sessions, values and restarts. Assumed are `Bounds`
and that `None` is no thread (`NoneIsNobody`); the sessions may be infinitely many, as
the dicts hold finitely many of them (`FiniteInv`), which is what gives them a size.

- `JsonTypeCorrect`: the type invariant.
- `ClaimsAreOnce`, `ClaimsAreFinal`: an approval is returned by one claim only, and is
  gone from then on, from the dict and from the file.
- `SettledSurvives`: what an operation that returned has left in its cell is in the file
  until the next operation on the cell, through crashes and failed saves of any thread.
- `QuiescenceSurvives`: at rest the file is what the dicts are, unless the last read or
  write of the file has failed.

Two histories say what a failing file takes away. `_load_state` swallows an `OSError`
after it has set `STATE_LOADED`; the process goes on with empty dicts, and its next save
writes them over the file: what the file held is lost (`LoadFails`; the cells are
`unread` until the next operation on them, and `SettledIsDurable` exempts these alone).
A write that raises leaves the dict changed, the file old and nobody to save for it
(`WriteRaises`; `unsaved` until a write succeeds, and `QuiescentIsDurable` is about the
other times). What has returned is kept all the same after a failed write: the file
stays as it was, and the next save writes everything. A claim whose save raises has not
returned its approval, which is still in the file, and the successor of the process may
claim it.

The last theorem is the subtle one, as an operation may raise in the middle of its save. The
invariant follows a save from the lock to the file: what the holder of the lock has
read is what the dicts are, except in cells that a thread has assigned to that waits
for the lock (`SnapshotInv`), and a dict whose size has changed since its iteration
began was changed by such a thread (`SizeInv`). So whoever raises there leaves somebody
behind who saves for it, and a free lock with nobody waiting means that the file is up
to date, or that reading or writing it has failed (`SavedInv`). For the claims: a value has one cell wherever it is held, in the
dicts, the file, a copy or a set under way (`HomeInv`), so that what a claim has removed
is in no copy made after it (`TakenInv`, `OnceInv`), and a value about to be assigned is
nowhere yet (`FreshInv`).

### The loop: `ToolLoopProofs`

For one session, any names and databases, any offers of the LLM, any wire protocols, and
any values of the bounds (`MaxIterations`, `MaxBatch`, `MaxCalls`, both numbers of
retries). Assumed are the constants' own properties (`DatabaseNames`,
`ClientParameters`, `LlmParameters`, `Bounds`), that what a call runs in a database is a
program of the client (`QueriesArePrograms`), and that `None` is none of the records it
stands beside (`NoneIsNothing`); TLC evaluates them all.

- `LoopTypeCorrect`: the type invariant, with the correspondence of `pc`, the batch, the
  dispatch and the request in flight.
- `RunsOnlyReviewed`, `QueriesRunOnce`, `QueriesRunInTheirTarget`: what Metabase has
  executed, it executed after a review if it is SQL of the LLM, once per call, and in a
  database that the call's name was resolved to.
- `DispatchesAreDistinct`: `seen_calls` does its work.
- `LlmSeesEveryAnswer`: each conversation that the LLM is asked to complete answers all
  its tool calls, else the API rejects it and the session is stuck.

`QueriedOnce` is not inductive: a call that has run and is still in the batch, or in the
ticket, would run again. So `Inv` says where a call may be that has been made and has not
run: in the batch or in the ticket, never in both, never twice, under an id below the
counter that no executed query has (`FreshInv`). What is in flight is the query of the
head of the batch, in a database that fits its name (`WaitInv`); a head that is a
`run_sql` and is being dispatched has been reviewed, and so has the ticket (`ReviewInv`).
The reads before the query, and their retries, execute nothing (`ReadsExecuteNothing`);
the fallback to the older endpoint follows only a refusal, which executes nothing
(`GotResultStep`). Hence every step of a dispatch either waits on (`GoesOn`), with nothing
executed, or is back (`IsBack`), with at most the query in flight executed
(`ToolSteps`), and the step that is back takes the call off the batch
(`AnsweredKeepsFresh`), an interruption the whole batch.

`EveryCallAnswered` speaks of the moment of a completion, and its invariant
(`ConversationInv`) of all others: of every reply in the conversation either all calls
are answered behind it, or what is missing is exactly what is still open, the rest of
the batch, and in a stored conversation the one call of its ticket. Suspending a batch
answers the calls behind `run_sql` as deferred, so that only its own is missing;
approving answers that one.

### The pipeline: `QueryGraphProofs`

For any number of runs of a session, which may interleave at every node and share the
checkpoint, any questions, programs and classifications. Assumed are `GraphParameters`
and `ClientParameters`.

- `GraphTypeCorrect`: the type invariant.
- `GraphExecutesOnlyTheApproved`, `GraphExecutesOnce`: Metabase executes only the program
  of the claimed review, SQL only as that review has shown it, at most once, and nothing
  in a dry run.
- `GraphReviewShowsOrWarns`: a review shows the program it is bound to, or says that it
  shows a preview and is bound to a structured program.
- `GraphKeepsPastedSql`: SQL of a question that the rules take for a SQL question is
  reviewed as it was pasted, and only if read-only.

What a reviewer sees of a table aggregation is a SQL text that `_table_sql_preview`
renders from the names in the question, marked `preview_only`; what the approval is bound
to, and what runs, is the structured program. That the two mean the same is not a
property of these models: the text is any member of `Preview`, and one text may stand for
two programs (it leaves out the database). The models show that the mark is never
missing, and that under a mark no SQL is bound. Pasted SQL that the rules take for the
usage report (`semantics/intent_parser.py:52`) is replaced by the report; that question is
not one of `PastedSqlIsKept`.

The state of a run starts from the checkpoint, so the invariant must not depend on
anything but what this run has written: the approval keys of the state are those of the
review this run has claimed (`BoundInv`), and no other key of an earlier run matters.
Requests wait only at the nodes that make them, and one that executes carries the
approved program (`WaitInv`); after it the run is at its end (`RanInv`), so it runs once.
Pasted SQL stays on its own nodes (`RouteInv`), and what a run ends with under
"requires_approval" is what the slot will show (`EndInv`, `PendingInv`). Each step of
`Next` is a node that returns, a request that goes out, or a run that raises; the lemmas
follow these three kinds.

### Memory: `MemoryManagerProofs`

For any requests, keys, contents and embedding models, with restarts and DDL at any
time. Assumed are `Parameters` and `ModelKinds`.

- `MemoryTypeCorrect`: the type invariant.
- `RulesNeedAHuman`: a rule is active only if a person has activated its key.
- `KeepsTheRulesItSees`: a proposal that has seen an active rule leaves it as it was.
- `LoadsOnlyTheLive`: a load returns nothing that was inactive all the while.
- `MirrorsTheSettled`: the index has a fact as the record has it, unless its last sync
  failed, overlapped another or was dropped with the table.

The invariant gives each pending call what it may still do. What the LLM is about to
put is an active rule only if its key was activated by a person, and under the key of an
active rule it is that rule (`PutInv`); a load knows all that is active (`LoadInv`). The
mirror is the part where two requests meet: a key that is not stale has at most one
writer, and that writer is about to mirror the very record that is stored (`MirrorInv`);
without "at most one" the older of two syncs could land last.

### Left to TLC

Liveness (`EveryRequestEnds`, `EveryRunEnds`), which the prover cannot do, as it has no
rules for fairness and `ENABLED`. The five disagreements are counterexamples, which TLC
finds and nothing has to prove. No module declares a
recursive operator.

## What is not modelled

The conversation file of the memory backend, saved like the state file; the temporary
file that a failed write leaves. Between the time that `append_message` of SQLite takes
for its row, in the middle of its transaction, and the COMMIT the clock stands still. The
answer of the report node to a report that is not read-only (`agent/graph.py:151`), which
`GraphParameters` excludes. The JSON
completions of the LLM client, which `QueryGraph` has as what they may return. What a
phrase, a name or a SQL text is recognised as: the parsers, the lexer behind the
read-only policy, matching of tables and fields, the report template. Wording, traces,
suggestions, extraction prompts, the embeddings themselves and the ranking by them;
the hash and in-memory stand-ins of the vector index. Dry runs of the agent tools,
which only tests make. Skills, CLI, settings, the web page, the token check.

## Plan

Done, in this order: `ReviewContract` and `AskFlow` with its proofs, because the gate
is what the program is for; the stores it rests on, MongoDB's with SQLite's; the
Metabase client and the graph; the loop with its tools and its transport; memory with
its index.

Next, to model:

1. Two concurrent runs in `QueryGraph`; `AskFlow`'s pipeline outcomes as a refinement
   of it.
2. The conversation file.

Next, to prove:

1. That `JsonStateStore` implements the claim of `AskFlow` as well: a contract in which
   one save may claim one approval and drop those that it has overwritten.
2. That the outcomes which `AskFlow` lets the pipeline have are those that a run of
   `QueryGraph` ends with.
3. The retries of the two clients as lemmas of their own, with the bounds that
   `EveryRunEnds` rests on.

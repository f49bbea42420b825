--------------------------- MODULE MemoryManager ---------------------------
(***************************************************************************)
(* The long-term memory of one user, memory/manager.py: records in MongoDB *)
(* that interactions propose and humans manage, mirrored into the vector   *)
(* index by one process.  Every call on MongoDB, on the embedding model or  *)
(* on the index is a step of its own; nothing serializes the requests that  *)
(* make them, nor those that build the manager, _memory_manager of          *)
(* api/app.py.                                                             *)
(*                                                                         *)
(* MongoDB is external: one atomic read or replacement of a document at a  *)
(* time.  Confidence, value and metadata are left out.                     *)
(***************************************************************************)
EXTENDS VectorIndex

CONSTANTS
    Actor,      \* requests in progress
    RuleKey,    \* keys of procedural records
    FactKey,    \* keys of semantic and episodic records
    RuleText,   \* contents of procedural records
    FactText,   \* contents of the others
    Ops         \* bound: which requests are made

Op == {"propose", "put", "update", "load"}

(* None is no record, and marks a key that is not a conflict key.           *)
Text == RuleText \cup FactText

ASSUME Parameters == None \notin Text /\ Ops \subseteq Op

(* "deleted" stands for superseded too: neither is read into a context.     *)
MemoryStatus == {"active", "pending_review", "deleted"}

(* A key, or the key under which a conflicting proposal is filed:           *)
(* "{key}.conflict.{hash of its content}".                                  *)
Key == ((RuleKey \cup FactKey) \X {None}) \cup (RuleKey \X RuleText)
IsRule(key) == key[1] \in RuleKey
Contents(key) == IF IsRule(key) THEN RuleText ELSE FactText

MemoryRecord == [content : Text, status : MemoryStatus]

VARIABLES
    repository, \* MongoDB: the record of a key
    cached,     \* _MEMORY_MANAGER_CACHE holds the manager
    call,       \* what each request is doing
    stale,      \* history: keys whose last write was not synced, or overlapped
                \* another, or whose row was dropped with the table
    activated   \* history: keys whose record a human has made active

vars == <<repository, cached, call, stale, activated, indexVars>>

(* by: who proposes, "llm" for the extractor and the rules in code; key,     *)
(* content, status: the candidate, or the status a human sets; record: what  *)
(* is written; seen: history, what the upsert has read under its own key;    *)
(* use: what the embedding is for; found: what a search has found so far;    *)
(* live: history, the keys found active since it began.                      *)
Idle == [pc |-> "idle"]
Write == [key : Key, record : MemoryRecord]
Load == [found : SUBSET Key, live : SUBSET Key]
Call ==
    [pc : {"idle", "look"}]
    \cup [pc : {"ddl"}, found : BOOLEAN]
    \cup [pc : {"get"}, by : {"llm", "human"},
          key : Key, content : Text, status : MemoryStatus]
    \cup [pc : {"get_by_id"}, key : Key, status : MemoryStatus]
    \cup [pc : {"put"}, by : {"llm", "human"}, seen : MemoryRecord \cup {None},
          key : Key, record : MemoryRecord]
    \cup [pc : {"embed", "embed_bare", "sync"}, write : Write]
    \cup [pc : {"embed", "embed_bare", "search", "get_many", "loaded"}, load : Load]

Init ==
    /\ IndexInit(Key)
    /\ repository = [key \in Key |-> None]
    /\ cached = FALSE
    /\ call = [a \in Actor |-> Idle]
    /\ stale = {}
    /\ activated = {}

At(a, pc) == call[a].pc = pc
Done(a) == call' = [call EXCEPT ![a] = Idle]
Active == {key \in Key : repository[key] # None /\ repository[key].status = "active"}

records == <<repository, cached, stale, activated>>

-----------------------------------------------------------------------------
(* _memory_manager: looked up, built and cached in separate steps. *)

BuildManager(a) ==
    /\ At(a, "idle")
    /\ ~cached
    /\ call' = [call EXCEPT ![a].pc = "look"]
    /\ UNCHANGED <<records, indexVars>>

(* PgVectorIndex.ensure_schema: a look at the table, and the DDL for what   *)
(* was seen.                                                                *)
LookAtTable(a) ==
    /\ At(a, "look")
    /\ call' = [call EXCEPT ![a] = [pc |-> "ddl", found |-> fits]]
    /\ UNCHANGED <<records, indexVars>>

CreateTable(a) ==
    /\ At(a, "ddl")
    /\ EnsureSchema(call[a].found)
    /\ stale' = IF call[a].found THEN stale ELSE stale \cup Rows
    /\ cached' = TRUE
    /\ Done(a)
    /\ UNCHANGED <<repository, activated>>

Begins(a, new) ==
    /\ cached
    /\ At(a, "idle") \/ At(a, "loaded")
    /\ call' = [call EXCEPT ![a] = new]
    /\ UNCHANGED <<records, indexVars>>

Upserts(a, by, key, content, status) ==
    Begins(a, [pc |-> "get", by |-> by, key |-> key,
               content |-> content, status |-> status])

-----------------------------------------------------------------------------
(* The requests. *)

(* Bug to catch: a proposed rule goes live. *)
ProposedStatus_Active(key) == "active"

(* A rule proposed by the LLM waits for review; a fact is live at once.     *)
ProposedStatus(key) == IF IsRule(key) THEN "pending_review" ELSE "active"

Propose(a, key, content) ==
    /\ key[2] = None
    /\ Upserts(a, "llm", key, content, ProposedStatus(key))

(* POST /api/memories; bound: under a key of its own, not a conflict key. *)
PutMemory(a, key, content, status) ==
    /\ key[2] = None
    /\ Upserts(a, "human", key, content, status)

(* POST /api/memories/{id}/status *)
UpdateStatus(a, key, status) ==
    /\ repository[key] # None
    /\ Begins(a, [pc |-> "get_by_id", key |-> key, status |-> status])

-----------------------------------------------------------------------------
(* _upsert_candidate *)

Candidate(a) == [content |-> call[a].content, status |-> call[a].status]

Writes(a, by, key, record) ==
    /\ call' = [call EXCEPT ![a] = [pc |-> "put", by |-> by, key |-> key,
                                    record |-> record,
                                    seen |-> repository[call[a].key]]]
    /\ UNCHANGED <<records, indexVars>>

(* Bug to catch: a proposal against an active rule is an update of it. *)
Conflicts_Never(a, old) == FALSE

Conflicts(a, old) ==
    /\ IsRule(call[a].key)
    /\ old # None /\ old.status = "active" /\ old.content # call[a].content
    /\ call[a].status = "pending_review"

(* Unchanged content refreshes the record and keeps its status. *)
Refresh(a) ==
    LET old == repository[call[a].key] IN
    /\ At(a, "get")
    /\ old # None /\ old.content = call[a].content
    /\ Writes(a, call[a].by, call[a].key, old)

Upsert(a) ==
    LET old == repository[call[a].key] IN
    /\ At(a, "get")
    /\ old # None => old.content # call[a].content
    /\ ~Conflicts(a, old)
    /\ Writes(a, call[a].by, call[a].key, Candidate(a))

(* The proposal is filed alongside, over whatever was filed there before.   *)
FileConflict(a) ==
    /\ At(a, "get")
    /\ Conflicts(a, repository[call[a].key])
    /\ Writes(a, call[a].by, <<call[a].key[1], call[a].content>>, Candidate(a))

(* update_status: a new status for the record as it is by now.              *)
GetById(a) ==
    LET old == repository[call[a].key] IN
    /\ At(a, "get_by_id")
    /\ Writes(a, "human", call[a].key, [old EXCEPT !.status = call[a].status])

(* Bug to catch: rules are indexed with the facts. *)
Indexed_Rules(key) == TRUE

Indexed(key) == ~IsRule(key)

(* The requests that have written this record and not synced it yet. *)
Syncing(key) ==
    {b \in Actor : /\ call[b].pc \in {"embed", "embed_bare", "sync"}
                   /\ "write" \in DOMAIN call[b]
                   /\ call[b].write.key = key}

(* What the history of the loads in progress makes of a write. *)
SeenBy(b, key, record) ==
    IF "load" \in DOMAIN call[b] /\ call[b].pc # "loaded" /\ record.status = "active"
    THEN [call[b] EXCEPT !.load.live = @ \cup {key}]
    ELSE call[b]

(* repository.put replaces the whole document. *)
Put(a) ==
    LET key == call[a].key
        record == call[a].record
        written == [key |-> key, record |-> record]
    IN
    /\ At(a, "put")
    /\ repository' = [repository EXCEPT ![key] = record]
    /\ call' = [b \in Actor |->
                  IF b # a THEN SeenBy(b, key, record)
                  ELSE IF Indexed(key) THEN [pc |-> "embed", write |-> written]
                  ELSE Idle]
    /\ stale' = IF Syncing(key) = {} THEN stale \ {key} ELSE stale \cup {key}
    /\ activated' = IF call[a].by = "human" /\ record.status = "active"
                    THEN activated \cup {key} ELSE activated
    /\ UNCHANGED <<cached, indexVars>>

(* Bug to catch: only what is active is mirrored. *)
SyncVector_OnlyActive(a) ==
    LET write == call[a].write IN
    /\ At(a, "sync")
    /\ IF write.record.status = "active" THEN UpsertRow(write.key, write.record)
       ELSE UNCHANGED indexVars
    /\ Done(a)
    /\ UNCHANGED records

SyncVector(a) ==
    /\ At(a, "sync")
    /\ UpsertRow(call[a].write.key, call[a].write.record)
    /\ Done(a)
    /\ UNCHANGED records

-----------------------------------------------------------------------------
(* The embedding, of a written content or of a question. *)

(* What it is for comes next. *)
Embedded(a) ==
    call' = [call EXCEPT ![a].pc = IF "write" \in DOMAIN call[a] THEN "sync"
                                   ELSE "search"]

Embed(a) ==
    /\ At(a, "embed")
    /\ Embeds
    /\ Embedded(a)
    /\ UNCHANGED records

EmbedRejected(a) ==
    /\ At(a, "embed")
    /\ EmbedsAgain
    /\ call' = [call EXCEPT ![a].pc = "embed_bare"]
    /\ UNCHANGED records

(* The requests among these that leave a written record unsynced. *)
Unsynced(actors) == {key \in Key : Syncing(key) \cap actors # {}}

EmbedBare(a) ==
    /\ At(a, "embed_bare")
    /\ StopsAsking
    /\ IF RightLength(FALSE) THEN Embedded(a) /\ UNCHANGED stale
       ELSE Done(a) /\ stale' = stale \cup Unsynced({a})
    /\ UNCHANGED <<repository, cached, activated>>

(* MongoDB, the embedding or the index fails: logged and swallowed. *)
Fail(a) ==
    /\ call[a].pc \notin {"idle", "loaded"}
    /\ stale' = stale \cup Unsynced({a})
    /\ Done(a)
    /\ UNCHANGED <<repository, cached, activated, indexVars>>

(* The process dies and is started again. *)
Restart ==
    /\ cached
    /\ Reconfigure
    /\ cached' = FALSE
    /\ call' = [a \in Actor |-> Idle]
    /\ stale' = stale \cup Unsynced(Actor)
    /\ UNCHANGED <<repository, activated>>

-----------------------------------------------------------------------------
(* load_context: the active rules (and, read in the same way, the active     *)
(* records of the profile keys), then the search, then the records found.    *)

LoadContext(a) ==
    Begins(a, [pc |-> "embed",
               load |-> [found |-> {key \in Active : IsRule(key)}, live |-> Active]])

(* The index returns any of the rows it holds as active. *)
Search(a) ==
    /\ At(a, "search")
    /\ \E hits \in SUBSET ActiveRows :
         call' = [call EXCEPT ![a].pc = "get_many", ![a].load.found = @ \cup hits]
    /\ UNCHANGED <<records, indexVars>>

(* Bug to catch: what the index returns is not checked against the records. *)
GetMany_AsIndexed(a) ==
    /\ At(a, "get_many")
    /\ call' = [call EXCEPT ![a].pc = "loaded"]
    /\ UNCHANGED <<records, indexVars>>

GetMany(a) ==
    /\ At(a, "get_many")
    /\ call' = [call EXCEPT ![a].pc = "loaded",
                            ![a].load.found = {key \in @ : IsRule(key) \/ key \in Active}]
    /\ UNCHANGED <<records, indexVars>>

-----------------------------------------------------------------------------
Begin(a) ==
    \/ /\ "propose" \in Ops
       /\ \E key \in Key : \E content \in Contents(key) : Propose(a, key, content)
    \/ /\ "put" \in Ops
       /\ \E key \in Key, status \in MemoryStatus :
            \E content \in Contents(key) : PutMemory(a, key, content, status)
    \/ /\ "update" \in Ops
       /\ \E key \in Key, status \in MemoryStatus : UpdateStatus(a, key, status)
    \/ "load" \in Ops /\ LoadContext(a)

Step(a) ==
    \/ BuildManager(a) \/ LookAtTable(a) \/ CreateTable(a)
    \/ Refresh(a) \/ Upsert(a) \/ FileConflict(a)
    \/ GetById(a) \/ Put(a)
    \/ Embed(a) \/ EmbedRejected(a) \/ EmbedBare(a)
    \/ SyncVector(a) \/ Search(a) \/ GetMany(a)
    \/ Fail(a)

Next ==
    \/ \E a \in Actor : Begin(a) \/ Step(a)
    \/ Restart

Spec == Init /\ [][Next]_vars

-----------------------------------------------------------------------------
TypeOK ==
    /\ IndexTypeOK
    /\ repository \in [Key -> MemoryRecord \cup {None}]
    /\ index \in [Key -> MemoryRecord \cup {None}]
    /\ \A key \in Key : IsRule(key) => index[key] = None
    /\ cached \in BOOLEAN
    /\ call \in [Actor -> Call]
    /\ stale \subseteq Key
    /\ activated \subseteq Key

(* A rule steers the agent only if a human has made a record of its key      *)
(* active, whatever the model claims and whoever else writes the record at   *)
(* the same time: the gate of _validate_candidate.                           *)
RulesAreActivated ==
    \A key \in Active : IsRule(key) => key \in activated

(* What the prompt is built from was active at some time after the request  *)
(* began, although the index may lag behind: a memory deleted before is not *)
(* replayed.                                                                *)
LoadedWasLive ==
    \A a \in Actor : At(a, "loaded") => call[a].load.found \subseteq call[a].load.live

(* Once nobody is writing it, the index shows a fact as the record has it,   *)
(* deleted ones included (the comment of _sync_vector), unless the last      *)
(* write failed to sync, overlapped another, or the table was dropped since. *)
IndexMirrors ==
    \A key \in Key : Indexed(key) /\ key \notin stale /\ Syncing(key) = {}
        => index[key] = repository[key]

(* No interaction overwrites or demotes the active rule it has seen: a       *)
(* different proposal for its key is filed alongside.  (A rule that goes     *)
(* live after the interaction has read the key is not seen.)                 *)
RulesAreKept ==
    [][\A a \in Actor :
          At(a, "put") /\ call'[a].pc # "put" /\ call[a].by = "llm" =>
             LET rule == <<call[a].key[1], None>>
                 seen == call[a].seen
             IN IsRule(rule) /\ rule \in Active /\ seen = repository[rule]
                  => repository'[rule] = seen]_vars

-----------------------------------------------------------------------------
(* What the repository says and the code refutes. *)

(* "Re-observed, unchanged: ... NEVER change the status": an interaction that *)
(* observes a memory again leaves its status alone.                           *)
RefreshKeepsStatus ==
    [][\A a \in Actor :
          At(a, "put") /\ call'[a].pc # "put" /\ call[a].by = "llm" =>
             LET old == repository[call[a].key] IN
                old # None /\ old.content = call[a].record.content
                  => repository'[call[a].key] = old]_vars
=============================================================================

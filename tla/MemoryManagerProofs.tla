------------------------ MODULE MemoryManagerProofs ------------------------
(***************************************************************************)
(* The safety of MemoryManager for any requests, keys, contents and models *)
(* of the embedding: an inductive invariant, kept by every action.         *)
(*                                                                         *)
(* It says what each pending call may still do: which rules it may make    *)
(* active, what a proposal that has seen an active rule will write, which  *)
(* records a load has found; and for the mirror, that a key which is not   *)
(* stale has at most one writer, about to mirror the record it has.        *)
(***************************************************************************)
EXTENDS MemoryManager, TLAPS

(* What a request that has read nothing yet, proposed by the LLM or not, asks *)
(* for: a content of its kind under a key of its own.                         *)
GetInv(c) ==
    c.pc = "get" =>
        /\ c.key[2] = None
        /\ c.content \in Contents(c.key)
        /\ c.by = "llm" => c.status = ProposedStatus(c.key)

(* A record is never removed. *)
ByIdInv(c) == c.pc = "get_by_id" => repository[c.key] \in MemoryRecord

(* What the LLM is about to write is an active rule only if it has become    *)
(* active by a human, and under the key of an active rule it is that rule.   *)
PutInv(c) ==
    c.pc = "put" /\ c.by = "llm" /\ IsRule(c.key) =>
        /\ c.record.status = "active" => c.key \in activated
        /\ c.key[2] = None /\ c.seen # None /\ c.seen.status = "active"
              => c.record = c.seen

(* What is on its way to the index is a fact. *)
WriteInv(c) == "write" \in DOMAIN c => Indexed(c.write.key)

(* A load knows what has been active since it began, and of the rest of what *)
(* it has found before it asks for the records, there are only facts.        *)
LoadInv(c) ==
    "load" \in DOMAIN c =>
        IF c.pc = "loaded" THEN c.load.found \subseteq c.load.live
        ELSE /\ Active \subseteq c.load.live
             /\ \A key \in c.load.found : IsRule(key) => key \in c.load.live

CallInv(c) == GetInv(c) /\ ByIdInv(c) /\ PutInv(c) /\ WriteInv(c) /\ LoadInv(c)

MirrorInv ==
    \A key \in Key : Indexed(key) /\ key \notin stale =>
        /\ Syncing(key) = {} => index[key] = repository[key]
        /\ \A a, b \in Syncing(key) : a = b
        /\ \A a \in Syncing(key) : call[a].write.record = repository[key]

Inv ==
    /\ TypeOK
    /\ \A a \in Actor : CallInv(call[a])
    /\ RulesAreActivated
    /\ MirrorInv

USE ModelKinds, Parameters

-----------------------------------------------------------------------------
(* The shapes of a call. *)

Writing == {"embed", "embed_bare", "sync"}
Loading == {"embed", "embed_bare", "search", "get_many", "loaded"}

(* The parts of a call, by what it is doing. *)
LEMMA CallParts ==
    ASSUME NEW c \in Call
    PROVE  /\ c.pc = "ddl" => c.found \in BOOLEAN
           /\ c.pc = "get" => /\ c.by \in {"llm", "human"} /\ c.key \in Key
                              /\ c.content \in Text /\ c.status \in MemoryStatus
           /\ c.pc = "get_by_id" => c.key \in Key /\ c.status \in MemoryStatus
           /\ c.pc = "put" => /\ c.by \in {"llm", "human"} /\ c.key \in Key
                              /\ c.seen \in MemoryRecord \cup {None}
                              /\ c.record \in MemoryRecord
           /\ "write" \in DOMAIN c =>
                 /\ c.pc \in Writing /\ c.write \in Write
                 /\ c = [pc |-> c.pc, write |-> c.write]
           /\ "load" \in DOMAIN c =>
                 /\ c.pc \in Loading /\ c.load \in Load
                 /\ c = [pc |-> c.pc, load |-> c.load]
           /\ c.pc \in Writing \cup Loading =>
                 "write" \in DOMAIN c \/ "load" \in DOMAIN c
           /\ c.pc = "sync" => "write" \in DOMAIN c
           /\ c.pc \in {"search", "get_many", "loaded"} => "load" \in DOMAIN c
  BY DEF Call, Writing, Loading

LEMMA WriteCalls ==
    ASSUME NEW pc \in Writing, NEW write \in Write
    PROVE  [pc |-> pc, write |-> write] \in Call
  BY DEF Call, Writing

LEMMA LoadCalls ==
    ASSUME NEW pc \in Loading, NEW load \in Load
    PROVE  [pc |-> pc, load |-> load] \in Call
  BY DEF Call, Loading

(* A call that goes on keeps what it is for. *)
LEMMA GoesOn ==
    ASSUME NEW c \in Call, NEW pc
    PROVE  /\ "write" \in DOMAIN c =>
                 [c EXCEPT !.pc = pc] = [pc |-> pc, write |-> c.write]
           /\ "load" \in DOMAIN c =>
                 [c EXCEPT !.pc = pc] = [pc |-> pc, load |-> c.load]
  BY CallParts

LEMMA IdleCall == Idle \in Call /\ CallInv(Idle)
  BY DEF Idle, Call, CallInv, GetInv, ByIdInv, PutInv, WriteInv, LoadInv

(* A write on its way to the index asks nothing of the records. *)
LEMMA WriteCallInv ==
    ASSUME NEW pc \in Writing, NEW write \in Write, Indexed(write.key)
    PROVE  CallInv([pc |-> pc, write |-> write])
  BY DEF CallInv, GetInv, ByIdInv, PutInv, WriteInv, LoadInv, Writing

LEMMA LoadCallInv ==
    ASSUME NEW pc \in Loading, NEW load \in Load,
           IF pc = "loaded" THEN load.found \subseteq load.live
           ELSE /\ Active \subseteq load.live
                /\ \A key \in load.found : IsRule(key) => key \in load.live
    PROVE  CallInv([pc |-> pc, load |-> load])
  BY DEF CallInv, GetInv, ByIdInv, PutInv, WriteInv, LoadInv, Loading

LEMMA RecordsOfKeys ==
    ASSUME TypeOK, NEW key \in Key
    PROVE  /\ repository[key] # None => repository[key] \in MemoryRecord
           /\ index[key] # None => index[key] \in MemoryRecord
  BY DEF TypeOK

-----------------------------------------------------------------------------
(* The steps of one request that leave the records alone. *)

(* What a step of a may make of its call, without losing a write: it goes on *)
(* with it, or it has none, or the key is stale from now on.                 *)
KeepsTrack(old, new) ==
    \/ "write" \in DOMAIN old /\ "write" \in DOMAIN new /\ new.write = old.write
    \/ "write" \notin DOMAIN old /\ "write" \notin DOMAIN new
    \/ /\ "write" \in DOMAIN old /\ "write" \notin DOMAIN new
       /\ old.write.key \in stale'

SyncingByWrite ==
    \A key \in Key :
        Syncing(key) = {b \in Actor : "write" \in DOMAIN call[b]
                                      /\ call[b].write.key = key}

LEMMA SyncingMeans == TypeOK => SyncingByWrite
  <1> SUFFICES ASSUME TypeOK PROVE SyncingByWrite
    OBVIOUS
  <1>1. \A b \in Actor : "write" \in DOMAIN call[b] => call[b].pc \in Writing
    BY CallParts DEF TypeOK
  <1> QED BY <1>1 DEF SyncingByWrite, Syncing, Writing

LEMMA MirrorKept ==
    ASSUME Inv, NEW a \in Actor, NEW c \in Call, call' = [call EXCEPT ![a] = c],
           KeepsTrack(call[a], c), TypeOK', stale \subseteq stale',
           UNCHANGED <<repository, index>>
    PROVE  MirrorInv'
  <1>1. /\ TypeOK /\ MirrorInv
        /\ call'[a] = c /\ \A b \in Actor \ {a} : call'[b] = call[b]
    BY DEF Inv, TypeOK
  <1> SUFFICES ASSUME NEW key \in Key, Indexed(key), key \notin stale'
               PROVE  /\ Syncing(key)' = {} => index[key] = repository[key]
                      /\ \A b, d \in Syncing(key)' : b = d
                      /\ \A b \in Syncing(key)' : call'[b].write.record = repository[key]
    BY DEF MirrorInv, Indexed, IsRule
  <1>2. Syncing(key) = {b \in Actor : "write" \in DOMAIN call[b]
                                       /\ call[b].write.key = key}
    BY <1>1, SyncingMeans DEF SyncingByWrite
  <1>3. Syncing(key)' = {b \in Actor : "write" \in DOMAIN call'[b]
                                        /\ call'[b].write.key = key}
    <2>1. SyncingByWrite'
      BY SyncingMeans, PTL
    <2> QED BY <2>1 DEF SyncingByWrite
  <1>4. /\ Syncing(key)' = Syncing(key)
        /\ \A b \in Syncing(key) : call'[b].write = call[b].write
    BY <1>1, <1>2, <1>3 DEF KeepsTrack
  <1> QED BY <1>1, <1>4 DEF MirrorInv

LEMMA OthersKept ==
    ASSUME Inv, NEW a \in Actor, NEW c \in Call, call' = [call EXCEPT ![a] = c],
           CallInv(c), UNCHANGED <<repository, activated>>
    PROVE  /\ \A b \in Actor : CallInv(call[b])'
           /\ RulesAreActivated'
           /\ call' \in [Actor -> Call]
  <1>1. /\ call \in [Actor -> Call] /\ call'[a] = c
        /\ \A b \in Actor \ {a} : call'[b] = call[b]
        /\ \A b \in Actor : CallInv(call[b])
    BY DEF Inv, TypeOK
  <1>2. Active' = Active
    BY DEF Active
  <1>3. \A b \in Actor : CallInv(call'[b])
    BY <1>1
  <1>4. \A b \in Actor : CallInv(call[b])'
    BY <1>2, <1>3 DEF CallInv, GetInv, ByIdInv, PutInv, WriteInv, LoadInv
  <1> QED BY <1>1, <1>2, <1>4 DEF Inv, RulesAreActivated

(* The common end of the steps that touch only the call of a request, and    *)
(* what the embedding provider knows.                                        *)
LEMMA CallStep ==
    ASSUME Inv, NEW a \in Actor, NEW c \in Call, call' = [call EXCEPT ![a] = c],
           CallInv(c), KeepsTrack(call[a], c),
           UNCHANGED <<repository, activated, cached, index>>,
           stale \subseteq stale', stale' \subseteq Key, IndexTypeOK'
    PROVE  Inv'
  <1>1. /\ \A b \in Actor : CallInv(call[b])'
        /\ RulesAreActivated'
        /\ call' \in [Actor -> Call]
    BY OthersKept
  <1>2. TypeOK'
    BY <1>1 DEF Inv, TypeOK
  <1>3. MirrorInv'
    BY <1>2, MirrorKept
  <1> QED BY <1>1, <1>2, <1>3 DEF Inv

(* A request begins, or moves without a write. *)
LEMMA RecordsAlone ==
    ASSUME Inv, NEW a \in Actor, NEW c \in Call, call' = [call EXCEPT ![a] = c],
           CallInv(c), KeepsTrack(call[a], c), UNCHANGED <<records, indexVars>>
    PROVE  Inv'
  BY CallStep DEF records, indexVars, Inv, TypeOK, IndexTypeOK

LEMMA NoWriteKeepsTrack ==
    ASSUME Inv, NEW a \in Actor, NEW c, "write" \notin DOMAIN c,
           call[a].pc \notin Writing \/ "load" \in DOMAIN call[a]
    PROVE  KeepsTrack(call[a], c)
  <1>1. "write" \notin DOMAIN call[a]
    <2>1. call[a] \in Call
      BY DEF Inv, TypeOK
    <2>2. "write" \in DOMAIN call[a] => "load" \notin DOMAIN call[a]
      BY <2>1, CallParts
    <2> QED BY <2>1, <2>2, CallParts
  <1> QED BY <1>1 DEF KeepsTrack

LEMMA BuildKeepsInv ==
    ASSUME Inv, NEW a \in Actor, BuildManager(a) \/ LookAtTable(a)
    PROVE  Inv'
  <1>0. call[a] \in Call /\ fits \in BOOLEAN
    BY DEF Inv, TypeOK, IndexTypeOK
  <1>1. PICK c \in {[pc |-> "look"], [pc |-> "ddl", found |-> fits]} :
           call' = [call EXCEPT ![a] = c]
    <2>1. CASE LookAtTable(a)
      BY <2>1 DEF LookAtTable
    <2>2. CASE BuildManager(a)
      <3>1. call[a] = [pc |-> "idle"]
        BY <1>0, <2>2 DEF BuildManager, At, Call
      <3>2. [call[a] EXCEPT !.pc = "look"] = [pc |-> "look"]
        BY <3>1
      <3> QED BY <2>2, <3>2 DEF BuildManager
    <2> QED BY <2>1, <2>2
  <1>2. c \in Call /\ CallInv(c) /\ "write" \notin DOMAIN c
    BY <1>0 DEF Call, CallInv, GetInv, ByIdInv, PutInv, WriteInv, LoadInv
  <1>3. KeepsTrack(call[a], c)
    BY <1>2, NoWriteKeepsTrack DEF BuildManager, LookAtTable, At, Writing
  <1> QED BY <1>1, <1>2, <1>3, RecordsAlone DEF BuildManager, LookAtTable

LEMMA BeginsKeepsInv ==
    ASSUME Inv, NEW a \in Actor, NEW c \in Call, Begins(a, c), CallInv(c),
           "write" \notin DOMAIN c
    PROVE  Inv'
  <1>1. KeepsTrack(call[a], c)
    <2>1. call[a].pc \notin Writing
      BY DEF Begins, At, Writing
    <2> QED BY <2>1, NoWriteKeepsTrack
  <1> QED BY <1>1, RecordsAlone DEF Begins

LEMMA BeginKeepsInv ==
    ASSUME Inv, NEW a \in Actor, Begin(a)
    PROVE  Inv'
  <1>1. ASSUME NEW by \in {"llm", "human"}, NEW key \in Key,
               NEW content \in Contents(key), NEW status \in MemoryStatus,
               key[2] = None, by = "llm" => status = ProposedStatus(key),
               Upserts(a, by, key, content, status)
        PROVE  Inv'
    <2> DEFINE c == [pc |-> "get", by |-> by, key |-> key,
                     content |-> content, status |-> status]
    <2>1. content \in Text
      BY <1>1 DEF Contents, Text
    <2>2. c \in Call
      BY <2>1 DEF Call
    <2>3. CallInv(c) /\ "write" \notin DOMAIN c
      BY <1>1 DEF CallInv, GetInv, ByIdInv, PutInv, WriteInv, LoadInv
    <2>4. Begins(a, c)
      BY <1>1 DEF Upserts
    <2> HIDE DEF c
    <2> QED BY <2>2, <2>3, <2>4, BeginsKeepsInv
  <1>2. ASSUME NEW key \in Key, NEW content \in Contents(key), Propose(a, key, content)
        PROVE  Inv'
    <2>1. ProposedStatus(key) \in MemoryStatus
      BY DEF ProposedStatus, MemoryStatus
    <2> QED BY <1>1, <1>2, <2>1 DEF Propose
  <1>3. ASSUME NEW key \in Key, NEW status \in MemoryStatus,
               NEW content \in Contents(key), PutMemory(a, key, content, status)
        PROVE  Inv'
    BY <1>1, <1>3 DEF PutMemory
  <1>4. ASSUME NEW key \in Key, NEW status \in MemoryStatus, UpdateStatus(a, key, status)
        PROVE  Inv'
    <2> DEFINE c == [pc |-> "get_by_id", key |-> key, status |-> status]
    <2>1. c \in Call
      BY DEF Call
    <2>2. repository[key] \in MemoryRecord
      BY <1>4, RecordsOfKeys DEF UpdateStatus, Inv
    <2>3. CallInv(c) /\ "write" \notin DOMAIN c
      BY <2>2 DEF CallInv, GetInv, ByIdInv, PutInv, WriteInv, LoadInv
    <2>4. Begins(a, c)
      BY <1>4 DEF UpdateStatus
    <2> HIDE DEF c
    <2> QED BY <2>1, <2>3, <2>4, BeginsKeepsInv
  <1>5. CASE LoadContext(a)
    <2> DEFINE load == [found |-> {key \in Active : IsRule(key)}, live |-> Active]
    <2>1. load \in Load
      BY DEF Load, Active
    <2>2. /\ load.live = Active
          /\ \A key \in load.found : key \in Active
      OBVIOUS
    <2>3. Begins(a, [pc |-> "embed", load |-> load])
      BY <1>5 DEF LoadContext
    <2> HIDE DEF load
    <2>4. [pc |-> "embed", load |-> load] \in Call
      BY <2>1, LoadCalls DEF Loading
    <2>5. CallInv([pc |-> "embed", load |-> load])
      BY <2>1, <2>2, LoadCallInv DEF Loading
    <2> QED BY <2>3, <2>4, <2>5, BeginsKeepsInv
  <1> QED BY <1>2, <1>3, <1>4, <1>5 DEF Begin

-----------------------------------------------------------------------------
(* _upsert_candidate and update_status, up to the write. *)

LEMMA WritesKeepsInv ==
    ASSUME Inv, NEW a \in Actor, call[a].pc \in {"get", "get_by_id"},
           NEW by \in {"llm", "human"}, NEW key \in Key, NEW record \in MemoryRecord,
           Writes(a, by, key, record),
           by = "llm" /\ IsRule(key) =>
               /\ record.status = "active" => key \in activated
               /\ LET seen == repository[call[a].key] IN
                     key[2] = None /\ seen # None /\ seen.status = "active"
                        => record = seen
    PROVE  Inv'
  <1> DEFINE c == [pc |-> "put", by |-> by, key |-> key, record |-> record,
                   seen |-> repository[call[a].key]]
  <1>1. repository[call[a].key] \in MemoryRecord \cup {None}
    <2>1. call[a] \in Call
      BY DEF Inv, TypeOK
    <2>2. call[a].key \in Key
      BY <2>1, CallParts
    <2> QED BY <2>2 DEF Inv, TypeOK
  <1>2. c \in Call
    BY <1>1 DEF Call
  <1>3. CallInv(c) /\ "write" \notin DOMAIN c
    BY DEF CallInv, GetInv, ByIdInv, PutInv, WriteInv, LoadInv
  <1>4. call' = [call EXCEPT ![a] = c] /\ UNCHANGED <<records, indexVars>>
    BY DEF Writes
  <1> HIDE DEF c
  <1>5. KeepsTrack(call[a], c)
    BY <1>3, NoWriteKeepsTrack DEF Writing
  <1> QED BY <1>2, <1>3, <1>4, <1>5, RecordsAlone

LEMMA UpsertKeepsInv ==
    ASSUME Inv, NEW a \in Actor, Refresh(a) \/ Upsert(a) \/ FileConflict(a)
    PROVE  Inv'
  <1> DEFINE key == call[a].key
             old == repository[key]
             content == call[a].content
             status == call[a].status
  <1>1. /\ call[a].pc = "get" /\ call[a] \in Call
        /\ call[a].by \in {"llm", "human"} /\ key \in Key
        /\ content \in Text /\ status \in MemoryStatus
    BY CallParts DEF Refresh, Upsert, FileConflict, At, Inv, TypeOK
  <1>2. /\ key[2] = None /\ content \in Contents(key)
        /\ call[a].by = "llm" => status = ProposedStatus(key)
    BY <1>1 DEF Inv, CallInv, GetInv
  <1>3. old # None => old \in MemoryRecord
    BY <1>1, RecordsOfKeys DEF Inv
  <1>4. /\ Candidate(a) \in MemoryRecord
        /\ Candidate(a).content = content /\ Candidate(a).status = status
    BY <1>1 DEF Candidate, MemoryRecord
  <1>5. call[a].by = "llm" /\ IsRule(key) => status = "pending_review"
    BY <1>2 DEF ProposedStatus
  <1>6. CASE Refresh(a)
    <2>1. old # None /\ Writes(a, call[a].by, key, old)
      BY <1>6 DEF Refresh
    <2>2. IsRule(key) /\ old.status = "active" => key \in activated
      BY <1>1, <2>1 DEF Inv, RulesAreActivated, Active
    <2> QED BY <1>1, <1>3, <2>1, <2>2, WritesKeepsInv
  <1>7. CASE Upsert(a)
    <2>1. /\ old # None => old.content # content
          /\ ~Conflicts(a, old)
          /\ Writes(a, call[a].by, key, Candidate(a))
      BY <1>7 DEF Upsert
    <2>2. call[a].by = "llm" /\ IsRule(key) => ~(old # None /\ old.status = "active")
      BY <1>5, <2>1 DEF Conflicts
    <2> QED BY <1>1, <1>4, <1>5, <2>1, <2>2, WritesKeepsInv
  <1>8. CASE FileConflict(a)
    <2> DEFINE beside == <<key[1], content>>
    <2>1. /\ IsRule(key) /\ Writes(a, call[a].by, beside, Candidate(a))
          /\ status = "pending_review"
      BY <1>8 DEF FileConflict, Conflicts
    <2>2. content \in RuleText /\ content # None /\ key[1] \in RuleKey
      BY <1>2, <2>1 DEF Contents, IsRule, Text
    <2>3. beside \in Key /\ beside[2] = content
      BY <2>2 DEF Key
    <2> HIDE DEF beside
    <2> QED BY <1>1, <1>4, <2>1, <2>2, <2>3, WritesKeepsInv
  <1> QED BY <1>6, <1>7, <1>8

LEMMA GetByIdKeepsInv ==
    ASSUME Inv, NEW a \in Actor, GetById(a)
    PROVE  Inv'
  <1> DEFINE old == repository[call[a].key]
             record == [old EXCEPT !.status = call[a].status]
  <1>1. /\ call[a].pc = "get_by_id" /\ call[a] \in Call
        /\ call[a].key \in Key /\ call[a].status \in MemoryStatus
    BY CallParts DEF GetById, At, Inv, TypeOK
  <1>2. old \in MemoryRecord
    BY <1>1 DEF Inv, CallInv, ByIdInv
  <1>3. record \in MemoryRecord
    BY <1>1, <1>2 DEF MemoryRecord
  <1>4. Writes(a, "human", call[a].key, record)
    BY DEF GetById
  <1> HIDE DEF record
  <1> QED BY <1>1, <1>3, <1>4, WritesKeepsInv

-----------------------------------------------------------------------------
(* The write. *)

(* A write, as a load in progress sees it. *)
LEMMA SeenByIs ==
    ASSUME NEW b \in Actor, call[b] \in Call, NEW key \in Key, NEW record
    PROVE  \/ SeenBy(b, key, record) = call[b]
           \/ /\ "load" \in DOMAIN call[b] /\ call[b].pc # "loaded"
              /\ SeenBy(b, key, record) =
                   [pc |-> call[b].pc,
                    load |-> [found |-> call[b].load.found,
                              live |-> call[b].load.live \cup {key}]]
  <1>1. CASE "load" \in DOMAIN call[b] /\ call[b].pc # "loaded" /\ record.status = "active"
    <2>1. /\ call[b] = [pc |-> call[b].pc, load |-> call[b].load]
          /\ call[b].load \in Load
      BY <1>1, CallParts
    <2>2. [call[b] EXCEPT !.load.live = @ \cup {key}] =
             [pc |-> call[b].pc, load |-> [call[b].load EXCEPT !.live = @ \cup {key}]]
      BY <2>1
    <2>3. [call[b].load EXCEPT !.live = @ \cup {key}] =
             [found |-> call[b].load.found, live |-> call[b].load.live \cup {key}]
      BY <2>1 DEF Load
    <2> QED BY <1>1, <2>2, <2>3 DEF SeenBy
  <1> QED BY <1>1 DEF SeenBy

LEMMA SeenByType ==
    ASSUME NEW b \in Actor, call[b] \in Call, NEW key \in Key, NEW record
    PROVE  LET c == SeenBy(b, key, record) IN
           /\ c \in Call /\ c.pc = call[b].pc
           /\ "write" \in DOMAIN c <=> "write" \in DOMAIN call[b]
           /\ "write" \in DOMAIN c => c.write = call[b].write
  <1>1. CASE SeenBy(b, key, record) = call[b]
    BY <1>1
  <1>2. CASE SeenBy(b, key, record) # call[b]
    <2> DEFINE load == [found |-> call[b].load.found,
                        live |-> call[b].load.live \cup {key}]
    <2>1. /\ "load" \in DOMAIN call[b]
          /\ SeenBy(b, key, record) = [pc |-> call[b].pc, load |-> load]
      BY <1>2, SeenByIs
    <2>2. call[b].load \in Load /\ call[b].pc \in Loading /\ "write" \notin DOMAIN call[b]
      BY <2>1, CallParts
    <2>3. load \in Load
      BY <2>2 DEF Load
    <2> HIDE DEF load
    <2>4. [pc |-> call[b].pc, load |-> load] \in Call
      BY <2>2, <2>3, LoadCalls
    <2> QED BY <2>1, <2>2, <2>4
  <1> QED BY <1>1, <1>2

(* The other requests after a write: what they rely on still holds, and the  *)
(* loads have seen it.                                                       *)
LEMMA SeenByInv ==
    ASSUME Inv, NEW a \in Actor, Put(a), NEW b \in Actor, b # a
    PROVE  CallInv(call[b])'
  <1> DEFINE key == call[a].key
             record == call[a].record
             old == call[b]
  <1>1. /\ key \in Key /\ record \in MemoryRecord /\ old \in Call
        /\ CallInv(old) /\ repository \in [Key -> MemoryRecord \cup {None}]
    BY CallParts DEF Put, At, Inv, TypeOK
  <1>2. /\ call'[b] = SeenBy(b, key, record)
        /\ repository' = [repository EXCEPT ![key] = record]
        /\ activated \subseteq activated'
    BY DEF Put
  <1>3. \A k \in Active' : k \in Active \/ (k = key /\ record.status = "active")
    BY <1>1, <1>2 DEF Active
  <1> HIDE DEF key, record
  <1>4. CASE /\ "load" \in DOMAIN old /\ old.pc # "loaded" /\ record.status = "active"
    <2> DEFINE c == call'[b]
    <2>1. /\ old.load \in Load /\ old.pc \in Loading
          /\ old = [pc |-> old.pc, load |-> old.load]
      BY <1>1, <1>4, CallParts
    <2>2. c = [old EXCEPT !.load.live = @ \cup {key}]
      BY <1>2, <1>4 DEF SeenBy
    <2>3. /\ DOMAIN c = {"pc", "load"} /\ c.pc = old.pc
          /\ c.load = [old.load EXCEPT !.live = @ \cup {key}]
      BY <2>1, <2>2
    <2>4. c.load.found = old.load.found /\ c.load.live = old.load.live \cup {key}
      BY <2>1, <2>3 DEF Load
    <2>5. /\ Active \subseteq old.load.live
          /\ \A k \in old.load.found : IsRule(k) => k \in old.load.live
      BY <1>1, <1>4 DEF CallInv, LoadInv
    <2>6. LoadInv(call[b])'
      BY <1>3, <1>4, <2>3, <2>4, <2>5 DEF LoadInv, IsRule
    <2>7. GetInv(call[b])' /\ ByIdInv(call[b])' /\ PutInv(call[b])' /\ WriteInv(call[b])'
      BY <2>1, <2>3 DEF GetInv, ByIdInv, PutInv, WriteInv, Loading
    <2> QED BY <2>6, <2>7 DEF CallInv
  <1>5. CASE ~(/\ "load" \in DOMAIN old /\ old.pc # "loaded" /\ record.status = "active")
    <2>1. call'[b] = old
      BY <1>2, <1>5 DEF SeenBy
    <2>2. GetInv(call[b])' /\ WriteInv(call[b])'
      BY <1>1, <2>1 DEF CallInv, GetInv, WriteInv, Indexed, IsRule, Contents, ProposedStatus
    <2>3. ByIdInv(call[b])'
      <3>1. old.pc = "get_by_id" => old.key \in Key
        BY <1>1, CallParts
      <3> QED BY <1>1, <1>2, <2>1, <3>1 DEF CallInv, ByIdInv
    <2>4. PutInv(call[b])'
      BY <1>1, <1>2, <2>1 DEF CallInv, PutInv, IsRule
    <2>5. LoadInv(call[b])'
      BY <1>1, <1>3, <1>5, <2>1 DEF CallInv, LoadInv, IsRule
    <2> QED BY <2>2, <2>3, <2>4, <2>5 DEF CallInv
  <1> QED BY <1>4, <1>5

LEMMA PutKeepsInv ==
    ASSUME Inv, NEW a \in Actor, Put(a)
    PROVE  Inv'
  <1> DEFINE key == call[a].key
             record == call[a].record
             next == IF Indexed(key) THEN [pc |-> "embed", write |-> [key |-> key, record |-> record]]
                     ELSE Idle
  <1>1. /\ TypeOK /\ call[a] \in Call /\ call[a].pc = "put"
        /\ key \in Key /\ record \in MemoryRecord
        /\ call[a].by \in {"llm", "human"}
    BY CallParts DEF Put, At, Inv, TypeOK
  <1>2. /\ repository' = [repository EXCEPT ![key] = record]
        /\ call'[a] = next
        /\ \A b \in Actor \ {a} : call'[b] = SeenBy(b, key, record)
        /\ DOMAIN call' = Actor
        /\ stale' = IF Syncing(key) = {} THEN stale \ {key} ELSE stale \cup {key}
        /\ activated' = IF call[a].by = "human" /\ record.status = "active"
                        THEN activated \cup {key} ELSE activated
        /\ UNCHANGED <<cached, index, model, asks, fits>>
    BY DEF Put, indexVars
  <1>3. next \in Call /\ CallInv(call[a])'
    <2>1. CASE Indexed(key)
      <3>1. [key |-> key, record |-> record] \in Write
        BY <1>1 DEF Write
      <3>2. next \in Call
        BY <2>1, <3>1, WriteCalls DEF Writing
      <3>3. CallInv(call[a])'
        BY <1>2, <2>1 DEF CallInv, GetInv, ByIdInv, PutInv, WriteInv, LoadInv, Indexed, IsRule
      <3> QED BY <3>2, <3>3
    <2>2. CASE ~Indexed(key)
      <3>1. next = Idle
        BY <2>2
      <3>2. CallInv(call[a])'
        BY <1>2, <3>1 DEF CallInv, GetInv, ByIdInv, PutInv, WriteInv, LoadInv, Idle
      <3> QED BY <3>1, <3>2, IdleCall
    <2> QED BY <2>1, <2>2
  <1>4. \A b \in Actor : CallInv(call[b])'
    BY <1>3, SeenByInv
  <1>5. call' \in [Actor -> Call]
    <2>1. \A b \in Actor \ {a} : call'[b] \in Call
      <3> HIDE DEF key, record
      <3> QED BY <1>1, <1>2, SeenByType DEF TypeOK
    <2>2. call' = [b \in Actor |-> call'[b]]
      BY DEF Put
    <2> HIDE DEF next
    <2> QED BY <1>2, <1>3, <2>1, <2>2
  <1>6. TypeOK'
    <2> HIDE DEF next
    <2>1. repository' \in [Key -> MemoryRecord \cup {None}]
      BY <1>1, <1>2 DEF TypeOK
    <2>2. stale' \subseteq Key /\ activated' \subseteq Key
      BY <1>1, <1>2 DEF TypeOK
    <2> QED BY <1>1, <1>2, <1>5, <2>1, <2>2 DEF TypeOK, IndexTypeOK, IsRule
  <1>7. RulesAreActivated'
    <2>1. IsRule(key) /\ record.status = "active" => key \in activated'
      BY <1>1, <1>2 DEF Inv, CallInv, PutInv
    <2>2. \A k \in Active' : k \in Active \/ (k = key /\ record.status = "active")
      BY <1>1, <1>2 DEF Active, TypeOK
    <2> QED BY <1>2, <2>1, <2>2 DEF Inv, RulesAreActivated, IsRule
  <1>8. MirrorInv'
    <2>1. SyncingByWrite
      BY <1>1, SyncingMeans
    <2>2. SyncingByWrite'
      BY <1>6, SyncingMeans, PTL
    <2>3. \A b \in Actor \ {a} :
             /\ "write" \in DOMAIN call'[b] <=> "write" \in DOMAIN call[b]
             /\ "write" \in DOMAIN call'[b] => call'[b].write = call[b].write
      <3> HIDE DEF key, record
      <3> QED BY <1>1, <1>2, SeenByType DEF TypeOK
    <2>4. "write" \notin DOMAIN call[a]
      BY <1>1, CallParts DEF Writing
    <2>5. /\ Indexed(key) => /\ "write" \in DOMAIN call'[a] /\ call'[a].write.key = key
                             /\ call'[a].write.record = record
          /\ ~Indexed(key) => "write" \notin DOMAIN call'[a]
      BY <1>2 DEF Idle
    <2> HIDE DEF key, record, next
    <2> SUFFICES ASSUME NEW k \in Key, Indexed(k), k \notin stale'
                 PROVE  /\ Syncing(k)' = {} => index[k] = repository'[k]
                        /\ \A b, d \in Syncing(k)' : b = d
                        /\ \A b \in Syncing(k)' : call'[b].write.record = repository'[k]
      BY <1>2 DEF MirrorInv, Indexed, IsRule
    <2>6. /\ Syncing(k) = {b \in Actor : "write" \in DOMAIN call[b] /\ call[b].write.key = k}
          /\ Syncing(k)' = {b \in Actor : "write" \in DOMAIN call'[b]
                                           /\ call'[b].write.key = k}
      BY <2>1, <2>2 DEF SyncingByWrite
    <2>7. CASE k = key
      <3>1. Syncing(k) = {}
        BY <1>2, <2>7
      <3>2. Syncing(k)' = {a}
        BY <2>3, <2>5, <2>6, <2>7, <3>1
      <3>3. repository'[k] = record
        BY <1>1, <1>2, <2>7 DEF TypeOK
      <3> QED BY <2>5, <2>7, <3>2, <3>3
    <2>8. CASE k # key
      <3>1. Syncing(k)' = Syncing(k) /\ \A b \in Syncing(k) : call'[b].write = call[b].write
        BY <2>3, <2>4, <2>5, <2>6, <2>8
      <3>2. k \notin stale /\ repository'[k] = repository[k]
        BY <1>1, <1>2, <2>8 DEF TypeOK
      <3> QED BY <3>1, <3>2 DEF Inv, MirrorInv
    <2> QED BY <2>7, <2>8
  <1> QED BY <1>4, <1>6, <1>7, <1>8 DEF Inv

-----------------------------------------------------------------------------
(* The mirror. *)

LEMMA UnsyncedAre ==
    ASSUME TypeOK, NEW actors \in SUBSET Actor
    PROVE  /\ Unsynced(actors) \subseteq Key
           /\ \A b \in actors : "write" \in DOMAIN call[b] =>
                 call[b].write.key \in Unsynced(actors)
  <1>1. SyncingByWrite
    BY SyncingMeans
  <1>2. ASSUME NEW b \in actors, "write" \in DOMAIN call[b]
        PROVE  call[b].write.key \in Unsynced(actors)
    <2>1. call[b].write \in Write
      BY <1>2, CallParts DEF TypeOK
    <2>2. call[b].write.key \in Key
      BY <2>1 DEF Write
    <2> QED BY <1>1, <1>2, <2>2 DEF SyncingByWrite, Unsynced
  <1> QED BY <1>2 DEF Unsynced

(* A request that gives up leaves the key it was writing stale. *)
LEMMA GivesUpKeepsInv ==
    ASSUME Inv, NEW a \in Actor, call' = [call EXCEPT ![a] = Idle],
           stale' = stale \cup Unsynced({a}),
           UNCHANGED <<repository, activated, cached, index>>, IndexTypeOK'
    PROVE  Inv'
  <1>1. /\ Unsynced({a}) \subseteq Key
        /\ "write" \in DOMAIN call[a] => call[a].write.key \in Unsynced({a})
    BY UnsyncedAre DEF Inv
  <1>2. KeepsTrack(call[a], Idle)
    BY <1>1 DEF KeepsTrack, Idle
  <1>3. stale \subseteq stale' /\ stale' \subseteq Key
    BY <1>1 DEF Inv, TypeOK
  <1> QED BY <1>2, <1>3, IdleCall, CallStep

LEMMA FailKeepsInv ==
    ASSUME Inv, NEW a \in Actor, Fail(a)
    PROVE  Inv'
  BY GivesUpKeepsInv DEF Fail, Done, indexVars, Inv, TypeOK, IndexTypeOK

(* The embedding goes on to its second request, or to what it is for. *)
LEMMA AdvanceKeepsInv ==
    ASSUME Inv, NEW a \in Actor, call[a].pc \in {"embed", "embed_bare"},
           NEW pc, call' = [call EXCEPT ![a].pc = pc],
           \/ pc = "embed_bare"
           \/ pc = IF "write" \in DOMAIN call[a] THEN "sync" ELSE "search",
           UNCHANGED <<repository, activated, cached, index, stale>>, IndexTypeOK'
    PROVE  Inv'
  <1> DEFINE c == [call[a] EXCEPT !.pc = pc]
  <1>1. call[a] \in Call /\ CallInv(call[a]) /\ stale \subseteq Key
    BY DEF Inv, TypeOK
  <1>2. call' = [call EXCEPT ![a] = c]
    OBVIOUS
  <1>3. CASE "write" \in DOMAIN call[a]
    <2>1. call[a].write \in Write /\ Indexed(call[a].write.key) /\ pc \in Writing
      BY <1>1, <1>3, CallParts DEF CallInv, WriteInv, Writing
    <2>2. c = [pc |-> pc, write |-> call[a].write]
      BY <1>1, <1>3, GoesOn
    <2> HIDE DEF c
    <2>3. c \in Call /\ CallInv(c)
      BY <2>1, <2>2, WriteCalls, WriteCallInv
    <2>4. KeepsTrack(call[a], c)
      BY <1>3, <2>2 DEF KeepsTrack
    <2> QED BY <1>1, <1>2, <2>3, <2>4, CallStep
  <1>4. CASE "write" \notin DOMAIN call[a]
    <2>1. "load" \in DOMAIN call[a] /\ pc \in Loading /\ pc # "loaded"
      BY <1>1, <1>4, CallParts DEF Writing, Loading
    <2>2. /\ call[a].load \in Load
          /\ Active \subseteq call[a].load.live
          /\ \A key \in call[a].load.found : IsRule(key) => key \in call[a].load.live
      BY <1>1, <2>1, CallParts DEF CallInv, LoadInv
    <2>3. c = [pc |-> pc, load |-> call[a].load]
      BY <1>1, <2>1, GoesOn
    <2> HIDE DEF c
    <2>4. c \in Call /\ CallInv(c)
      BY <2>1, <2>2, <2>3, LoadCalls, LoadCallInv
    <2>5. KeepsTrack(call[a], c)
      BY <1>4, <2>3 DEF KeepsTrack
    <2> QED BY <1>1, <1>2, <2>4, <2>5, CallStep
  <1> QED BY <1>3, <1>4

LEMMA EmbedKeepsInv ==
    ASSUME Inv, NEW a \in Actor, Embed(a) \/ EmbedRejected(a) \/ EmbedBare(a)
    PROVE  Inv'
  <1>1. IndexTypeOK' /\ UNCHANGED <<repository, activated, cached, index>>
    BY DEF Embed, EmbedRejected, EmbedBare, Embeds, EmbedsAgain, StopsAsking, records,
           indexVars, Inv, TypeOK, IndexTypeOK
  <1>2. CASE Embed(a)
    BY <1>1, <1>2, AdvanceKeepsInv DEF Embed, Embedded, At, records
  <1>3. CASE EmbedRejected(a)
    BY <1>1, <1>3, AdvanceKeepsInv DEF EmbedRejected, At, records
  <1>4. CASE EmbedBare(a) /\ RightLength(FALSE)
    BY <1>1, <1>4, AdvanceKeepsInv DEF EmbedBare, Embedded, At
  <1>5. CASE EmbedBare(a) /\ ~RightLength(FALSE)
    BY <1>1, <1>5, GivesUpKeepsInv DEF EmbedBare, Done
  <1> QED BY <1>2, <1>3, <1>4, <1>5

(* The row is that of the record, unless the key is stale. *)
LEMMA SyncKeepsInv ==
    ASSUME Inv, NEW a \in Actor, SyncVector(a)
    PROVE  Inv'
  <1> DEFINE key == call[a].write.key
             record == call[a].write.record
  <1>1. /\ TypeOK /\ call[a] \in Call /\ "write" \in DOMAIN call[a]
        /\ call[a].write \in Write /\ Indexed(key)
    BY CallParts DEF SyncVector, At, Inv, TypeOK, CallInv, WriteInv
  <1>2. key \in Key /\ record \in MemoryRecord
    BY <1>1 DEF Write
  <1>3. /\ index' = [index EXCEPT ![key] = record]
        /\ call' = [call EXCEPT ![a] = Idle]
        /\ UNCHANGED <<repository, cached, stale, activated, model, asks, fits>>
    BY DEF SyncVector, UpsertRow, Done, records
  <1>4. /\ \A b \in Actor : CallInv(call[b])'
        /\ RulesAreActivated'
        /\ call' \in [Actor -> Call]
    BY <1>3, IdleCall, OthersKept
  <1> HIDE DEF key, record
  <1>5. TypeOK'
    <2>1. /\ index' \in [Key -> MemoryRecord \cup {None}]
          /\ \A k \in Key : IsRule(k) => index'[k] = None
      BY <1>1, <1>2, <1>3 DEF TypeOK, Indexed
    <2> QED BY <1>1, <1>3, <1>4, <2>1 DEF TypeOK, IndexTypeOK, IsRule
  <1>6. MirrorInv'
    <2>1. SyncingByWrite
      BY <1>1, SyncingMeans
    <2>2. SyncingByWrite'
      BY <1>5, SyncingMeans, PTL
    <2> SUFFICES ASSUME NEW k \in Key, Indexed(k), k \notin stale
                 PROVE  /\ Syncing(k)' = {} => index'[k] = repository[k]
                        /\ \A b, d \in Syncing(k)' : b = d
                        /\ \A b \in Syncing(k)' : call'[b].write.record = repository[k]
      BY <1>3 DEF MirrorInv, Indexed, IsRule
    <2>3. /\ Syncing(k) = {b \in Actor : "write" \in DOMAIN call[b] /\ call[b].write.key = k}
          /\ Syncing(k)' = {b \in Actor : "write" \in DOMAIN call'[b]
                                           /\ call'[b].write.key = k}
      BY <2>1, <2>2 DEF SyncingByWrite
    <2>4. /\ "write" \notin DOMAIN call'[a]
          /\ \A b \in Actor \ {a} : call'[b] = call[b]
      BY <1>1, <1>3 DEF TypeOK, Idle
    <2>5. Syncing(k)' = Syncing(k) \ {a}
      BY <2>3, <2>4
    <2>6. CASE k = key
      <3>1. a \in Syncing(k)
        BY <1>1, <2>3, <2>6 DEF key
      <3>2. Syncing(k)' = {} /\ record = repository[k]
        BY <2>5, <3>1 DEF Inv, MirrorInv, record
      <3>3. index'[k] = record
        BY <1>1, <1>2, <1>3, <2>6 DEF TypeOK
      <3> QED BY <3>2, <3>3
    <2>7. CASE k # key
      <3>1. index'[k] = index[k] /\ a \notin Syncing(k)
        BY <1>1, <1>2, <1>3, <2>3, <2>7 DEF TypeOK, key
      <3>2. Syncing(k)' = Syncing(k) /\ \A b \in Syncing(k) : call'[b] = call[b]
        BY <2>3, <2>4, <2>5, <3>1
      <3> QED BY <3>1, <3>2 DEF Inv, MirrorInv
    <2> QED BY <2>6, <2>7
  <1> QED BY <1>4, <1>5, <1>6 DEF Inv

(* A new table has no rows, and the keys of those it had are stale. *)
LEMMA CreateTableKeepsInv ==
    ASSUME Inv, NEW a \in Actor, CreateTable(a)
    PROVE  Inv'
  <1>1. /\ TypeOK /\ call[a] \in Call /\ call[a].pc = "ddl"
        /\ call[a].found \in BOOLEAN /\ "write" \notin DOMAIN call[a]
    BY CallParts DEF CreateTable, At, Inv, TypeOK, Writing
  <1>2. /\ index' = IF call[a].found THEN index ELSE [key \in Key |-> None]
        /\ stale' = IF call[a].found THEN stale ELSE stale \cup Rows
        /\ call' = [call EXCEPT ![a] = Idle]
        /\ cached' = TRUE /\ fits' = TRUE /\ asks' = AsksFirst(model)
        /\ UNCHANGED <<repository, activated, model>>
    BY <1>1 DEF CreateTable, EnsureSchema, Done, TypeOK
  <1>3. /\ \A b \in Actor : CallInv(call[b])'
        /\ RulesAreActivated'
        /\ call' \in [Actor -> Call]
    BY <1>2, IdleCall, OthersKept
  <1>4. TypeOK'
    <2>1. Rows \subseteq Key
      BY <1>1 DEF Rows, TypeOK
    <2>2. stale' \subseteq Key
      BY <1>1, <1>2, <2>1 DEF TypeOK
    <2>3. /\ index' \in [Key -> MemoryRecord \cup {None}]
          /\ \A k \in Key : IsRule(k) => index'[k] = None
      BY <1>1, <1>2 DEF TypeOK
    <2>4. IndexTypeOK'
      BY <1>1, <1>2 DEF TypeOK, IndexTypeOK, AsksFirst
    <2> QED BY <1>1, <1>2, <1>3, <2>2, <2>3, <2>4 DEF TypeOK, IsRule
  <1>5. MirrorInv'
    <2>1. SyncingByWrite
      BY <1>1, SyncingMeans
    <2>2. SyncingByWrite'
      BY <1>4, SyncingMeans, PTL
    <2>3. /\ "write" \notin DOMAIN call'[a]
          /\ \A b \in Actor \ {a} : call'[b] = call[b]
      BY <1>1, <1>2 DEF TypeOK, Idle
    <2>4. ASSUME NEW k \in Key, k \notin stale'
          PROVE  k \notin stale /\ index'[k] = index[k]
      BY <1>1, <1>2, <2>4 DEF Rows, TypeOK
    <2>5. ASSUME NEW k \in Key
          PROVE  Syncing(k)' = Syncing(k) /\ \A b \in Syncing(k) : call'[b] = call[b]
      <3>1. /\ Syncing(k) = {b \in Actor : "write" \in DOMAIN call[b]
                                            /\ call[b].write.key = k}
            /\ Syncing(k)' = {b \in Actor : "write" \in DOMAIN call'[b]
                                             /\ call'[b].write.key = k}
        BY <2>1, <2>2 DEF SyncingByWrite
      <3> QED BY <1>1, <2>3, <3>1
    <2> QED BY <1>2, <2>4, <2>5 DEF Inv, MirrorInv, Indexed, IsRule
  <1> QED BY <1>3, <1>4, <1>5 DEF Inv

(* Whatever a request was about to mirror is stale after a restart. *)
LEMMA RestartKeepsInv ==
    ASSUME Inv, Restart
    PROVE  Inv'
  <1>1. /\ call' = [a \in Actor |-> Idle]
        /\ stale' = stale \cup Unsynced(Actor)
        /\ cached' = FALSE /\ fits' \in {fits, FALSE} /\ asks' = AsksFirst(model)
        /\ UNCHANGED <<repository, activated, model, index>>
    BY DEF Restart, Reconfigure
  <1>2. /\ TypeOK /\ Unsynced(Actor) \subseteq Key
    BY UnsyncedAre DEF Inv
  <1>3. TypeOK'
    BY <1>1, <1>2, IdleCall DEF TypeOK, IndexTypeOK, AsksFirst, IsRule
  <1>4. (\A a \in Actor : CallInv(call[a]))'
    BY <1>1 DEF CallInv, GetInv, ByIdInv, PutInv, WriteInv, LoadInv, Idle
  <1>5. RulesAreActivated'
    BY <1>1 DEF Inv, RulesAreActivated, Active, IsRule
  <1>6. MirrorInv'
    <2>1. ASSUME NEW k \in Key PROVE Syncing(k)' = {}
      BY <1>1 DEF Syncing, Idle
    <2>2. ASSUME NEW k \in Key, k \notin stale' PROVE k \notin stale /\ Syncing(k) = {}
      <3>1. SyncingByWrite
        BY <1>2, SyncingMeans
      <3> QED BY <1>1, <2>2, <3>1 DEF Unsynced, SyncingByWrite
    <2> QED BY <1>1, <2>1, <2>2 DEF Inv, MirrorInv, Indexed, IsRule
  <1> QED BY <1>3, <1>4, <1>5, <1>6 DEF Inv

-----------------------------------------------------------------------------
(* The loads. *)

(* A load that moves to step q and holds the keys of found from then on. *)
Moved(from, q, found) == [from EXCEPT !.pc = q, !.load.found = found]

LEMMA LoadMoves ==
    ASSUME NEW from, NEW load, load \in Load, NEW q, NEW found,
           from = [pc |-> from.pc, load |-> load]
    PROVE  Moved(from, q, found) =
             [pc |-> q, load |-> [found |-> found, live |-> load.live]]
  <1> DEFINE moved == [from EXCEPT !.pc = q]
             filled == [moved.load EXCEPT !.found = found]
  <1>1. moved = [pc |-> q, load |-> load]
    OBVIOUS
  <1>2. [load EXCEPT !.found = found] = [found |-> found, live |-> load.live]
    BY DEF Load
  <1>3. filled = [found |-> found, live |-> load.live]
    BY <1>1, <1>2
  <1> HIDE DEF filled, moved
  <1>4. [moved EXCEPT !.load = filled] = [pc |-> q, load |-> filled]
    BY <1>1
  <1> QED BY <1>3, <1>4 DEF filled, moved, Moved

LEMMA SearchKeepsInv ==
    ASSUME Inv, NEW a \in Actor, Search(a)
    PROVE  Inv'
  <1>1. PICK hits \in SUBSET ActiveRows :
           call' = [call EXCEPT ![a].pc = "get_many", ![a].load.found = @ \cup hits]
    BY DEF Search
  <1>2. /\ call[a] \in Call /\ "load" \in DOMAIN call[a] /\ call[a].pc = "search"
        /\ call[a].load \in Load /\ call[a] = [pc |-> call[a].pc, load |-> call[a].load]
        /\ CallInv(call[a])
    BY CallParts DEF Search, At, Inv, TypeOK
  <1> DEFINE found == call[a].load.found \cup hits
             load == [found |-> found, live |-> call[a].load.live]
             c == [pc |-> "get_many", load |-> load]
  <1> HIDE DEF found
  <1>3. call' = [call EXCEPT ![a] = c]
    <2>1. call' = [call EXCEPT ![a] = Moved(call[a], "get_many", found)]
      BY <1>1, <1>2 DEF Inv, TypeOK, Moved, found
    <2>2. Moved(call[a], "get_many", found) = c
      <3>1. call[a].load \in Load /\ call[a] = [pc |-> call[a].pc, load |-> call[a].load]
        BY <1>2
      <3> QED BY <3>1, LoadMoves
    <2> QED BY <2>1, <2>2
  <1>4. hits \subseteq Key /\ \A key \in hits : ~IsRule(key)
    BY DEF ActiveRows, Rows, Inv, TypeOK
  <1>5. load \in Load
    BY <1>2, <1>4 DEF Load, found
  <1>6. /\ Active \subseteq load.live
        /\ \A key \in load.found : IsRule(key) => key \in load.live
    BY <1>2, <1>4 DEF CallInv, LoadInv, found
  <1> HIDE DEF load
  <1>7. c \in Call /\ CallInv(c) /\ "write" \notin DOMAIN c
    BY <1>5, <1>6, LoadCalls, LoadCallInv DEF Loading
  <1> HIDE DEF c
  <1>8. KeepsTrack(call[a], c)
    BY <1>2, <1>7, NoWriteKeepsTrack
  <1> QED BY <1>3, <1>7, <1>8, RecordsAlone DEF Search

(* What is read back from the records is what the request may use. *)
LEMMA GetManyKeepsInv ==
    ASSUME Inv, NEW a \in Actor, GetMany(a)
    PROVE  Inv'
  <1> DEFINE Usable(found) == {key \in found : IsRule(key) \/ key \in Active}
  <1>1. call' = [call EXCEPT ![a].pc = "loaded", ![a].load.found = Usable(@)]
    BY DEF GetMany
  <1>2. /\ call[a] \in Call /\ "load" \in DOMAIN call[a] /\ call[a].pc = "get_many"
        /\ call[a].load \in Load /\ call[a] = [pc |-> call[a].pc, load |-> call[a].load]
        /\ CallInv(call[a])
    BY CallParts DEF GetMany, At, Inv, TypeOK
  <1> DEFINE load == [found |-> Usable(call[a].load.found), live |-> call[a].load.live]
             c == [pc |-> "loaded", load |-> load]
  <1>4. /\ Usable(call[a].load.found) \subseteq call[a].load.found
        /\ Usable(call[a].load.found) \subseteq call[a].load.live
    BY <1>2 DEF CallInv, LoadInv
  <1> HIDE DEF Usable
  <1>3. call' = [call EXCEPT ![a] = c]
    <2>1. call' = [call EXCEPT ![a] = Moved(call[a], "loaded", Usable(call[a].load.found))]
      BY <1>1, <1>2 DEF Inv, TypeOK, Moved
    <2>2. Moved(call[a], "loaded", Usable(call[a].load.found)) = c
      <3>1. call[a].load \in Load /\ call[a] = [pc |-> call[a].pc, load |-> call[a].load]
        BY <1>2
      <3> QED BY <3>1, LoadMoves
    <2> QED BY <2>1, <2>2
  <1>5. load \in Load /\ load.found \subseteq load.live
    BY <1>2, <1>4 DEF Load
  <1> HIDE DEF load
  <1>6. c \in Call /\ CallInv(c) /\ "write" \notin DOMAIN c
    BY <1>5, LoadCalls, LoadCallInv DEF Loading
  <1> HIDE DEF c
  <1>7. KeepsTrack(call[a], c)
    BY <1>2, <1>6, NoWriteKeepsTrack
  <1> QED BY <1>3, <1>6, <1>7, RecordsAlone DEF GetMany

-----------------------------------------------------------------------------
(* The theorems. *)

LEMMA InitInv == Init => Inv
  <1> SUFFICES ASSUME Init PROVE Inv
    OBVIOUS
  <1> USE DEF Init, IndexInit
  <1>1. TypeOK
    BY IdleCall DEF TypeOK, IndexTypeOK, AsksFirst
  <1>2. \A a \in Actor : CallInv(call[a])
    BY IdleCall
  <1>3. RulesAreActivated
    BY DEF RulesAreActivated, Active
  <1>4. MirrorInv
    BY DEF MirrorInv, Syncing, Idle
  <1> QED BY <1>1, <1>2, <1>3, <1>4 DEF Inv

LEMMA NextKeepsInv == Inv /\ [Next]_vars => Inv'
  <1> SUFFICES ASSUME Inv, [Next]_vars PROVE Inv'
    OBVIOUS
  <1>1. ASSUME NEW a \in Actor, Begin(a) PROVE Inv'
    BY <1>1, BeginKeepsInv
  <1>2. ASSUME NEW a \in Actor, Step(a) PROVE Inv'
    <2>1. CASE BuildManager(a) \/ LookAtTable(a) \/ CreateTable(a)
      BY <2>1, BuildKeepsInv, CreateTableKeepsInv
    <2>2. CASE Refresh(a) \/ Upsert(a) \/ FileConflict(a) \/ GetById(a) \/ Put(a)
      BY <2>2, UpsertKeepsInv, GetByIdKeepsInv, PutKeepsInv
    <2>3. CASE Embed(a) \/ EmbedRejected(a) \/ EmbedBare(a) \/ SyncVector(a)
      BY <2>3, EmbedKeepsInv, SyncKeepsInv
    <2>4. CASE Search(a) \/ GetMany(a) \/ Fail(a)
      BY <2>4, SearchKeepsInv, GetManyKeepsInv, FailKeepsInv
    <2> QED BY <1>2, <2>1, <2>2, <2>3, <2>4 DEF Step
  <1>3. CASE Restart
    BY <1>3, RestartKeepsInv
  <1>4. CASE UNCHANGED vars
    <2> USE <1>4 DEF vars, indexVars
    <2>1. TypeOK'
      BY DEF Inv, TypeOK, IndexTypeOK, IsRule
    <2>2. (\A a \in Actor : CallInv(call[a]))'
      BY DEF Inv, CallInv, GetInv, ByIdInv, PutInv, WriteInv, LoadInv, Active, Indexed,
             IsRule, Contents, ProposedStatus
    <2>3. RulesAreActivated' /\ MirrorInv'
      BY DEF Inv, RulesAreActivated, MirrorInv, Active, Syncing, Indexed, IsRule
    <2> QED BY <2>1, <2>2, <2>3 DEF Inv
  <1> QED BY <1>1, <1>2, <1>3, <1>4 DEF Next

LEMMA MemoryInvariant == Spec => []Inv
  BY InitInv, NextKeepsInv, PTL DEF Spec

(* The records, the index and the calls of manager.py have their types, and *)
(* no rule is ever in the index.                                             *)
THEOREM MemoryTypeCorrect == Spec => []TypeOK
  <1>1. Inv => TypeOK
    BY DEF Inv
  <1> QED BY <1>1, MemoryInvariant, PTL

(* No interleaving of proposals, decisions, failures and restarts makes a    *)
(* rule active that no human has: the gate of _validate_candidate.           *)
THEOREM RulesNeedAHuman == Spec => []RulesAreActivated
  <1>1. Inv => RulesAreActivated
    BY DEF Inv
  <1> QED BY <1>1, MemoryInvariant, PTL

(* load_context never uses a memory that was inactive all the time since the *)
(* request began, however far the index lags behind the records.             *)
THEOREM LoadsOnlyTheLive == Spec => []LoadedWasLive
  <1>1. Inv => LoadedWasLive
    <2> SUFFICES ASSUME Inv, NEW a \in Actor, At(a, "loaded")
                 PROVE  call[a].load.found \subseteq call[a].load.live
      BY DEF LoadedWasLive
    <2>1. call[a] \in Call /\ CallInv(call[a]) /\ call[a].pc = "loaded"
      BY DEF Inv, TypeOK, At
    <2> QED BY <2>1, CallParts DEF CallInv, LoadInv
  <1> QED BY <1>1, MemoryInvariant, PTL

(* _sync_vector mirrors every record that is not known to be stale.          *)
THEOREM MirrorsTheSettled == Spec => []IndexMirrors
  <1>1. Inv => IndexMirrors
    BY DEF Inv, MirrorInv, IndexMirrors
  <1> QED BY <1>1, MemoryInvariant, PTL

(* An interaction that has seen an active rule under the key of its proposal *)
(* leaves that rule as it is: it refreshes it, or files the proposal beside. *)
THEOREM KeepsTheRulesItSees == Spec => RulesAreKept
  <1> DEFINE Kept(a) ==
        At(a, "put") /\ call'[a].pc # "put" /\ call[a].by = "llm" =>
            LET rule == <<call[a].key[1], None>>
                seen == call[a].seen
            IN IsRule(rule) /\ rule \in Active /\ seen = repository[rule]
                 => repository'[rule] = seen
  <1>1. Inv /\ [Next]_vars => [\A a \in Actor : Kept(a)]_vars
    <2> SUFFICES ASSUME Inv, Next, NEW a \in Actor,
                        At(a, "put"), call'[a].pc # "put", call[a].by = "llm",
                        IsRule(<<call[a].key[1], None>>),
                        <<call[a].key[1], None>> \in Active,
                        call[a].seen = repository[<<call[a].key[1], None>>]
                 PROVE  repository'[<<call[a].key[1], None>>] = call[a].seen
      OBVIOUS
    <2> DEFINE rule == <<call[a].key[1], None>>
               key == call[a].key
    <2>1. /\ call[a] \in Call /\ call[a].pc = "put" /\ key \in Key
          /\ repository \in [Key -> MemoryRecord \cup {None}]
          /\ rule \in Key /\ IsRule(key)
          /\ call[a].seen # None /\ call[a].seen.status = "active"
      BY CallParts DEF Inv, TypeOK, At, Active, IsRule
    <2>2. CASE UNCHANGED repository
      BY <2>2
    <2>3. CASE Put(a)
      <3>1. repository' = [repository EXCEPT ![key] = call[a].record]
        BY <2>3 DEF Put
      <3>2. CASE key = rule
        <4>1. key[2] = None
          BY <3>2
        <4>2. call[a].record = call[a].seen
          BY <2>1, <4>1 DEF Inv, CallInv, PutInv
        <4> QED BY <2>1, <3>1, <3>2, <4>2
      <3>3. CASE key # rule
        BY <2>1, <3>1, <3>3
      <3> QED BY <3>2, <3>3
    <2>4. ASSUME NEW b \in Actor, Put(b), b # a PROVE FALSE
      <3>1. call'[a] = SeenBy(a, call[b].key, call[b].record) /\ call[b].key \in Key
        <4>1. call[b] \in Call /\ call[b].pc = "put"
          BY <2>4 DEF Put, At, Inv, TypeOK
        <4> QED BY <2>4, <4>1, CallParts DEF Put
      <3> QED BY <2>1, <3>1, SeenByType
    <2>5. ASSUME NEW b \in Actor, Begin(b) PROVE UNCHANGED repository
      BY <2>5 DEF Begin, Propose, PutMemory, UpdateStatus, LoadContext, Upserts, Begins,
                  records
    <2>6. ASSUME NEW b \in Actor, Step(b) PROVE Put(b) \/ UNCHANGED repository
      BY <2>6 DEF Step, BuildManager, LookAtTable, CreateTable, Refresh, Upsert,
                  FileConflict, GetById, Writes, Embed, EmbedRejected, EmbedBare,
                  SyncVector, Search, GetMany, Fail, records
    <2>7. Restart => UNCHANGED repository
      BY DEF Restart
    <2> QED BY <2>2, <2>3, <2>4, <2>5, <2>6, <2>7 DEF Next
  <1> QED BY <1>1, MemoryInvariant, PTL DEF Spec, RulesAreKept
=============================================================================

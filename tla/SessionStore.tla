---------------------------- MODULE SessionStore ----------------------------
(***************************************************************************)
(* The session store of api/store.py that several workers share, as        *)
(* api/app.py calls it: before every operation _active_store gives the     *)
(* store the occasion to sweep the rows older than the session TTL.        *)
(*                                                                         *)
(* Two backends implement it.  SqliteStore (AGENT_STORE=sqlite) keeps the  *)
(* rows in a file: a claim and an append are transactions of several       *)
(* statements.  MongoSessionStore (AGENT_STORE=mongodb) makes each of them *)
(* one operation on a document.                                            *)
(*                                                                         *)
(* The databases are external.  SQLite: a statement sees the last commit,  *)
(* one write transaction is open at a time, a waiting writer may time out, *)
(* and what is not committed is rolled back when its process dies.         *)
(* MongoDB: an operation on one document is atomic, and may fail before or *)
(* after its effect.                                                       *)
(*                                                                         *)
(* The approvals table stands for table_context too, which has the same    *)
(* operations except for the claim.                                        *)
(***************************************************************************)
EXTENDS Integers, Sequences

CONSTANTS
    Backends,       \* the settings of AGENT_STORE that are considered
    Worker,         \* server processes
    Thread,         \* their threads
    Home,           \* the worker of a thread
    Session,        \* session ids
    None,           \* no row, or nobody
    Ttl,            \* AGENT_SESSION_TTL_SECONDS, 0 for never
    PurgeInterval,  \* _PURGE_INTERVAL_SECONDS
    MaxMessages,    \* MAX_MEMORY_MESSAGES
    MaxValues,      \* bound: approvals and messages ever stored
    Kept,           \* messages the file holds from before
    Start,          \* the time of the first request
    End,            \* bound: the time of the last one
    Ops             \* bound: which operations the threads use

Op == {"get", "set", "pop", "claim", "append"}
Value == 1 .. MaxValues
Time == Start .. End

(* The throttle of the sweep: at most once in this time. *)
Period == IF PurgeInterval < Ttl THEN PurgeInterval ELSE Ttl

ASSUME Parameters ==
    /\ Backends \subseteq {"sqlite", "mongodb"}
    /\ Home \in [Thread -> Worker]
    /\ None \notin Value \cup Thread \cup Time
    /\ Ttl \in Nat /\ PurgeInterval \in Nat /\ MaxMessages \in Nat \ {0}
    /\ MaxValues \in Nat /\ Kept \in 0 .. MaxValues /\ Kept <= MaxMessages
    /\ Start \in Nat /\ End \in Nat /\ Start <= End /\ Period <= Start
    /\ Ops \subseteq Op

VARIABLES
    backend,    \* settings.agent_store
    approvals,  \* committed rows: the approval of a session
    sessions,   \* committed rows: the messages of a session
    writer,     \* the thread whose write transaction is open
    lastPurge,  \* _last_purge of the store object of a worker
    clock,      \* time.time()
    call,       \* what each thread is doing
    values,     \* approvals and messages stored so far
    stored,     \* history: approvals committed
    claimed,    \* history: how often a claim has returned an approval
    log         \* history: messages committed to the row of a session

vars == <<backend, approvals, sessions, writer, lastPurge, clock, call, values,
          stored, claimed, log>>

Row == [data : Value, updated : Time]
Messages == [messages : Seq(Value), updated : Time]

ASSUME NoneIsNoRow == None \notin Row /\ None \notin Messages

(* at: the time of the call's sweep, if it makes one, then that of its row;  *)
(* value: what it stores; row: what its SELECT has read.                     *)
Idle == [pc |-> "idle"]
Call ==
    [pc : {"idle"}]
    \cup [pc : {"mark", "sweep", "sweep2", "operate", "select", "write", "send"},
          op : Op, session : Session, at : Time \cup {None},
          value : Value \cup {None},
          row : Row \cup Messages \cup {None}]

(* The database outlives the workers: a history may be there from before.      *)
Earlier == [i \in 1 .. Kept |-> i]

Init ==
    /\ backend \in Backends
    /\ approvals = [s \in Session |-> None]
    /\ sessions = [s \in Session |-> IF Kept = 0 THEN None
                    ELSE [messages |-> Earlier, updated |-> Start]]
    /\ writer = None
    /\ lastPurge = [w \in Worker |-> 0]
    /\ clock = Start
    /\ call = [t \in Thread |-> Idle]
    /\ values = Kept
    /\ stored = {}
    /\ claimed = [v \in Value |-> 0]
    /\ log = [s \in Session |-> Earlier]

At(t, pc) == call[t].pc = pc
Goto(t, pc) == call' = [call EXCEPT ![t].pc = pc]
Return(t) == call' = [call EXCEPT ![t] = Idle]

rows == <<backend, approvals, sessions, log>>
history == <<values, stored, claimed>>

Tick ==
    /\ clock < End
    /\ clock' = clock + 1
    /\ UNCHANGED <<rows, writer, lastPurge, call, history>>

-----------------------------------------------------------------------------
(* purge_expired, called by _active_store before the operation. *)

Throttled(t) ==
    Ttl = 0 \/ clock - lastPurge[Home[t]] < Period

(* A handler calls an operation; the time is read, and compared with that of *)
(* the last sweep.                                                           *)
Begin(t, op, s) ==
    LET value == IF op \in {"set", "append"} THEN values + 1 ELSE None IN
    /\ At(t, "idle")
    /\ op \in {"set", "append"} => values < MaxValues
    /\ call' = [call EXCEPT ![t] =
                  [pc |-> IF Throttled(t) THEN "operate" ELSE "mark",
                   op |-> op, session |-> s,
                   at |-> IF Throttled(t) THEN None ELSE clock,
                   value |-> value, row |-> None]]
    /\ values' = IF value = None THEN values ELSE value
    /\ UNCHANGED <<rows, writer, lastPurge, clock, stored, claimed>>

(* The sweep is booked before it is done. *)
MarkPurge(t) ==
    /\ At(t, "mark")
    /\ lastPurge' = [lastPurge EXCEPT ![Home[t]] = call[t].at]
    /\ Goto(t, "sweep")
    /\ UNCHANGED <<rows, writer, clock, history>>

(* Bug to catch: every row written before the check is expired. *)
Expired_Now(row, at) == row # None /\ row.updated < at

Expired(row, at) == row # None /\ row.updated < at - Ttl

(* SQLite lets one write transaction in at a time. *)
Writable == writer = None

(* The sweep deletes table by table, each on its own; first the messages. *)
Sweep(t) ==
    LET at == call[t].at IN
    /\ At(t, "sweep")
    /\ Writable
    /\ Goto(t, "sweep2")
    /\ sessions' = [s \in Session |-> IF Expired(sessions[s], at) THEN None
                                      ELSE sessions[s]]
    /\ log' = [s \in Session |-> IF Expired(sessions[s], at) THEN <<>> ELSE log[s]]
    /\ UNCHANGED <<backend, approvals, writer, lastPurge, clock, history>>

SweepApprovals(t) ==
    LET at == call[t].at IN
    /\ At(t, "sweep2")
    /\ Writable
    /\ call' = [call EXCEPT ![t].pc = "operate", ![t].at = None]
    /\ approvals' = [s \in Session |-> IF Expired(approvals[s], at) THEN None
                                       ELSE approvals[s]]
    /\ UNCHANGED <<backend, sessions, log, writer, lastPurge, clock, history>>

-----------------------------------------------------------------------------
(* The operations. *)

(* get_approval, get_table_context: a read takes no lock. *)
Get(t) ==
    /\ At(t, "operate")
    /\ call[t].op = "get"
    /\ Return(t)
    /\ UNCHANGED <<rows, writer, lastPurge, clock, history>>

(* The time of the row is an argument of the one statement that writes it:  *)
(* it is read before the database is waited for.                            *)
Stamp(t) ==
    /\ At(t, "operate")
    /\ call[t].op = "set" \/ (call[t].op = "append" /\ backend = "mongodb")
    /\ call' = [call EXCEPT ![t].pc = "send", ![t].at = clock]
    /\ UNCHANGED <<rows, writer, lastPurge, clock, history>>

(* set_approval: one statement, its own transaction. *)
Set(t) ==
    LET s == call[t].session IN
    /\ At(t, "send")
    /\ call[t].op = "set"
    /\ Writable
    /\ approvals' = [approvals EXCEPT ![s] = [data |-> call[t].value,
                                              updated |-> call[t].at]]
    /\ stored' = stored \cup {call[t].value}
    /\ Return(t)
    /\ UNCHANGED <<backend, sessions, log, writer, lastPurge, clock, values, claimed>>

(* pop_approval *)
Pop(t) ==
    /\ At(t, "operate")
    /\ call[t].op = "pop"
    /\ Writable
    /\ approvals' = [approvals EXCEPT ![call[t].session] = None]
    /\ Return(t)
    /\ UNCHANGED <<backend, sessions, log, writer, lastPurge, clock, history>>

(* Bug to catch: a deferred BEGIN reads before it has the write lock. *)
BeginImmediate_Deferred(t) ==
    /\ At(t, "operate")
    /\ backend = "sqlite"
    /\ call[t].op \in {"claim", "append"}
    /\ Goto(t, "select")
    /\ UNCHANGED <<rows, writer, lastPurge, clock, history>>

(* claim_approval and append_message: BEGIN IMMEDIATE takes the write lock *)
(* before the SELECT.                                                      *)
BeginImmediate(t) ==
    /\ At(t, "operate")
    /\ backend = "sqlite"
    /\ call[t].op \in {"claim", "append"}
    /\ Writable
    /\ writer' = t
    /\ Goto(t, "select")
    /\ UNCHANGED <<rows, lastPurge, clock, history>>

Select(t) ==
    LET s == call[t].session IN
    /\ At(t, "select")
    /\ call' = [call EXCEPT ![t].pc = "write",
                            ![t].row = IF call[t].op = "claim" THEN approvals[s]
                                       ELSE sessions[s]]
    /\ UNCHANGED <<rows, writer, lastPurge, clock, history>>

Release(t) == writer' = IF writer = t THEN None ELSE writer

(* What the history records of a claim that returns this row. *)
Taken(row) ==
    IF row = None THEN claimed ELSE [claimed EXCEPT ![row.data] = @ + 1]

(* DELETE and COMMIT *)
CommitClaim(t) ==
    LET row == call[t].row IN
    /\ At(t, "write")
    /\ call[t].op = "claim"
    /\ approvals' = [approvals EXCEPT ![call[t].session] = None]
    /\ claimed' = Taken(row)
    /\ Release(t)
    /\ Return(t)
    /\ UNCHANGED <<backend, sessions, log, lastPurge, clock, values, stored>>

(* Bug to catch: one message too many is kept. *)
Last_OneMore(messages, n) ==
    IF Len(messages) <= n + 1 THEN messages
    ELSE SubSeq(messages, Len(messages) - n, Len(messages))

Last(messages, n) ==
    IF Len(messages) <= n THEN messages
    ELSE SubSeq(messages, Len(messages) - n + 1, Len(messages))

(* INSERT ... ON CONFLICT DO UPDATE and COMMIT *)
CommitAppend(t) ==
    LET s == call[t].session
        read == IF call[t].row = None THEN <<>> ELSE call[t].row.messages
    IN
    /\ At(t, "write")
    /\ call[t].op = "append"
    /\ sessions' = [sessions EXCEPT ![s] =
                      [messages |-> Last(Append(read, call[t].value), MaxMessages),
                       updated |-> clock]]
    /\ log' = [log EXCEPT ![s] = Append(@, call[t].value)]
    /\ Release(t)
    /\ Return(t)
    /\ UNCHANGED <<backend, approvals, lastPurge, clock, history>>

(* "database is locked" after the busy timeout; the request fails, whatever *)
(* it has booked.                                                           *)
BusyTimeout(t) ==
    /\ backend = "sqlite"
    /\ \/ call[t].pc \in {"sweep", "sweep2"}
       \/ At(t, "operate") /\ call[t].op \in {"pop", "claim", "append"}
       \/ At(t, "send")
    /\ ~ Writable
    /\ Return(t)
    /\ UNCHANGED <<rows, writer, lastPurge, clock, history>>

(* Bug to catch: the document is read and then deleted, so that another *)
(* worker may have deleted it in between.                               *)
ClaimDocument_ReadFirst(t) ==
    LET s == call[t].session
        read == call[t].row
    IN
    /\ At(t, "operate")
    /\ backend = "mongodb"
    /\ call[t].op = "claim"
    /\ \/ /\ read = None
          /\ approvals[s] # None
          /\ call' = [call EXCEPT ![t].row = approvals[s]]
          /\ UNCHANGED <<approvals, claimed>>
       \/ /\ read # None
          /\ approvals' = [approvals EXCEPT ![s] = None]
          /\ claimed' = Taken(read)
          /\ Return(t)
    /\ UNCHANGED <<backend, sessions, log, writer, lastPurge, clock, values, stored>>

(* claim_approval: find_one_and_delete *)
ClaimDocument(t) ==
    LET s == call[t].session IN
    /\ At(t, "operate")
    /\ backend = "mongodb"
    /\ call[t].op = "claim"
    /\ approvals' = [approvals EXCEPT ![s] = None]
    /\ claimed' = Taken(approvals[s])
    /\ Return(t)
    /\ UNCHANGED <<backend, sessions, log, writer, lastPurge, clock, values, stored>>

(* append_message: find_one_and_update with $push, $each and $slice *)
PushMessage(t) ==
    LET s == call[t].session
        found == IF sessions[s] = None THEN <<>> ELSE sessions[s].messages
    IN
    /\ At(t, "send")
    /\ backend = "mongodb"
    /\ call[t].op = "append"
    /\ sessions' = [sessions EXCEPT ![s] =
                      [messages |-> Last(Append(found, call[t].value), MaxMessages),
                       updated |-> call[t].at]]
    /\ log' = [log EXCEPT ![s] = Append(@, call[t].value)]
    /\ Return(t)
    /\ UNCHANGED <<backend, approvals, writer, lastPurge, clock, history>>

(* MongoDB is not reached, neither by the operation nor by the sweep: the  *)
(* exception leaves the store and fails the request.                       *)
Unreachable(t) ==
    /\ backend = "mongodb"
    /\ call[t].pc \in {"sweep", "sweep2", "operate", "send"}
    /\ Return(t)
    /\ UNCHANGED <<rows, writer, lastPurge, clock, history>>

(* The connection is lost after the effect: find_one_and_delete has deleted *)
(* the approval, and nobody gets it.                                        *)
ClaimReplyLost(t) ==
    LET s == call[t].session IN
    /\ At(t, "operate")
    /\ backend = "mongodb"
    /\ call[t].op = "claim"
    /\ approvals' = [approvals EXCEPT ![s] = None]
    /\ Return(t)
    /\ UNCHANGED <<backend, sessions, log, writer, lastPurge, clock, history>>

(* A worker dies and is started again. *)
Restart(w) ==
    /\ call' = [t \in Thread |-> IF Home[t] = w THEN Idle ELSE call[t]]
    /\ writer' = IF writer # None /\ Home[writer] = w THEN None ELSE writer
    /\ lastPurge' = [lastPurge EXCEPT ![w] = 0]
    /\ UNCHANGED <<rows, clock, history>>

-----------------------------------------------------------------------------
ThreadStep(t) ==
    \/ MarkPurge(t) \/ Sweep(t) \/ SweepApprovals(t)
    \/ Get(t) \/ Stamp(t) \/ Set(t) \/ Pop(t)
    \/ BeginImmediate(t) \/ Select(t) \/ CommitClaim(t) \/ CommitAppend(t)
    \/ ClaimDocument(t) \/ PushMessage(t) \/ ClaimReplyLost(t)

Next ==
    \/ Tick
    \/ \E t \in Thread :
         \/ \E op \in Ops, s \in Session : Begin(t, op, s)
         \/ ThreadStep(t)
         \/ BusyTimeout(t)
         \/ Unreachable(t)
    \/ \E w \in Worker : Restart(w)

Spec == Init /\ [][Next]_vars

-----------------------------------------------------------------------------
TypeOK ==
    /\ backend \in Backends
    /\ approvals \in [Session -> Row \cup {None}]
    /\ sessions \in [Session -> Messages \cup {None}]
    /\ \A s \in Session :
         sessions[s] # None => Len(sessions[s].messages) \in 1 .. MaxMessages
    /\ writer \in Thread \cup {None}
    /\ backend = "mongodb" => writer = None
    /\ lastPurge \in [Worker -> Time \cup {0}]
    /\ clock \in Time
    /\ call \in [Thread -> Call]
    /\ values \in 0 .. MaxValues
    /\ stored \subseteq Value
    /\ claimed \in [Value -> Nat]
    /\ {v \in Value : claimed[v] > 0} \subseteq stored

(* The row of a session holds the last messages that were appended, whatever *)
(* the other workers append meanwhile: no append of append_message is lost,  *)
(* none is kept twice.                                                       *)
HistoryIsRecent ==
    \A s \in Session :
        (IF sessions[s] = None THEN <<>> ELSE sessions[s].messages)
            = Last(log[s], MaxMessages)

(* The sweep of one worker deletes nothing that another has refreshed: a row *)
(* goes by a decision, or because it is older than the TTL.                  *)
FreshSurvives ==
    [][\A s \in Session : approvals[s] # None /\ approvals'[s] = None =>
          \/ Ttl > 0 /\ clock - approvals[s].updated > Ttl
          \/ \E t \in Thread : /\ call[t].pc \in {"operate", "write"}
                                /\ call[t].op \in {"pop", "claim"}
                                /\ call[t].session = s]_vars

(* The life of a stored approval.  No step of the contract leads to an *)
(* approval that was claimed twice.                                    *)
ReviewStatus ==
    [v \in Value |->
        IF claimed[v] > 1 THEN "claimed twice"
        ELSE IF claimed[v] = 1 THEN "claimed"
        ELSE IF \E s \in Session : approvals[s] # None /\ approvals[s].data = v
             THEN "pending"
        ELSE IF v \in stored THEN "dropped" ELSE "unsubmitted"]

Contract == INSTANCE ReviewContract WITH Review <- Value, status <- ReviewStatus

(* The transactions of all workers together implement the take-once contract *)
(* of the approval slot: "two concurrent approve requests must not both see   *)
(* the pending SQL" (comment in claim_approval).                              *)
TakeOnce == Contract!Spec
=============================================================================

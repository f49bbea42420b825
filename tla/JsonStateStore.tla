--------------------------- MODULE JsonStateStore ---------------------------
(***************************************************************************)
(* The default (AGENT_STORE=memory) session store of api/app.py: two dicts *)
(* of the process, the pending approvals and the table contexts, saved     *)
(* together into one JSON file, so that they survive a restart.  The       *)
(* handler threads share the dicts and _STATE_LOCK.                        *)
(*                                                                         *)
(* A save serializes the dicts item by item under the lock; the lock does  *)
(* not keep other threads from assigning to the dicts meanwhile, and a     *)
(* dict that changes its size while it is iterated raises RuntimeError.    *)
(*                                                                         *)
(* Reading and writing the file may fail.  A write that fails raises; the  *)
(* dicts keep what they were to save.  A read that fails is swallowed, and *)
(* the process starts with empty dicts beside a file that is not.          *)
(***************************************************************************)
EXTENDS FiniteSets, Integers

CONSTANTS
    Thread,     \* threads of the server that use the store
    Session,    \* session ids
    None,       \* no entry
    MaxValues,  \* bound: how many values are ever stored
    MaxCrashes  \* bound: how often the process dies

ASSUME Bounds ==
    /\ MaxValues \in Nat /\ MaxCrashes \in Nat
    /\ None \notin 1 .. MaxValues

(* None is no thread: a free lock has no holder. *)
ASSUME NoneIsNobody == None \notin Thread

Table == {"approvals", "context"}

(* An entry of a dict; values are distinct, numbered in the order of storing. *)
Cell == Table \X Session
Value == 1 .. MaxValues
Contents == [Cell -> Value \cup {None}]
Empty == [c \in Cell |-> None]

(* The operations of a handler, app.py _set_*, _pop_* and _claim_approval.   *)
(* Only those on approvals that remove take the lock before they touch the   *)
(* dict.                                                                     *)
Op == {"set", "pop", "claim"}
OpOn(op, c) == op = "claim" => c[1] = "approvals"
Locked(op, c) == c[1] = "approvals" /\ op \in {"pop", "claim"}

VARIABLES
    memory,     \* PENDING_SQL_APPROVALS, PENDING_TABLE_CONTEXT
    loaded,     \* STATE_LOADED
    disk,       \* the JSON file
    lock,       \* the thread in _STATE_LOCK, or None
    task,       \* what each thread is doing
    values,     \* values stored so far
    crashes,    \* restarts so far
    claimed,    \* history: values returned by a claim
    settled,    \* history: what the last operation on the cell has left there, if
                \* it has returned: no value or one
    unread,     \* history: cells of a file that a process could not read
    unsaved     \* history: the last read or write of the file has failed

faults == <<unread, unsaved>>
vars == <<memory, loaded, disk, lock, task, values, crashes, claimed, settled, faults>>

(* value: what a set stores or a claim has popped; table, size, left, copy: the serialization *)
(* under way: the dict being iterated, its size when the iteration began, the *)
(* entries still to come and what has been read.                              *)
Idle == [pc |-> "idle"]
Task ==
    [pc : {"idle"}]
    \cup [pc : {"mutate", "acquire", "open", "items", "replace"}, op : Op,
          cell : Cell, value : Value \cup {None}, table : Table, size : Nat,
          left : SUBSET Cell, copy : Contents]

Entries(table) == {c \in Cell : c[1] = table /\ memory[c] # None}

Init ==
    /\ memory = Empty
    /\ loaded = FALSE
    /\ disk = Empty
    /\ lock = None
    /\ task = [t \in Thread |-> Idle]
    /\ values = 0
    /\ crashes = 0
    /\ claimed = {}
    /\ settled = [c \in Cell |-> {None}]
    /\ unread = {}
    /\ unsaved = FALSE

-----------------------------------------------------------------------------
(* Bug to catch: only the approvals are read back. *)
Load_NoContext ==
    /\ ~loaded
    /\ lock = None
    /\ loaded' = TRUE
    /\ memory' = [c \in Cell |-> IF c[1] = "approvals" THEN disk[c] ELSE None]
    /\ UNCHANGED <<disk, lock, task, values, crashes, claimed, settled, faults>>

(* Bug to catch: the dicts get the entries of the file and no others. *)
Load_Sparse ==
    /\ ~loaded
    /\ lock = None
    /\ loaded' = TRUE
    /\ memory' = [c \in {x \in Cell : disk[x] # None} |-> disk[c]]
    /\ UNCHANGED <<disk, lock, task, values, crashes, claimed, settled, faults>>

(* _load_state, from the first _get_approval of the process: every handler  *)
(* begins with one, so the other operations find the state loaded.          *)
Load ==
    /\ ~loaded
    /\ lock = None
    /\ loaded' = TRUE
    /\ memory' = disk
    /\ UNCHANGED <<disk, lock, task, values, crashes, claimed, settled, faults>>

(* OSError: the dicts stay empty, and the read is not tried again. *)
LoadFails ==
    /\ ~loaded
    /\ lock = None
    /\ disk # Empty
    /\ loaded' = TRUE
    /\ unread' = unread \cup {c \in Cell : disk[c] # None}
    /\ unsaved' = TRUE
    /\ UNCHANGED <<memory, disk, lock, task, values, crashes, claimed, settled>>

Step(t, pc) == task' = [task EXCEPT ![t].pc = pc]

Start(t, op, c) ==
    /\ loaded
    /\ task[t].pc = "idle"
    /\ OpOn(op, c)
    /\ op = "set" => values < MaxValues
    /\ task' = [task EXCEPT ![t] =
                  [pc |-> IF Locked(op, c) THEN "acquire" ELSE "mutate",
                   op |-> op, cell |-> c, table |-> "approvals", size |-> 0,
                   value |-> IF op = "set" THEN values + 1 ELSE None,
                   left |-> {}, copy |-> Empty]]
    /\ values' = IF op = "set" THEN values + 1 ELSE values
    /\ settled' = [settled EXCEPT ![c] = {}]
    /\ unread' = unread \ {c}
    /\ UNCHANGED <<memory, loaded, disk, lock, crashes, claimed, unsaved>>

(* The assignment of a set, or the pop of a context, that runs before the lock is taken. *)
MutateUnlocked(t) ==
    /\ task[t].pc = "mutate"
    /\ Step(t, "acquire")
    /\ memory' = [memory EXCEPT ![task[t].cell] = task[t].value]
    /\ UNCHANGED <<loaded, disk, lock, values, crashes, claimed, settled, faults>>

(* The other operations start in _save_state's lock here. *)
Acquire(t) ==
    /\ task[t].pc = "acquire"
    /\ ~Locked(task[t].op, task[t].cell)
    /\ lock = None
    /\ lock' = t
    /\ Step(t, "open")
    /\ UNCHANGED <<memory, loaded, disk, values, crashes, claimed, settled, faults>>

(* Bug to catch: a claim gets the approval, but does not pop it. *)
AcquireAndRemove_Gets(t) ==
    LET c == task[t].cell IN
    /\ task[t].pc = "acquire"
    /\ Locked(task[t].op, c)
    /\ lock = None
    /\ IF task[t].op = "claim" /\ memory[c] = None
       THEN /\ task' = [task EXCEPT ![t] = Idle]
            /\ UNCHANGED lock
       ELSE /\ lock' = t
            /\ task' = [task EXCEPT ![t].pc = "open", ![t].value = memory[c]]
    /\ UNCHANGED <<memory, loaded, disk, values, crashes, claimed, settled, faults>>

(* A claim of an empty slot saves nothing. *)
AcquireAndRemove(t) ==
    LET c == task[t].cell IN
    /\ task[t].pc = "acquire"
    /\ Locked(task[t].op, c)
    /\ lock = None
    /\ memory' = [memory EXCEPT ![c] = None]
    /\ IF task[t].op = "claim" /\ memory[c] = None
       THEN /\ task' = [task EXCEPT ![t] = Idle]
            /\ UNCHANGED lock
       ELSE /\ lock' = t
            /\ task' = [task EXCEPT ![t].pc = "open", ![t].value = memory[c]]
    /\ UNCHANGED <<loaded, disk, values, crashes, claimed, settled, faults>>

(* json.dumps opens the iteration of one of the dicts ... *)
OpenTable(t) ==
    /\ task[t].pc = "open"
    /\ task' = [task EXCEPT ![t].pc = "items",
                            ![t].size = Cardinality(Entries(task[t].table)),
                            ![t].left = Entries(task[t].table)]
    /\ UNCHANGED <<memory, loaded, disk, lock, values, crashes, claimed, settled, faults>>

SameSize(t) == Cardinality(Entries(task[t].table)) = task[t].size

(* ... reads its entries one by one, perhaps also one that came meanwhile ... *)
DumpItem(t, c) ==
    /\ task[t].pc = "items"
    /\ SameSize(t)
    /\ \/ c \in task[t].left
       \/ c \in Entries(task[t].table) /\ task[t].copy[c] = None
    /\ task' = [task EXCEPT ![t].left = @ \ {c}, ![t].copy[c] = memory[c]]
    /\ UNCHANGED <<memory, loaded, disk, lock, values, crashes, claimed, settled, faults>>

(* Bug to catch: the snapshot is written after the lock was released. *)
CloseTable_Unlocks(t) ==
    /\ task[t].pc = "items"
    /\ SameSize(t)
    /\ task[t].left = {}
    /\ IF task[t].table = "approvals"
       THEN /\ task' = [task EXCEPT ![t].pc = "open", ![t].table = "context"]
            /\ UNCHANGED lock
       ELSE /\ task' = [task EXCEPT ![t].pc = "replace"]
            /\ lock' = None
    /\ UNCHANGED <<memory, loaded, disk, values, crashes, claimed, settled, faults>>

(* ... and goes on with the next dict. *)
CloseTable(t) ==
    /\ task[t].pc = "items"
    /\ SameSize(t)
    /\ task[t].left = {}
    /\ task' = IF task[t].table = "approvals"
               THEN [task EXCEPT ![t].pc = "open", ![t].table = "context"]
               ELSE [task EXCEPT ![t].pc = "replace"]
    /\ UNCHANGED <<memory, loaded, disk, lock, values, crashes, claimed, settled, faults>>

(* RuntimeError: dictionary changed size during iteration.  The operation    *)
(* raises; what it did to the dict stays done.                               *)
DumpRaises(t) ==
    /\ task[t].pc = "items"
    /\ ~SameSize(t)
    /\ lock' = None
    /\ task' = [task EXCEPT ![t] = Idle]
    /\ UNCHANGED <<memory, loaded, disk, values, crashes, claimed, settled, faults>>

(* Operations of other threads on the same cell are under way. *)
Contended(t) ==
    \E u \in Thread \ {t} : task[u].pc # "idle" /\ task[u].cell = task[t].cell

Return(t) ==
    /\ task' = [task EXCEPT ![t] = Idle]
    /\ claimed' = IF task[t].op = "claim" THEN claimed \cup {task[t].value} ELSE claimed
    /\ settled' = [settled EXCEPT ![task[t].cell] =
                      IF Contended(t) THEN {} ELSE {memory[task[t].cell]}]

(* _atomic_write: the temporary file becomes the state file; the operation  *)
(* releases the lock and returns.                                           *)
Replace(t) ==
    /\ task[t].pc = "replace"
    /\ disk' = task[t].copy
    /\ lock' = IF lock = t THEN None ELSE lock
    /\ Return(t)
    /\ unsaved' = FALSE
    /\ UNCHANGED <<memory, loaded, values, crashes, unread>>

(* OSError of _atomic_write: the file stays, the operation raises, and what  *)
(* it did to the dict stays done.                                            *)
WriteRaises(t) ==
    /\ task[t].pc = "replace"
    /\ lock' = IF lock = t THEN None ELSE lock
    /\ task' = [task EXCEPT ![t] = Idle]
    /\ unsaved' = TRUE
    /\ UNCHANGED <<memory, loaded, disk, values, crashes, claimed, settled, unread>>

(* The process dies and a new one starts with empty dicts. *)
Crash ==
    /\ crashes < MaxCrashes
    /\ crashes' = crashes + 1
    /\ memory' = Empty
    /\ loaded' = FALSE
    /\ lock' = None
    /\ task' = [t \in Thread |-> Idle]
    /\ unsaved' = FALSE
    /\ UNCHANGED <<disk, values, claimed, settled, unread>>

-----------------------------------------------------------------------------
ThreadStep(t) ==
    \/ MutateUnlocked(t) \/ Acquire(t) \/ AcquireAndRemove(t) \/ OpenTable(t)
    \/ \E c \in Cell : DumpItem(t, c)
    \/ CloseTable(t) \/ DumpRaises(t) \/ Replace(t) \/ WriteRaises(t)

Next ==
    \/ Load \/ LoadFails
    \/ \E t \in Thread :
         \/ \E op \in Op, c \in Cell : Start(t, op, c)
         \/ ThreadStep(t)
    \/ Crash

Spec == Init /\ [][Next]_vars

-----------------------------------------------------------------------------
TypeOK ==
    /\ memory \in Contents
    /\ loaded \in BOOLEAN
    /\ disk \in Contents
    /\ lock \in Thread \cup {None}
    /\ task \in [Thread -> Task]
    /\ values \in 0 .. MaxValues
    /\ crashes \in 0 .. MaxCrashes
    /\ claimed \subseteq Value \cup {None}
    /\ settled \in [Cell -> SUBSET (Value \cup {None})]
    /\ unread \subseteq Cell
    /\ unsaved \in BOOLEAN

(* An approval that a claim has returned is gone from the dict and from the  *)
(* file, so that no later claim and no restart brings it back: the snapshot  *)
(* of _save_state is taken and written inside the lock of the claim.         *)
ClaimedIsGone ==
    \A c \in Cell :
        /\ memory[c] \in claimed => memory[c] = None
        /\ disk[c] \in claimed => disk[c] = None

(* What an operation has left in its cell when it returned is in the file     *)
(* until the next operation on the cell begins, over restarts and whatever    *)
(* the other threads save or fail to save: "an older snapshot" never lands    *)
(* "on disk after a newer one" (comment in _save_state).  Only an entry of a  *)
(* file that a process could not read may be lost: its next save overwrites   *)
(* the file.                                                                  *)
SettledIsDurable ==
    \A c \in Cell \ unread : settled[c] \subseteq {disk[c]}

(* When no operation is under way the file is what the dicts are, even after *)
(* saves that another thread has made raise: whoever disturbed a save saves  *)
(* for it.  When the file could not be read or written, this holds from the  *)
(* next save that succeeds, which makes up for what was not written.         *)
QuiescentIsDurable ==
    loaded /\ ~unsaved /\ (\A t \in Thread : task[t].pc = "idle") => disk = memory

(* No approval is returned by two claims, of two threads or of the process    *)
(* before a restart and the one after it: "take-once, so two concurrent       *)
(* approve requests cannot both execute the same SQL" (_claim_approval).      *)
ClaimedOnce ==
    [][\A t \in Thread :
          Replace(t) /\ task[t].op = "claim" => task[t].value \notin claimed]_vars
=============================================================================
